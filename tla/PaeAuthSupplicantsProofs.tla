----------------------- MODULE PaeAuthSupplicantsProofs -----------------------
(***************************************************************************)
(* Proofs about the lists of supplicants: they implement the abstract pool  *)
(* (PoolSpec), entries and lists stay well formed (TypeOK), no negotiation  *)
(* is doubled (OneNegotiation) and the event of an initial message finds    *)
(* its KMP (KeyHeard), for every number of supplicants and every limit and  *)
(* timeout.                                                                 *)
(*                                                                         *)
(* A handler threads a record through the calls it makes.  Each call is     *)
(* described once, by what it does to the lists and to the entries.         *)
(***************************************************************************)
EXTENDS PaeAuthSupplicants, NatInductionLemmas, FiniteSetTheorems

-----------------------------------------------------------------------------
(***************************************************************************)
(* Lists without repetition.                                                *)
(***************************************************************************)
LEMMA RangeFacts ==
    ASSUME NEW S, NEW q \in Seq(S)
    PROVE  /\ Range(q) \subseteq S
           /\ \A i \in 1..Len(q) : q[i] \in Range(q)
           /\ \A x \in Range(q) : \E i \in 1..Len(q) : q[i] = x
           /\ q = <<>> <=> Range(q) = {}
           /\ Len(q) \in Nat
<1>1. DOMAIN q = 1..Len(q) /\ Len(q) \in Nat /\ \A i \in 1..Len(q) : q[i] \in S  OBVIOUS
<1>2. /\ \A i \in 1..Len(q) : q[i] \in Range(q)
      /\ \A x \in Range(q) : \E i \in 1..Len(q) : q[i] = x
  BY <1>1 DEF Range
<1>3. Range(q) \subseteq S  BY <1>1, <1>2
<1>4. q = <<>> => Range(q) = {}
  <2>1. q = <<>> => Len(q) = 0  OBVIOUS
  <2> QED  BY <1>1, <1>2, <2>1
<1>5. q # <<>> => Range(q) # {}
  <2>1. q # <<>> => 1 \in 1..Len(q)  OBVIOUS
  <2> QED  BY <1>2, <2>1
<1> QED  BY <1>1, <1>2, <1>3, <1>4, <1>5

\* A list without repetition has as many members as places.
LEMMA InjectiveLen ==
    ASSUME NEW S, NEW q \in Seq(S), IsInjective(q)
    PROVE  IsFiniteSet(Range(q)) /\ Cardinality(Range(q)) = Len(q)
<1>1. Len(q) \in Nat /\ DOMAIN q = 1..Len(q)  OBVIOUS
<1>2. IsFiniteSet(1..Len(q)) /\ Cardinality(1..Len(q)) = Len(q)
  <2>1. 1 \in Int /\ Len(q) \in Int  BY <1>1
  <2>2. IsFiniteSet(1..Len(q)) /\ Cardinality(1..Len(q)) = IF 1 > Len(q) THEN 0 ELSE Len(q) - 1 + 1
    BY <2>1, FS_Interval
  <2> QED  BY <1>1, <2>2
<1>3. q \in Bijection(1..Len(q), Range(q))
  <2>1. q \in [1..Len(q) -> Range(q)]  BY <1>1 DEF Range
  <2>2. \A a, b \in 1..Len(q) : q[a] = q[b] => a = b  BY <1>1 DEF IsInjective
  <2>3. \A t \in Range(q) : \E i \in 1..Len(q) : q[i] = t  BY <1>1 DEF Range
  <2> QED  BY <2>1, <2>2, <2>3 DEF Bijection, Injection, Surjection, IsInjective
<1>4. ExistsBijection(1..Len(q), Range(q))  BY <1>3 DEF ExistsBijection
<1> QED  BY <1>2, <1>4, FS_Bijection

LEMMA WithoutFacts ==
    ASSUME NEW S, NEW q \in Seq(S), IsInjective(q), NEW x
    PROVE  LET r == Without(q, x)
           IN  /\ r \in Seq(S) /\ IsInjective(r) /\ Range(r) = Range(q) \ {x}
               /\ x \in Range(q) => Len(r) = Len(q) - 1
               /\ x \notin Range(q) => r = q
<1> DEFINE r == Without(q, x)
<1>1. CASE x \notin Range(q)  BY <1>1 DEF Without
<1>2. CASE x \in Range(q)
  <2>1. PICK p \in 1..Len(q) : q[p] = x  BY <1>2 DEF Range
  <2>2. Len(q) \in Nat /\ Len(q) >= 1 /\ DOMAIN q = 1..Len(q)  BY <2>1
  <2>3. \A i, j \in 1..Len(q) : q[i] = q[j] => i = j  BY <2>2 DEF IsInjective
  <2>4. r = [i \in 1..(Len(q) - 1) |-> IF \E j \in 1..i : q[j] = x THEN q[i + 1] ELSE q[i]]
    BY <1>2 DEF Without
  <2>5. ASSUME NEW i \in 1..(Len(q) - 1) PROVE r[i] = IF p <= i THEN q[i + 1] ELSE q[i]
    <3>1. (\E j \in 1..i : q[j] = x) <=> p <= i  BY <2>1, <2>2, <2>3
    <3> QED  BY <2>4, <3>1
  <2>6. \A i \in 1..(Len(q) - 1) : r[i] \in S  BY <2>2, <2>5
  <2>7. r \in Seq(S) /\ Len(r) = Len(q) - 1 /\ DOMAIN r = 1..(Len(q) - 1)
    <3>1. DOMAIN r = 1..(Len(q) - 1) /\ r \in [1..(Len(q) - 1) -> S]  BY <2>4, <2>6
    <3>2. Len(q) - 1 \in Nat  BY <2>2
    <3> HIDE DEF r
    <3> QED  BY <3>1, <3>2
  <2> HIDE DEF r
  <2>8. IsInjective(r)
    <3> SUFFICES ASSUME NEW a \in 1..(Len(q) - 1), NEW b \in 1..(Len(q) - 1), r[a] = r[b]
                 PROVE  a = b
      BY <2>7 DEF IsInjective
    <3> DEFINE f(i) == IF p <= i THEN i + 1 ELSE i
    <3>1. r[a] = q[f(a)] /\ r[b] = q[f(b)] /\ f(a) \in 1..Len(q) /\ f(b) \in 1..Len(q)
      BY <2>2, <2>5
    <3>2. f(a) = f(b)
      <4> HIDE DEF f
      <4> QED  BY <2>3, <3>1
    <3> QED  BY <3>2, <2>2
  <2>9. Range(r) = Range(q) \ {x}
    <3>1. ASSUME NEW y \in Range(r) PROVE y \in Range(q) \ {x}
      <4>1. PICK i \in 1..(Len(q) - 1) : y = r[i]  BY <2>7 DEF Range
      <4>2. CASE p <= i
        <5>1. y = q[i + 1] /\ i + 1 \in 1..Len(q) /\ i + 1 # p  BY <2>2, <2>5, <4>1, <4>2
        <5> QED  BY <2>1, <2>2, <2>3, <5>1 DEF Range
      <4>3. CASE ~(p <= i)
        <5>1. y = q[i] /\ i \in 1..Len(q) /\ i # p  BY <2>2, <2>5, <4>1, <4>3
        <5> QED  BY <2>1, <2>2, <2>3, <5>1 DEF Range
      <4> QED  BY <4>2, <4>3
    <3>2. ASSUME NEW y \in Range(q), y # x PROVE y \in Range(r)
      <4>1. PICK i \in 1..Len(q) : y = q[i]  BY <2>2 DEF Range
      <4>2. i # p  BY <2>1, <3>2, <4>1
      <4>3. CASE i < p
        <5>1. i \in 1..(Len(q) - 1) /\ ~(p <= i)  BY <2>2, <4>3
        <5>2. r[i] = y  BY <2>5, <4>1, <5>1
        <5> QED  BY <2>7, <5>1, <5>2 DEF Range
      <4>4. CASE i > p
        <5>1. i - 1 \in 1..(Len(q) - 1) /\ p <= i - 1 /\ (i - 1) + 1 = i  BY <2>2, <4>4
        <5>2. r[i - 1] = y  BY <2>5, <4>1, <5>1
        <5> QED  BY <2>7, <5>1, <5>2 DEF Range
      <4> QED  BY <2>2, <4>2, <4>3, <4>4
    <3> QED  BY <3>1, <3>2
  <2> QED  BY <1>2, <2>7, <2>8, <2>9 DEF r
<1> QED  BY <1>1, <1>2

LEMMA ConsFacts ==
    ASSUME NEW S, NEW q \in Seq(S), NEW x \in S, IsInjective(q), x \notin Range(q)
    PROVE  LET r == <<x>> \o q
           IN  /\ r \in Seq(S) /\ IsInjective(r) /\ Range(r) = Range(q) \cup {x}
               /\ Len(r) = Len(q) + 1
<1> DEFINE r == <<x>> \o q
<1>1. r \in Seq(S) /\ Len(r) = Len(q) + 1 /\ Len(q) \in Nat  OBVIOUS
<1>2. r[1] = x /\ \A i \in 1..Len(q) : r[i + 1] = q[i]  OBVIOUS
<1>3. DOMAIN r = 1..(Len(q) + 1) /\ DOMAIN q = 1..Len(q)  BY <1>1
<1> HIDE DEF r
<1>4. \A i \in 2..(Len(q) + 1) : i - 1 \in 1..Len(q) /\ r[i] = q[i - 1]
  <2> SUFFICES ASSUME NEW i \in 2..(Len(q) + 1) PROVE i - 1 \in 1..Len(q) /\ r[i] = q[i - 1]
    OBVIOUS
  <2>1. i - 1 \in 1..Len(q) /\ (i - 1) + 1 = i  BY <1>1
  <2> QED  BY <1>2, <2>1
<1>5. Range(r) = Range(q) \cup {x}
  <2>1. ASSUME NEW y \in Range(r) PROVE y \in Range(q) \cup {x}
    <3>1. PICK i \in 1..(Len(q) + 1) : y = r[i]  BY <1>3 DEF Range
    <3>2. CASE i = 1  BY <1>2, <3>1, <3>2
    <3>3. CASE i # 1  
      <4>1. i \in 2..(Len(q) + 1)  BY <1>1, <3>3
      <4> QED  BY <1>3, <1>4, <3>1, <4>1 DEF Range
    <3> QED  BY <3>2, <3>3
  <2>2. ASSUME NEW y \in Range(q) PROVE y \in Range(r)
    <3>1. PICK i \in 1..Len(q) : y = q[i]  BY <1>3 DEF Range
    <3>2. i + 1 \in 1..(Len(q) + 1) /\ r[i + 1] = y  BY <1>1, <1>2, <3>1
    <3> QED  BY <1>3, <3>2 DEF Range
  <2>3. x \in Range(r)
    <3>1. 1 \in 1..(Len(q) + 1)  BY <1>1
    <3> QED  BY <1>2, <1>3, <3>1 DEF Range
  <2> QED  BY <2>1, <2>2, <2>3
<1>6. IsInjective(r)
  <2> SUFFICES ASSUME NEW a \in 1..(Len(q) + 1), NEW b \in 1..(Len(q) + 1), r[a] = r[b]
               PROVE  a = b
    BY <1>3 DEF IsInjective
  <2>1. \A i \in 1..Len(q) : q[i] # x  BY <1>3 DEF Range
  <2>2. \A i, j \in 1..Len(q) : q[i] = q[j] => i = j  BY <1>3 DEF IsInjective
  <2>3. CASE a = 1 \/ b = 1  BY <1>1, <1>2, <1>4, <2>1, <2>3
  <2>4. CASE a # 1 /\ b # 1
    <3>1. a \in 2..(Len(q) + 1) /\ b \in 2..(Len(q) + 1)  BY <1>1, <2>4
    <3>2. a - 1 = b - 1  BY <1>4, <2>2, <3>1
    <3> QED  BY <3>1, <3>2, <1>1
  <2> QED  BY <2>3, <2>4
<1> QED  BY <1>1, <1>5, <1>6 DEF r

LEMMA TailFacts ==
    ASSUME NEW S, NEW q \in Seq(S), IsInjective(q), q # <<>>
    PROVE  /\ Head(q) \in Range(q) /\ Head(q) \in S
           /\ Tail(q) \in Seq(S) /\ IsInjective(Tail(q)) /\ Range(Tail(q)) = Range(q) \ {Head(q)}
           /\ Len(Tail(q)) = Len(q) - 1
<1> DEFINE r == Tail(q)
<1>1. /\ r \in Seq(S) /\ Len(r) = Len(q) - 1 /\ Len(q) \in Nat /\ Len(q) >= 1
      /\ Head(q) = q[1] /\ DOMAIN q = 1..Len(q) /\ DOMAIN r = 1..(Len(q) - 1)
  OBVIOUS
<1>2. \A i \in 1..(Len(q) - 1) : r[i] = q[i + 1] /\ i + 1 \in 1..Len(q)  BY <1>1
<1> HIDE DEF r
<1>3. \A i, j \in 1..Len(q) : q[i] = q[j] => i = j  BY <1>1 DEF IsInjective
<1>4. 1 \in 1..Len(q)  BY <1>1
<1>5. IsInjective(r)
  <2> SUFFICES ASSUME NEW a \in 1..(Len(q) - 1), NEW b \in 1..(Len(q) - 1), r[a] = r[b]
               PROVE  a = b
    BY <1>1 DEF IsInjective
  <2>1. a + 1 = b + 1  BY <1>2, <1>3
  <2> QED  BY <2>1
<1>6. Range(r) = Range(q) \ {q[1]}
  <2>1. ASSUME NEW y \in Range(r) PROVE y \in Range(q) /\ y # q[1]
    <3>1. PICK i \in 1..(Len(q) - 1) : y = r[i]  BY <1>1 DEF Range
    <3>2. y = q[i + 1] /\ i + 1 \in 1..Len(q) /\ i + 1 # 1  BY <1>1, <1>2, <3>1
    <3> QED  BY <1>1, <1>3, <1>4, <3>2 DEF Range
  <2>2. ASSUME NEW y \in Range(q), y # q[1] PROVE y \in Range(r)
    <3>1. PICK i \in 1..Len(q) : y = q[i]  BY <1>1 DEF Range
    <3>2. i - 1 \in 1..(Len(q) - 1) /\ (i - 1) + 1 = i  BY <1>1, <2>2, <3>1
    <3>3. r[i - 1] = y  BY <1>2, <3>1, <3>2
    <3> QED  BY <1>1, <3>2, <3>3 DEF Range
  <2> QED  BY <2>1, <2>2
<1>7. q[1] \in Range(q) /\ q[1] \in S  BY <1>1, <1>4 DEF Range
<1> QED  BY <1>1, <1>5, <1>6, <1>7 DEF r

LEMMA LastFacts ==
    ASSUME NEW S, NEW q \in Seq(S), q # <<>>
    PROVE  Last(q) \in Range(q) /\ Last(q) \in S
<1>1. Len(q) \in 1..Len(q) /\ DOMAIN q = 1..Len(q)  OBVIOUS
<1> QED  BY <1>1 DEF Last, Range

-----------------------------------------------------------------------------
(***************************************************************************)
(* What a handler threads through its calls, and what is said of it.        *)
(***************************************************************************)
FiniteEntry == {e \in Entry : IsFiniteSet(e.kmps)}

Handling == [active : Seq(Supp), waiting : Seq(Supp), size : Int, ent : [Supp -> FiniteEntry],
             events : Seq(Event), running : BOOLEAN]

\* A call deals with the entry of x only.
OnlyEntry(s, t, x) ==
    /\ t.active = s.active /\ t.waiting = s.waiting /\ t.size = s.size
    /\ \A y \in Supp \ {x} : t.ent[y] = s.ent[y]

\* At most one instance of each protocol but GKH and KEY.
Once == {"MKA", "TLS", "4WH"}
Single(e) ==
    \A j, k \in e.kmps : j.type = k.type /\ j.type \in Once => j = k

LEMMA Assumed ==
    /\ MinActive \in Nat /\ MaxActive \in Nat \ {0} /\ WaitMax \in Nat \ {0, 1}
    /\ AuthTicks \in Nat \ {0} /\ AfterTicks \in Nat \ {0} /\ RetryTicks \in Nat \ {0}
    /\ KmpTicks \in Nat \ {0} /\ EndTicks \in Nat \ {0}
    /\ MaxMsgs \in Nat /\ IsFiniteSet(Supp)
BY PoolAssumption

LEMMA EntryFields ==
    ASSUME NEW e \in FiniteEntry
    PROVE  /\ e.kmps \subseteq Kmp /\ IsFiniteSet(e.kmps) /\ e.ticks \in Nat
           /\ e.wait \in 0..RetryTicks /\ e.need \in Needs
BY DEF FiniteEntry, Entry

LEMMA EntryWith ==
    ASSUME NEW e \in FiniteEntry, NEW ks \in SUBSET Kmp, IsFiniteSet(ks), NEW n \in Nat,
           NEW w \in 0..RetryTicks, NEW d \in Needs
    PROVE  /\ [e EXCEPT !.kmps = ks] \in FiniteEntry
           /\ [e EXCEPT !.ticks = n] \in FiniteEntry
           /\ [e EXCEPT !.wait = w] \in FiniteEntry
           /\ [e EXCEPT !.need = d] \in FiniteEntry
           /\ [e EXCEPT !.kmps = ks, !.ticks = n, !.wait = w] \in FiniteEntry
BY DEF FiniteEntry, Entry

LEMMA NoEntryType == NoEntry \in FiniteEntry /\ Single(NoEntry)
<1>1. IsFiniteSet({})  BY FS_EmptySet
<1>2. 0 \in 0..RetryTicks  BY Assumed
<1> QED  BY <1>1, <1>2 DEF NoEntry, FiniteEntry, Entry, Needs, Single

\* The entry of x is replaced.
LEMMA SetEntry ==
    ASSUME NEW s \in Handling, NEW x \in Supp, NEW e \in FiniteEntry
    PROVE  LET t == [s EXCEPT !.ent[x] = e]
           IN  /\ t \in Handling /\ OnlyEntry(s, t, x) /\ t.ent[x] = e
               /\ t.events = s.events /\ t.running = s.running
<1> DEFINE t == [s EXCEPT !.ent[x] = e]
<1>1. s.ent \in [Supp -> FiniteEntry]  BY DEF Handling
<1>2. t = [s EXCEPT !.ent = [s.ent EXCEPT ![x] = e]]  BY DEF Handling
<1>3. [s.ent EXCEPT ![x] = e] \in [Supp -> FiniteEntry]  BY <1>1
<1>4. t \in Handling  BY <1>2, <1>3 DEF Handling
<1>5. /\ t.active = s.active /\ t.waiting = s.waiting /\ t.size = s.size
      /\ t.events = s.events /\ t.running = s.running /\ t.ent = [s.ent EXCEPT ![x] = e]
  BY <1>2 DEF Handling
<1> HIDE DEF t
<1>6. t.ent[x] = e /\ \A y \in Supp \ {x} : t.ent[y] = s.ent[y]  BY <1>1, <1>5
<1> QED  BY <1>4, <1>5, <1>6 DEF OnlyEntry, t

-----------------------------------------------------------------------------
(***************************************************************************)
(* The name of a new instance.                                              *)
(***************************************************************************)
LEMMA NewIdType ==
    ASSUME NEW s \in Handling
    PROVE  NewId(s) \in Nat /\ \A v \in Range(s.events) : v.id # NewId(s)
<1> DEFINE all == {s.ent[x].kmps : x \in Supp}
           K == UNION all
           ids == {k.id : k \in K}
           evs == {v.id : v \in Range(s.events)}
           used == ids \cup evs
<1>1. IsFiniteSet(all)
  <2> DEFINE f == [x \in Supp |-> s.ent[x].kmps]
  <2>1. f \in Surjection(Supp, all)  BY DEF Surjection
  <2> HIDE DEF f, all
  <2> QED  BY <2>1, Assumed, FS_Surjection
<1>2. IsFiniteSet(K)
  <2>1. \A T \in all : IsFiniteSet(T)
    <3>1. \A x \in Supp : s.ent[x] \in FiniteEntry  BY DEF Handling
    <3> QED  BY <3>1, EntryFields
  <2> HIDE DEF all
  <2> QED  BY <1>1, <2>1, FS_UNION
<1>3. IsFiniteSet(ids)
  <2> DEFINE f == [k \in K |-> k.id]
  <2> HIDE DEF K
  <2>1. f \in Surjection(K, ids)  BY DEF Surjection
  <2> HIDE DEF f, ids
  <2> QED  BY <1>2, <2>1, FS_Surjection
<1>4. IsFiniteSet(evs)
  <2> DEFINE q == s.events
             f == [i \in 1..Len(q) |-> q[i].id]
  <2>1. q \in Seq(Event) /\ Len(q) \in Nat  BY DEF Handling
  <2>2. IsFiniteSet(1..Len(q))  BY <2>1, FS_Interval
  <2>3. DOMAIN q = 1..Len(q)  BY <2>1
  <2> HIDE DEF q
  <2>4. f \in Surjection(1..Len(q), {v.id : v \in Range(q)})
    BY <2>3 DEF Surjection, Range
  <2> HIDE DEF f
  <2>5. IsFiniteSet({v.id : v \in Range(q)})  BY <2>2, <2>4, FS_Surjection
  <2> QED  BY <2>5 DEF q
<1> HIDE DEF ids, evs
<1>5. IsFiniteSet(used) /\ Cardinality(used) \in Nat
  BY <1>3, <1>4, FS_Union, FS_CardinalityType
<1> DEFINE N == Cardinality(used) + 1
           T == {n \in 1..N : n \notin used}
<1>6. NewId(s) = CHOOSE n \in 1..N : n \notin used /\ \A m \in 1..(n - 1) : m \in used
  BY DEF NewId, ids, evs
<1> HIDE DEF used
<1>7. T # {}
  <2> SUFFICES ASSUME T = {} PROVE FALSE  OBVIOUS
  <2>1. (1..N) \subseteq used  OBVIOUS
  <2>2. IsFiniteSet(1..N) /\ Cardinality(1..N) = N
    <3>1. N \in Nat /\ N >= 1 /\ 1 \in Int /\ N \in Int  BY <1>5
    <3> HIDE DEF N
    <3>2. Cardinality(1..N) = IF 1 > N THEN 0 ELSE N - 1 + 1  BY <3>1, FS_Interval
    <3> QED  BY <3>1, <3>2, FS_Interval
  <2>3. Cardinality(1..N) <= Cardinality(used)
    <3> HIDE DEF N
    <3> QED  BY <1>5, <2>1, FS_Subset
  <2> QED  BY <1>5, <2>2, <2>3
<1>8. PICK n \in T : \A m \in T : n <= m
  <2>1. T \subseteq Nat  BY <1>5
  <2> HIDE DEF T
  <2> QED  BY <1>7, <2>1, LeastNat
<1>9. n \in 1..N /\ n \notin used /\ \A m \in 1..(n - 1) : m \in used
  <2>1. n \in 1..N /\ n \notin used /\ N \in Nat  BY <1>5, <1>8
  <2>2. ASSUME NEW m \in 1..(n - 1) PROVE m \in used
    <3>1. m \in 1..N /\ ~(n <= m)  BY <2>1
    <3> QED  BY <1>8, <3>1
  <2> QED  BY <2>1, <2>2
<1> HIDE DEF T, N
<1>10. NewId(s) \in 1..N /\ NewId(s) \notin used  BY <1>6, <1>9
<1>11. NewId(s) \in Nat  BY <1>5, <1>10 DEF N
<1>12. \A v \in Range(s.events) : v.id \in used  BY DEF used, evs
<1> QED  BY <1>10, <1>11, <1>12

\* New instances of x are of that type.
OnlyOfType(s, t, x, type) ==
    \A k \in t.ent[x].kmps : k \in s.ent[x].kmps \/ k.type = type

LEMMA CreateFacts ==
    ASSUME NEW s \in Handling, NEW x \in Supp, NEW type \in Types,
           NEW st \in {"posted", "run", "end"}
    PROVE  LET t == Create(s, x, type, st)
           IN  /\ t \in Handling /\ OnlyEntry(s, t, x) /\ t.events = s.events
               /\ t.ent[x].wait = s.ent[x].wait /\ t.ent[x].need = s.ent[x].need
               /\ OnlyOfType(s, t, x, type)
               /\ Single(s.ent[x]) /\ (type \in Once => OfType(s, x, type) = {})
                     => Single(t.ent[x])
<1> DEFINE k == [id |-> NewId(s), type |-> type, st |-> st, left |-> KmpTicks]
           ks == s.ent[x].kmps \cup {k}
           e == [s.ent[x] EXCEPT !.kmps = ks]
           u == [s EXCEPT !.ent[x] = e]
           t == Create(s, x, type, st)
<1>1. k \in Kmp /\ k.type = type  BY NewIdType, Assumed DEF Kmp
<1>2. s.ent[x] \in FiniteEntry  BY DEF Handling
<1>3. ks \in SUBSET Kmp /\ IsFiniteSet(ks)
  <2> HIDE DEF k
  <2> QED  BY <1>1, <1>2, EntryFields, FS_AddElement
<1>4. t = [u EXCEPT !.running = TRUE]
  BY DEF Create, Handling
<1> HIDE DEF k
<1>5. /\ e \in FiniteEntry /\ e.kmps = ks
      /\ e.wait = s.ent[x].wait /\ e.need = s.ent[x].need
  BY <1>2, <1>3 DEF FiniteEntry, Entry
<1> HIDE DEF e
<1>6. /\ u \in Handling /\ OnlyEntry(s, u, x) /\ u.ent[x] = e /\ u.events = s.events
  BY <1>5, SetEntry
<1> HIDE DEF u, t
<1>7. /\ t \in Handling /\ t.ent = u.ent /\ t.active = u.active /\ t.waiting = u.waiting
      /\ t.size = u.size /\ t.events = u.events
  BY <1>4, <1>6 DEF Handling
<1>8. ASSUME Single(s.ent[x]), type \in Once => OfType(s, x, type) = {}
      PROVE  Single(e)
  <2> SUFFICES ASSUME NEW a \in ks, NEW b \in ks, a.type = b.type, a.type \in Once PROVE a = b
    BY <1>5 DEF Single
  <2>1. \A c \in s.ent[x].kmps : type \in Once => c.type # type  BY <1>8 DEF OfType
  <2> QED  BY <1>1, <1>8, <2>1 DEF Single
<1> QED  BY <1>1, <1>5, <1>6, <1>7, <1>8 DEF OnlyEntry, OnlyOfType, t

LEMMA CreateAndPostFacts ==
    ASSUME NEW s \in Handling, NEW x \in Supp, NEW type \in Types
    PROVE  LET t == CreateAndPost(s, x, type)
           IN  /\ t \in Handling /\ OnlyEntry(s, t, x)
               /\ t.ent[x].wait = s.ent[x].wait /\ t.ent[x].need = s.ent[x].need
               /\ Single(s.ent[x]) /\ (type \in Once => OfType(s, x, type) = {})
                     => Single(t.ent[x])
<1> DEFINE c == Create(s, x, type, "posted")
           v == [id |-> NewId(s), type |-> type]
           t == CreateAndPost(s, x, type)
<1>1. /\ c \in Handling /\ OnlyEntry(s, c, x) /\ c.events = s.events
      /\ c.ent[x].wait = s.ent[x].wait /\ c.ent[x].need = s.ent[x].need
      /\ Single(s.ent[x]) /\ (type \in Once => OfType(s, x, type) = {}) => Single(c.ent[x])
  <2>1. "posted" \in {"posted", "run", "end"}  OBVIOUS
  <2> QED  BY <2>1, CreateFacts
<1>2. v \in Event  BY NewIdType DEF Event
<1>3. t = [c EXCEPT !.events = Append(@, v)]  BY DEF CreateAndPost, Post
<1> HIDE DEF c, v, t
<1>4. Append(c.events, v) \in Seq(Event)  BY <1>1, <1>2 DEF Handling
<1>5. /\ t \in Handling /\ t.ent = c.ent /\ t.active = c.active /\ t.waiting = c.waiting
      /\ t.size = c.size
  BY <1>1, <1>3, <1>4 DEF Handling
<1> QED  BY <1>1, <1>5 DEF OnlyEntry, t

\* Instances of x are replaced by ks, in which there are no new pairs.
LEMMA SetKmps ==
    ASSUME NEW s \in Handling, NEW x \in Supp, NEW ks \in SUBSET Kmp, IsFiniteSet(ks)
    PROVE  LET t == [s EXCEPT !.ent[x].kmps = ks]
           IN  /\ t \in Handling /\ OnlyEntry(s, t, x) /\ t.ent[x].kmps = ks
               /\ t.ent[x].wait = s.ent[x].wait /\ t.ent[x].need = s.ent[x].need
               /\ t.ent[x].ticks = s.ent[x].ticks
               /\ t.events = s.events /\ t.running = s.running
<1> DEFINE e == [s.ent[x] EXCEPT !.kmps = ks]
           u == [s EXCEPT !.ent[x] = e]
           t == [s EXCEPT !.ent[x].kmps = ks]
<1>1. s.ent[x] \in FiniteEntry  BY DEF Handling
<1>2. /\ e \in FiniteEntry /\ e.kmps = ks /\ e.wait = s.ent[x].wait /\ e.need = s.ent[x].need
      /\ e.ticks = s.ent[x].ticks
  BY <1>1 DEF FiniteEntry, Entry
<1>3. t = u  BY DEF Handling
<1> HIDE DEF e
<1>4. /\ u \in Handling /\ OnlyEntry(s, u, x) /\ u.ent[x] = e
      /\ u.events = s.events /\ u.running = s.running
  BY <1>2, SetEntry
<1> HIDE DEF u, t
<1> QED  BY <1>2, <1>3, <1>4 DEF t

LEMMA DeleteFacts ==
    ASSUME NEW s \in Handling, NEW x \in Supp, NEW ks
    PROVE  LET t == Delete(s, x, ks)
           IN  /\ t \in Handling /\ OnlyEntry(s, t, x) /\ t.ent[x].kmps = s.ent[x].kmps \ ks
               /\ t.ent[x].wait = s.ent[x].wait /\ t.ent[x].need = s.ent[x].need
               /\ Single(s.ent[x]) => Single(t.ent[x])
<1> DEFINE left == s.ent[x].kmps \ ks
           t == [s EXCEPT !.ent[x].kmps = left]
<1>1. s.ent[x] \in FiniteEntry  BY DEF Handling
<1>2. left \in SUBSET Kmp /\ IsFiniteSet(left)  BY <1>1, EntryFields, FS_Difference
<1>3. Delete(s, x, ks) = t  BY DEF Delete
<1> HIDE DEF left
<1>4. /\ t \in Handling /\ OnlyEntry(s, t, x) /\ t.ent[x].kmps = left
      /\ t.ent[x].wait = s.ent[x].wait /\ t.ent[x].need = s.ent[x].need
  BY <1>2, SetKmps
<1> HIDE DEF t
<1>5. Single(s.ent[x]) => Single(t.ent[x])  BY <1>4 DEF Single, left
<1> QED  BY <1>3, <1>4, <1>5 DEF left

LEMMA SetTicks ==
    ASSUME NEW s \in Handling, NEW x \in Supp, NEW n \in Nat
    PROVE  LET t == [s EXCEPT !.ent[x].ticks = n]
           IN  /\ t \in Handling /\ OnlyEntry(s, t, x) /\ t.ent[x].kmps = s.ent[x].kmps
               /\ t.ent[x].wait = s.ent[x].wait /\ t.ent[x].need = s.ent[x].need
               /\ Single(s.ent[x]) => Single(t.ent[x])
<1> DEFINE e == [s.ent[x] EXCEPT !.ticks = n]
           u == [s EXCEPT !.ent[x] = e]
           t == [s EXCEPT !.ent[x].ticks = n]
<1>1. s.ent[x] \in FiniteEntry  BY DEF Handling
<1>2. /\ e \in FiniteEntry /\ e.kmps = s.ent[x].kmps /\ e.wait = s.ent[x].wait
      /\ e.need = s.ent[x].need
  BY <1>1 DEF FiniteEntry, Entry
<1>3. t = u  BY DEF Handling
<1> HIDE DEF e
<1>4. u \in Handling /\ OnlyEntry(s, u, x) /\ u.ent[x] = e  BY <1>2, SetEntry
<1> HIDE DEF u, t
<1> QED  BY <1>2, <1>3, <1>4 DEF Single, t

LEMMA OnlyEntryTrans ==
    ASSUME NEW s, NEW t, NEW u, NEW x, OnlyEntry(s, t, x), OnlyEntry(t, u, x)
    PROVE  OnlyEntry(s, u, x)
BY DEF OnlyEntry

\* ws_pae_auth_next_kmp_trigger() leaves the lists alone and never makes a
\* second instance of a protocol that may run once.
LEMMA TriggerFacts ==
    ASSUME NEW s \in Handling, NEW x \in Supp
    PROVE  LET t == Trigger(s, x)
           IN  /\ t \in Handling /\ OnlyEntry(s, t, x)
               /\ t.ent[x].wait = s.ent[x].wait /\ t.ent[x].need = s.ent[x].need
               /\ Single(s.ent[x]) => Single(t.ent[x])
<1> DEFINE need == s.ent[x].need
           prev == Previous(s, x, need)
           s0 == [s EXCEPT !.ent[x].ticks = AuthTicks]
           s1 == Delete(s0, x, prev)
           t == Trigger(s, x)
           Ok(u) == /\ u \in Handling /\ OnlyEntry(s, u, x)
                    /\ u.ent[x].wait = s.ent[x].wait /\ u.ent[x].need = s.ent[x].need
                    /\ Single(s.ent[x]) => Single(u.ent[x])
<1>1. need \in Needs
  <2>1. s.ent[x] \in FiniteEntry  BY DEF Handling
  <2> QED  BY <2>1, EntryFields
<1>2. t = IF need = "none" THEN [s EXCEPT !.ent[x].ticks = AfterTicks]
          ELSE IF need # "MKA" THEN CreateAndPost(s1, x, need)
          ELSE IF OfType(s1, x, "TLS") # {} THEN [s1 EXCEPT !.running = TRUE]
          ELSE CreateAndPost(Create(s1, x, "TLS", "run"), x, "MKA")
  BY DEF Trigger
<1>3. /\ s0 \in Handling /\ OnlyEntry(s, s0, x) /\ s0.ent[x].kmps = s.ent[x].kmps
      /\ s0.ent[x].wait = s.ent[x].wait /\ s0.ent[x].need = s.ent[x].need
      /\ Single(s.ent[x]) => Single(s0.ent[x])
  BY SetTicks, Assumed
<1> HIDE DEF s0, prev
<1>4. Ok(s1) /\ s1.ent[x].kmps = s.ent[x].kmps \ prev
  <2>1. /\ s1 \in Handling /\ OnlyEntry(s0, s1, x) /\ s1.ent[x].kmps = s0.ent[x].kmps \ prev
        /\ s1.ent[x].wait = s0.ent[x].wait /\ s1.ent[x].need = s0.ent[x].need
        /\ Single(s0.ent[x]) => Single(s1.ent[x])
    BY <1>3, DeleteFacts
  <2> HIDE DEF s1
  <2> QED  BY <1>3, <2>1, OnlyEntryTrans
<1> HIDE DEF s1
<1>5. need # "GKH" => OfType(s1, x, need) = {}
  BY <1>4 DEF Previous, OfType, prev
<1> HIDE DEF need, t
<1>6. CASE need = "none"
  <2>1. t = [s EXCEPT !.ent[x].ticks = AfterTicks]  BY <1>2, <1>6
  <2>2. Ok([s EXCEPT !.ent[x].ticks = AfterTicks])  BY SetTicks, Assumed
  <2> QED  BY <2>1, <2>2 DEF t
<1>7. CASE need \notin {"none", "MKA"}
  <2>1. t = CreateAndPost(s1, x, need) /\ need \in Types
    BY <1>1, <1>2, <1>7 DEF Needs, Types
  <2>2. need \in Once => OfType(s1, x, need) = {}  BY <1>5 DEF Once
  <2>3. Ok(CreateAndPost(s1, x, need))
    <3> DEFINE u == CreateAndPost(s1, x, need)
    <3>1. /\ u \in Handling /\ OnlyEntry(s1, u, x)
          /\ u.ent[x].wait = s1.ent[x].wait /\ u.ent[x].need = s1.ent[x].need
          /\ Single(s1.ent[x]) /\ (need \in Once => OfType(s1, x, need) = {}) => Single(u.ent[x])
      BY <1>4, <2>1, CreateAndPostFacts
    <3> HIDE DEF u
    <3> QED  BY <1>4, <2>2, <3>1, OnlyEntryTrans DEF u
  <2> QED  BY <2>1, <2>3 DEF t
<1>8. CASE need = "MKA" /\ OfType(s1, x, "TLS") # {}
  <2> DEFINE u == [s1 EXCEPT !.running = TRUE]
  <2>1. t = u  BY <1>2, <1>8
  <2>2. /\ u \in Handling /\ u.ent = s1.ent /\ u.active = s1.active /\ u.waiting = s1.waiting
        /\ u.size = s1.size
    BY <1>4 DEF Handling
  <2> HIDE DEF u
  <2>3. Ok(u)  BY <1>4, <2>2 DEF OnlyEntry
  <2> QED  BY <2>1, <2>3 DEF t
<1>9. CASE need = "MKA" /\ OfType(s1, x, "TLS") = {}
  <2> DEFINE c == Create(s1, x, "TLS", "run")
             u == CreateAndPost(c, x, "MKA")
  <2>1. t = u  BY <1>2, <1>9
  <2>2. "TLS" \in Types /\ "MKA" \in Types /\ "run" \in {"posted", "run", "end"}  BY DEF Types
  <2>3. /\ c \in Handling /\ OnlyEntry(s1, c, x)
        /\ c.ent[x].wait = s1.ent[x].wait /\ c.ent[x].need = s1.ent[x].need
        /\ OnlyOfType(s1, c, x, "TLS")
        /\ Single(s1.ent[x]) => Single(c.ent[x])
    <3> DEFINE ty == "TLS"
               st == "run"
    <3>1. ty \in Types /\ st \in {"posted", "run", "end"} /\ OfType(s1, x, ty) = {}  BY <1>9, <2>2
    <3> HIDE DEF ty, st
    <3> DEFINE d == Create(s1, x, ty, st)
    <3>2. /\ d \in Handling /\ OnlyEntry(s1, d, x)
          /\ d.ent[x].wait = s1.ent[x].wait /\ d.ent[x].need = s1.ent[x].need
          /\ OnlyOfType(s1, d, x, ty)
          /\ Single(s1.ent[x]) /\ (ty \in Once => OfType(s1, x, ty) = {}) => Single(d.ent[x])
      <4>1. s1 \in Handling  BY <1>4
      <4> QED  BY <3>1, <4>1, CreateFacts
    <3>3. c = d  BY DEF ty, st
    <3> HIDE DEF c, d
    <3> QED  BY <3>1, <3>2, <3>3 DEF ty
  <2>4. OfType(s1, x, "MKA") = {}  BY <1>5, <1>9
  <2> HIDE DEF c
  <2>5. OfType(c, x, "MKA") = {}  BY <2>3, <2>4 DEF OfType, OnlyOfType
  <2>6. /\ u \in Handling /\ OnlyEntry(c, u, x)
        /\ u.ent[x].wait = c.ent[x].wait /\ u.ent[x].need = c.ent[x].need
        /\ Single(c.ent[x]) => Single(u.ent[x])
    BY <2>2, <2>3, <2>5, CreateAndPostFacts
  <2> HIDE DEF u
  <2>7. OnlyEntry(s, u, x)
    <3>1. OnlyEntry(s, c, x)  BY <1>4, <2>3, OnlyEntryTrans
    <3> QED  BY <2>6, <3>1, OnlyEntryTrans
  <2>8. Ok(u)  BY <1>4, <2>3, <2>6, <2>7
  <2> QED  BY <2>1, <2>8 DEF t
<1> QED  BY <1>6, <1>7, <1>8, <1>9

-----------------------------------------------------------------------------
(***************************************************************************)
(* The invariant, for what a handler has at hand.  The lists share no       *)
(* supplicant and repeat none, the counter is the length of the waiting     *)
(* list, and only those on a list, and those of X, have an entry.           *)
(***************************************************************************)
Lists(s) ==
    /\ IsInjective(s.active) /\ IsInjective(s.waiting)
    /\ Range(s.active) \cap Range(s.waiting) = {}
    /\ s.size = Len(s.waiting) /\ s.size <= WaitMax

Listed(s) == Range(s.active) \cup Range(s.waiting)

Entries(s, X) ==
    \A y \in Supp : /\ Single(s.ent[y])
                    /\ y \notin Listed(s) \cup X => s.ent[y] = NoEntry

GoodBut(s, X) == s \in Handling /\ Lists(s) /\ Entries(s, X)
Good(s) == GoodBut(s, {})

LEMMA HandlingFields ==
    ASSUME NEW s \in Handling
    PROVE  /\ s.active \in Seq(Supp) /\ s.waiting \in Seq(Supp) /\ s.size \in Int
           /\ s.ent \in [Supp -> FiniteEntry] /\ s.events \in Seq(Event) /\ s.running \in BOOLEAN
           /\ Range(s.active) \subseteq Supp /\ Range(s.waiting) \subseteq Supp
           /\ Len(s.active) \in Nat /\ Len(s.waiting) \in Nat
<1>1. /\ s.active \in Seq(Supp) /\ s.waiting \in Seq(Supp) /\ s.size \in Int
      /\ s.ent \in [Supp -> FiniteEntry] /\ s.events \in Seq(Event) /\ s.running \in BOOLEAN
  BY DEF Handling
<1> QED  BY <1>1, RangeFacts

\* A call that deals with the entry of a supplicant on a list.
LEMMA OnlyEntryGood ==
    ASSUME NEW s, Good(s), NEW x, x \in Listed(s), NEW t \in Handling, OnlyEntry(s, t, x),
           Single(t.ent[x])
    PROVE  Good(t) /\ Listed(t) = Listed(s)
BY DEF Good, GoodBut, OnlyEntry, Lists, Listed, Entries

LEMMA RemoveWaitingFacts ==
    ASSUME NEW s, NEW X, GoodBut(s, X), NEW x \in Range(s.waiting), x \notin X
    PROVE  LET t == RemoveWaiting(s, x)
           IN  /\ GoodBut(t, X) /\ t.active = s.active
               /\ Range(t.waiting) = Range(s.waiting) \ {x} /\ t.size = s.size - 1
               /\ \A y \in Supp \ {x} : t.ent[y] = s.ent[y]
<1> DEFINE w == Without(s.waiting, x)
           t == RemoveWaiting(s, x)
<1>1. s \in Handling /\ Lists(s) /\ Entries(s, X)  BY DEF GoodBut
<1>2. /\ w \in Seq(Supp) /\ IsInjective(w) /\ Range(w) = Range(s.waiting) \ {x}
      /\ Len(w) = Len(s.waiting) - 1
  BY <1>1, WithoutFacts, HandlingFields DEF Lists
<1> HIDE DEF w
<1>3. /\ t.active = s.active /\ t.waiting = w /\ t.size = s.size - 1
      /\ t.ent = [s.ent EXCEPT ![x] = NoEntry]
  BY <1>1 DEF RemoveWaiting, Handling, w
<1>4. t \in Handling
  <2>1. [s.ent EXCEPT ![x] = NoEntry] \in [Supp -> FiniteEntry]
    BY <1>1, NoEntryType, HandlingFields
  <2>2. t = [s EXCEPT !.waiting = w, !.size = s.size - 1, !.ent = [s.ent EXCEPT ![x] = NoEntry]]
    BY <1>1 DEF RemoveWaiting, w, Handling
  <2>3. s.size - 1 \in Int  BY <1>1, HandlingFields
  <2> HIDE DEF t
  <2> QED  BY <1>1, <1>2, <2>1, <2>2, <2>3 DEF Handling
<1> HIDE DEF t
<1>5. x \in Supp /\ t.ent[x] = NoEntry /\ \A y \in Supp \ {x} : t.ent[y] = s.ent[y]
  BY <1>1, <1>3, HandlingFields
<1>6. Lists(t)
  <2>1. s.size = Len(s.waiting) /\ s.size <= WaitMax /\ Len(s.waiting) \in Nat /\ WaitMax \in Nat
    BY <1>1, Assumed, HandlingFields DEF Lists
  <2>2. t.size = Len(t.waiting) /\ t.size <= WaitMax  BY <1>2, <1>3, <2>1
  <2> QED  BY <1>1, <1>2, <1>3, <2>2 DEF Lists
<1>7. Entries(t, X)
  <2>1. \A y \in Supp \ {x} : y \in Listed(s) => y \in Listed(t)  BY <1>2, <1>3 DEF Listed
  <2> QED  BY <1>1, <1>5, <2>1, NoEntryType DEF Entries
<1> QED  BY <1>2, <1>3, <1>4, <1>5, <1>6, <1>7 DEF GoodBut, t

\* The entry of x leaves the active list; nobody takes the place yet.
LEMMA DropActiveFacts ==
    ASSUME NEW s, Good(s), NEW x \in Range(s.active)
    PROVE  LET t == [s EXCEPT !.active = Without(@, x), !.ent[x] = NoEntry]
           IN  /\ Good(t) /\ Range(t.active) = Range(s.active) \ {x}
               /\ t.waiting = s.waiting
<1> DEFINE a == Without(s.active, x)
           t == [s EXCEPT !.active = Without(@, x), !.ent[x] = NoEntry]
<1>1. s \in Handling /\ Lists(s) /\ Entries(s, {})  BY DEF Good, GoodBut
<1>2. a \in Seq(Supp) /\ IsInjective(a) /\ Range(a) = Range(s.active) \ {x}
  BY <1>1, WithoutFacts, HandlingFields DEF Lists
<1>3. t = [s EXCEPT !.active = a, !.ent = [s.ent EXCEPT ![x] = NoEntry]]
  BY <1>1 DEF Handling
<1> HIDE DEF t, a
<1>4. /\ t.active = a /\ t.waiting = s.waiting /\ t.size = s.size
      /\ t.ent = [s.ent EXCEPT ![x] = NoEntry]
  BY <1>1, <1>3 DEF Handling
<1>5. t \in Handling
  <2>1. [s.ent EXCEPT ![x] = NoEntry] \in [Supp -> FiniteEntry]
    BY <1>1, NoEntryType, HandlingFields
  <2> QED  BY <1>1, <1>2, <1>3, <2>1 DEF Handling
<1>6. x \in Supp /\ t.ent[x] = NoEntry /\ \A y \in Supp \ {x} : t.ent[y] = s.ent[y]
  BY <1>1, <1>4, HandlingFields
<1>7. Lists(t)  BY <1>1, <1>2, <1>4 DEF Lists
<1>8. Entries(t, {})
  <2>1. \A y \in Supp \ {x} : y \in Listed(s) => y \in Listed(t)  BY <1>2, <1>4 DEF Listed
  <2> QED  BY <1>1, <1>6, <2>1, NoEntryType DEF Entries
<1> QED  BY <1>2, <1>4, <1>5, <1>7, <1>8 DEF Good, GoodBut, t

\* An entry with another waiting time.
LEMMA WaitEntry ==
    ASSUME NEW s \in Handling, NEW x \in Supp, NEW n \in 0..RetryTicks
    PROVE  LET e == [s.ent[x] EXCEPT !.wait = n]
               f == [s.ent EXCEPT ![x] = e]
           IN  /\ f \in [Supp -> FiniteEntry] /\ f[x].kmps = s.ent[x].kmps
               /\ \A y \in Supp \ {x} : f[y] = s.ent[y]
               /\ Single(s.ent[x]) => Single(f[x])
<1> DEFINE e == [s.ent[x] EXCEPT !.wait = n]
           f == [s.ent EXCEPT ![x] = e]
<1>1. s.ent[x] \in FiniteEntry /\ s.ent \in [Supp -> FiniteEntry]  BY HandlingFields
<1>2. e \in FiniteEntry /\ e.kmps = s.ent[x].kmps  BY <1>1 DEF FiniteEntry, Entry
<1> HIDE DEF e
<1>3. f \in [Supp -> FiniteEntry] /\ f[x] = e /\ \A y \in Supp \ {x} : f[y] = s.ent[y]
  BY <1>1, <1>2
<1> HIDE DEF f
<1> QED  BY <1>2, <1>3 DEF Single, e, f

\* The newest that waits becomes active.
LEMMA PromotedFacts ==
    ASSUME NEW s, Good(s), s.waiting # <<>>
    PROVE  LET t == Promoted(s)
               h == Head(s.waiting)
           IN  /\ Good(t) /\ h \in Range(s.waiting)
               /\ Range(t.active) = Range(s.active) \cup {h}
               /\ Range(t.waiting) = Range(s.waiting) \ {h}
<1> DEFINE h == Head(s.waiting)
           a == <<h>> \o s.active
           w == Tail(s.waiting)
           e == [s.ent[h] EXCEPT !.wait = 0]
           f == [s.ent EXCEPT ![h] = e]
           t == Promoted(s)
<1>1. s \in Handling /\ Lists(s) /\ Entries(s, {})  BY DEF Good, GoodBut
<1>2. /\ h \in Range(s.waiting) /\ h \in Supp /\ w \in Seq(Supp) /\ IsInjective(w)
      /\ Range(w) = Range(s.waiting) \ {h} /\ Len(w) = Len(s.waiting) - 1
  BY <1>1, TailFacts, HandlingFields DEF Lists
<1>3. a \in Seq(Supp) /\ IsInjective(a) /\ Range(a) = Range(s.active) \cup {h}
  <2>1. h \notin Range(s.active)  BY <1>1, <1>2 DEF Lists
  <2> HIDE DEF h
  <2> QED  BY <1>1, <1>2, <2>1, ConsFacts, HandlingFields DEF Lists
<1>4. /\ f \in [Supp -> FiniteEntry] /\ \A y \in Supp \ {h} : f[y] = s.ent[y]
      /\ Single(s.ent[h]) => Single(f[h])
  <2>1. 0 \in 0..RetryTicks  BY Assumed
  <2> HIDE DEF h
  <2> QED  BY <1>1, <1>2, <2>1, WaitEntry
<1>5. t = [s EXCEPT !.waiting = w, !.size = s.size - 1, !.active = a, !.ent = f]
  BY <1>1 DEF Promoted, Handling
<1> HIDE DEF h, a, w, e, f, t
<1>6. t.active = a /\ t.waiting = w /\ t.size = s.size - 1 /\ t.ent = f
  BY <1>1, <1>5 DEF Handling
<1>7. t \in Handling
  <2>1. s.size - 1 \in Int  BY <1>1, HandlingFields
  <2> QED  BY <1>1, <1>2, <1>3, <1>4, <1>5, <2>1 DEF Handling
<1>8. Lists(t)
  <2>1. s.size = Len(s.waiting) /\ s.size <= WaitMax /\ Len(s.waiting) \in Nat /\ WaitMax \in Nat
    BY <1>1, Assumed, HandlingFields DEF Lists
  <2>2. t.size = Len(t.waiting) /\ t.size <= WaitMax  BY <1>2, <1>6, <2>1
  <2> QED  BY <1>1, <1>2, <1>3, <1>6, <2>2 DEF Lists
<1>9. Entries(t, {})
  <2>1. Listed(t) = Listed(s)  BY <1>2, <1>3, <1>6 DEF Listed
  <2>2. h \in Listed(t)  BY <1>3, <1>6 DEF Listed
  <2> QED  BY <1>1, <1>2, <1>4, <1>6, <2>1, <2>2 DEF Entries
<1> QED  BY <1>2, <1>3, <1>6, <1>7, <1>8, <1>9 DEF Good, GoodBut, h, t

\* ws_pae_auth_active_supp_deleted(): x leaves, and at most one that waits
\* takes its place.
Freed(s, t, x) ==
    \/ /\ Range(t.active) = Range(s.active) \ {x}
       /\ Range(t.waiting) = Range(s.waiting)
    \/ \E h \in Range(s.waiting) :
          /\ Range(t.active) = (Range(s.active) \ {x}) \cup {h}
          /\ Range(t.waiting) = Range(s.waiting) \ {h}

LEMMA RemoveActiveFacts ==
    ASSUME NEW s, Good(s), NEW x \in Range(s.active), NEW chance \in BOOLEAN
    PROVE  LET t == RemoveActive(s, x, chance)
           IN  Good(t) /\ Freed(s, t, x)
<1> DEFINE s1 == [s EXCEPT !.active = Without(@, x), !.ent[x] = NoEntry]
           h == Head(s1.waiting)
           p == Promoted(s1)
           u == Trigger(p, h)
           t == RemoveActive(s, x, chance)
           full == LimitReached(Len(s1.active), chance)
<1>1. Good(s1) /\ Range(s1.active) = Range(s.active) \ {x} /\ s1.waiting = s.waiting
  BY DropActiveFacts
<1>2. t = IF full \/ s1.waiting = <<>> THEN s1 ELSE u  BY DEF RemoveActive
<1> HIDE DEF s1, t
<1>3. CASE full \/ s1.waiting = <<>>
  <2>1. t = s1  BY <1>2, <1>3
  <2> QED  BY <1>1, <2>1 DEF t, Freed
<1>4. CASE ~(full \/ s1.waiting = <<>>)
  <2>1. t = u /\ s1.waiting # <<>>  BY <1>2, <1>4
  <2>2. /\ Good(p) /\ h \in Range(s1.waiting)
        /\ Range(p.active) = Range(s1.active) \cup {h}
        /\ Range(p.waiting) = Range(s1.waiting) \ {h}
    BY <1>1, <2>1, PromotedFacts
  <2>3. p \in Handling /\ h \in Supp /\ Single(p.ent[h]) /\ h \in Listed(p)
    <3>1. p \in Handling /\ s1 \in Handling /\ Entries(p, {})  BY <1>1, <2>2 DEF Good, GoodBut
    <3>2. h \in Supp  BY <2>2, <3>1, HandlingFields
    <3> HIDE DEF p, h
    <3> QED  BY <2>2, <3>1, <3>2 DEF Entries, Listed
  <2> HIDE DEF p, h
  <2>4. u \in Handling /\ OnlyEntry(p, u, h) /\ Single(u.ent[h])  BY <2>3, TriggerFacts
  <2> HIDE DEF u
  <2>5. Good(u)  BY <2>2, <2>3, <2>4, OnlyEntryGood
  <2>6. u.active = p.active /\ u.waiting = p.waiting  BY <2>4 DEF OnlyEntry
  <2>7. /\ Range(u.active) = (Range(s.active) \ {x}) \cup {h}
        /\ Range(u.waiting) = Range(s.waiting) \ {h} /\ h \in Range(s.waiting)
    BY <1>1, <2>2, <2>6
  <2>8. Freed(s, u, x)  BY <2>7 DEF Freed
  <2> QED  BY <2>1, <2>5, <2>8 DEF t
<1> QED  BY <1>3, <1>4

LEMMA TakenFromWaitingFacts ==
    ASSUME NEW s, Good(s), NEW x \in Supp, x \notin Range(s.active)
    PROVE  LET t == TakenFromWaiting(s, x)
           IN  /\ GoodBut(t, {x}) /\ t.active = s.active
               /\ Range(t.waiting) = Range(s.waiting) \ {x}
               /\ t.ent[x].kmps = s.ent[x].kmps
<1> DEFINE w == Without(s.waiting, x)
           e == [s.ent[x] EXCEPT !.wait = 0]
           f == [s.ent EXCEPT ![x] = e]
           t == TakenFromWaiting(s, x)
<1>1. s \in Handling /\ Lists(s) /\ Entries(s, {})  BY DEF Good, GoodBut
<1>2. CASE x \notin Range(s.waiting)
  <2>1. t = s  BY <1>2 DEF TakenFromWaiting
  <2>2. Entries(s, {x})  BY <1>1 DEF Entries
  <2> HIDE DEF t
  <2> QED  BY <1>1, <1>2, <2>1, <2>2 DEF GoodBut, t
<1>3. CASE x \in Range(s.waiting)
  <2>2. /\ w \in Seq(Supp) /\ IsInjective(w) /\ Range(w) = Range(s.waiting) \ {x}
        /\ Len(w) = Len(s.waiting) - 1
    BY <1>1, <1>3, WithoutFacts, HandlingFields DEF Lists
  <2>3. /\ f \in [Supp -> FiniteEntry] /\ \A y \in Supp \ {x} : f[y] = s.ent[y]
        /\ Single(s.ent[x]) => Single(f[x])
        /\ f[x].kmps = s.ent[x].kmps
    <3>1. 0 \in 0..RetryTicks  BY Assumed
    <3> QED  BY <1>1, <3>1, WaitEntry
  <2>4. t = [s EXCEPT !.waiting = w, !.size = s.size - 1, !.ent = f]
    BY <1>1, <1>3 DEF TakenFromWaiting, Handling
  <2> HIDE DEF w, e, f, t
  <2>5. t.active = s.active /\ t.waiting = w /\ t.size = s.size - 1 /\ t.ent = f
    BY <1>1, <2>4 DEF Handling
  <2>6. t \in Handling
    <3>1. s.size - 1 \in Int  BY <1>1, HandlingFields
    <3> QED  BY <1>1, <2>2, <2>3, <2>4, <3>1 DEF Handling
  <2>7. Lists(t)
    <3>1. s.size = Len(s.waiting) /\ s.size <= WaitMax /\ Len(s.waiting) \in Nat /\ WaitMax \in Nat
      BY <1>1, Assumed, HandlingFields DEF Lists
    <3>2. t.size = Len(t.waiting) /\ t.size <= WaitMax  BY <2>2, <2>5, <3>1
    <3> QED  BY <1>1, <2>2, <2>5, <3>2 DEF Lists
  <2>8. Entries(t, {x})
    <3>1. \A y \in Supp \ {x} : y \in Listed(s) => y \in Listed(t)  BY <2>2, <2>5 DEF Listed
    <3> QED  BY <1>1, <2>3, <2>5, <3>1 DEF Entries
  <2> QED  BY <2>2, <2>3, <2>5, <2>6, <2>7, <2>8 DEF GoodBut, t
<1> QED  BY <1>2, <1>3

\* ws_pae_auth_waiting_supp_list_add(): at most one is given up, and only when
\* the list is full.
LEMMA WaitingAddFacts ==
    ASSUME NEW s, NEW x \in Supp, GoodBut(s, {x}), x \notin Listed(s)
    PROVE  LET t == WaitingAdd(s, x)
           IN  /\ Good(t) /\ t.active = s.active /\ t.ent[x].kmps = s.ent[x].kmps
               /\ \E given \in SUBSET Range(s.waiting) :
                     /\ Cardinality(given) = IF s.size < WaitMax THEN 0 ELSE 1
                     /\ Range(t.waiting) = (Range(s.waiting) \ given) \cup {x}
<1> DEFINE v == Victim(s)
           full == s.size >= WaitMax
           r == RemoveWaiting(s, v)
           s1 == IF full THEN r ELSE s
           given == IF full THEN {v} ELSE {}
           t == WaitingAdd(s, x)
<1>1. s \in Handling /\ Lists(s) /\ Entries(s, {x})  BY DEF GoodBut
<1>2. /\ s.size = Len(s.waiting) /\ s.size <= WaitMax /\ s.size \in Nat /\ WaitMax \in Nat
      /\ WaitMax >= 2
  BY <1>1, Assumed, HandlingFields DEF Lists
<1>3. full => v \in Range(s.waiting) /\ v # x
  <2> SUFFICES ASSUME full PROVE v \in Range(s.waiting) /\ v # x  OBVIOUS
  <2>1. s.waiting # <<>> /\ s.waiting \in Seq(Supp)
    <3>1. s.waiting \in Seq(Supp)  BY <1>1, HandlingFields
    <3>2. Len(s.waiting) # 0  BY <1>2
    <3> QED  BY <3>1, <3>2
  <2>2. v \in Range(s.waiting)  BY <2>1, LastFacts DEF Victim
  <2> QED  BY <2>2 DEF Listed
<1> HIDE DEF v
<1>4. /\ GoodBut(s1, {x}) /\ s1.active = s.active /\ s1.size < WaitMax
      /\ Range(s1.waiting) = Range(s.waiting) \ given
      /\ s1.ent[x] = s.ent[x]
  <2>1. CASE full
    <3>1. /\ GoodBut(r, {x}) /\ r.active = s.active
          /\ Range(r.waiting) = Range(s.waiting) \ {v} /\ r.size = s.size - 1
          /\ \A y \in Supp \ {v} : r.ent[y] = s.ent[y]
      <4>1. v \in Range(s.waiting) /\ v \notin {x}  BY <1>3, <2>1
      <4> QED  BY <4>1, RemoveWaitingFacts
    <3>2. s1 = r /\ given = {v}  BY <2>1
    <3> HIDE DEF r, s1, given
    <3>3. s1.size < WaitMax  BY <1>2, <3>1, <3>2
    <3>4. s1.ent[x] = s.ent[x]  BY <1>3, <2>1, <3>1, <3>2
    <3> QED  BY <3>1, <3>2, <3>3, <3>4
  <2>2. CASE ~full
    <3>1. s1 = s /\ given = {} /\ s.size < WaitMax  BY <1>2, <2>2
    <3> HIDE DEF s1, given
    <3> QED  BY <3>1
  <2> QED  BY <2>1, <2>2
<1>5. given \in SUBSET Range(s.waiting) /\ Cardinality(given) = IF s.size < WaitMax THEN 0 ELSE 1
  <2>1. Cardinality({}) = 0 /\ Cardinality({v}) = 1  BY FS_EmptySet, FS_Singleton
  <2> QED  BY <1>2, <1>3, <2>1
<1> DEFINE w == <<x>> \o s1.waiting
           e == [s1.ent[x] EXCEPT !.wait = RetryTicks]
           f == [s1.ent EXCEPT ![x] = e]
<1>6. t = [s1 EXCEPT !.waiting = <<x>> \o @, !.size = @ + 1, !.ent[x].wait = RetryTicks]
  BY DEF WaitingAdd, v
<1> HIDE DEF s1, given, t
<1>7. s1 \in Handling /\ Lists(s1) /\ Entries(s1, {x})  BY <1>4 DEF GoodBut
<1>8. x \notin Range(s1.waiting) /\ x \notin Range(s1.active)  BY <1>4 DEF Listed
<1>9. /\ w \in Seq(Supp) /\ IsInjective(w) /\ Range(w) = Range(s1.waiting) \cup {x}
      /\ Len(w) = Len(s1.waiting) + 1
  BY <1>7, <1>8, ConsFacts, HandlingFields DEF Lists
<1>10. /\ f \in [Supp -> FiniteEntry] /\ \A y \in Supp \ {x} : f[y] = s1.ent[y]
       /\ Single(s1.ent[x]) => Single(f[x])
       /\ f[x].kmps = s1.ent[x].kmps
  <2>1. RetryTicks \in 0..RetryTicks  BY Assumed
  <2> QED  BY <1>7, <2>1, WaitEntry
<1>11. t = [s1 EXCEPT !.waiting = w, !.size = s1.size + 1, !.ent = f]
  BY <1>6, <1>7 DEF Handling
<1> HIDE DEF w, e, f
<1>12. t.active = s1.active /\ t.waiting = w /\ t.size = s1.size + 1 /\ t.ent = f
  BY <1>7, <1>11 DEF Handling
<1>13. t \in Handling
  <2>1. s1.size + 1 \in Int  BY <1>7, HandlingFields
  <2> QED  BY <1>7, <1>9, <1>10, <1>11, <2>1 DEF Handling
<1>14. Lists(t)
  <2>1. s1.size = Len(s1.waiting) /\ Len(s1.waiting) \in Nat
    BY <1>7, HandlingFields DEF Lists
  <2>2. t.size = Len(t.waiting) /\ t.size <= WaitMax  BY <1>2, <1>4, <1>9, <1>12, <2>1
  <2> QED  BY <1>7, <1>8, <1>9, <1>12, <2>2 DEF Lists
<1>15. Entries(t, {})
  <2>1. Listed(t) = Listed(s1) \cup {x}  BY <1>9, <1>12 DEF Listed
  <2> QED  BY <1>7, <1>10, <1>12, <2>1 DEF Entries
<1>16. Good(t) /\ t.active = s.active /\ t.ent[x].kmps = s.ent[x].kmps
  BY <1>4, <1>10, <1>12, <1>13, <1>14, <1>15 DEF Good, GoodBut
<1>17. Range(t.waiting) = (Range(s.waiting) \ given) \cup {x}  BY <1>4, <1>9, <1>12
<1> QED  BY <1>5, <1>16, <1>17 DEF t

\* What a message of x does to the lists: nothing, or x becomes active within
\* the limit, or x waits.
Admitted(s, t, x) ==
    /\ x \notin Range(s.active) /\ Len(s.active) < MaxActive
    /\ Range(t.active) = Range(s.active) \cup {x}
    /\ Range(t.waiting) = Range(s.waiting) \ {x}

Parked(s, t, x) ==
    LET others == Range(s.waiting) \ {x}
    IN  /\ x \notin Range(s.active) /\ Range(t.active) = Range(s.active)
        /\ \E given \in SUBSET others :
              /\ Cardinality(given) = IF Cardinality(others) < WaitMax THEN 0 ELSE 1
              /\ Range(t.waiting) = (others \ given) \cup {x}

SameLists(s, t) == Range(t.active) = Range(s.active) /\ Range(t.waiting) = Range(s.waiting)

Received(s, t, x) == SameLists(s, t) \/ Admitted(s, t, x) \/ Parked(s, t, x)

LEMMA PlacedFacts ==
    ASSUME NEW s, Good(s), NEW x \in Supp, NEW chance \in BOOLEAN
    PROVE  LET t == Placed(s, x, chance)
           IN  /\ Good(t) /\ x \in Listed(t) /\ t.ent[x].kmps = s.ent[x].kmps
               /\ Received(s, t, x)
<1> DEFINE s1 == TakenFromWaiting(s, x)
           full == LimitReached(Len(s.active), chance)
           on == [s1 EXCEPT !.active = <<x>> \o @]
           s2 == IF x \in Range(s.active) THEN s
                 ELSE IF full THEN WaitingAdd(s1, x)
                 ELSE on
           t == [s2 EXCEPT !.ent[x].ticks = AuthTicks]
<1>1. s \in Handling /\ Lists(s) /\ Entries(s, {})  BY DEF Good, GoodBut
<1>2. Placed(s, x, chance) = t  BY DEF Placed
<1>3. Good(s2) /\ x \in Listed(s2) /\ s2.ent[x].kmps = s.ent[x].kmps /\ Received(s, s2, x)
  <2>1. CASE x \in Range(s.active)
    <3>1. s2 = s  BY <2>1
    <3> HIDE DEF s2
    <3> QED  BY <2>1, <3>1 DEF Listed, Received, SameLists
  <2>2. CASE x \notin Range(s.active)
    <3>1. /\ GoodBut(s1, {x}) /\ s1.active = s.active
          /\ Range(s1.waiting) = Range(s.waiting) \ {x}
          /\ s1.ent[x].kmps = s.ent[x].kmps
      BY <2>2, TakenFromWaitingFacts
    <3> HIDE DEF s1
    <3>2. s1 \in Handling /\ Lists(s1) /\ Entries(s1, {x}) /\ x \notin Listed(s1)
      BY <2>2, <3>1 DEF GoodBut, Listed
    <3>3. CASE full
      <4> DEFINE u == WaitingAdd(s1, x)
      <4>1. s2 = u  BY <2>2, <3>3
      <4>2. /\ Good(u) /\ u.active = s1.active /\ u.ent[x].kmps = s1.ent[x].kmps
            /\ \E given \in SUBSET Range(s1.waiting) :
                  /\ Cardinality(given) = IF s1.size < WaitMax THEN 0 ELSE 1
                  /\ Range(u.waiting) = (Range(s1.waiting) \ given) \cup {x}
        BY <3>1, <3>2, WaitingAddFacts
      <4> HIDE DEF u, s2
      <4>3. s1.size = Cardinality(Range(s1.waiting))
        BY <3>2, InjectiveLen, HandlingFields DEF Lists
      <4>4. x \in Listed(u)  BY <4>2 DEF Listed
      <4>5. Parked(s, u, x)
        <5> DEFINE others == Range(s.waiting) \ {x}
        <5>1. \E given \in SUBSET others :
                  /\ Cardinality(given) = IF Cardinality(others) < WaitMax THEN 0 ELSE 1
                  /\ Range(u.waiting) = (others \ given) \cup {x}
          BY <3>1, <4>2, <4>3
        <5>2. Range(u.active) = Range(s.active)  BY <3>1, <4>2
        <5> QED  BY <2>2, <5>1, <5>2 DEF Parked
      <4> QED  BY <3>1, <4>1, <4>2, <4>4, <4>5 DEF Received
    <3>4. CASE ~full
      <4> DEFINE a == <<x>> \o s1.active
      <4>1. s2 = [s1 EXCEPT !.active = a]  BY <2>2, <3>4
      <4>2. a \in Seq(Supp) /\ IsInjective(a) /\ Range(a) = Range(s1.active) \cup {x}
        BY <3>2, ConsFacts, HandlingFields DEF Lists, Listed
      <4> HIDE DEF a, s2
      <4>3. /\ s2 \in Handling /\ s2.active = a /\ s2.waiting = s1.waiting /\ s2.size = s1.size
            /\ s2.ent = s1.ent
        BY <3>2, <4>1, <4>2 DEF Handling
      <4>4. Lists(s2)  BY <3>2, <4>2, <4>3 DEF Lists, Listed
      <4>5. Entries(s2, {})
        <5>1. Listed(s2) = Listed(s1) \cup {x}  BY <4>2, <4>3 DEF Listed
        <5> QED  BY <3>2, <4>3, <5>1 DEF Entries
      <4>6. Len(s.active) < MaxActive
        BY <1>1, <3>4, Assumed, HandlingFields DEF LimitReached
      <4>7. Admitted(s, s2, x)  BY <2>2, <3>1, <4>2, <4>3, <4>6 DEF Admitted
      <4> QED  BY <3>1, <4>2, <4>3, <4>4, <4>5, <4>7 DEF Good, GoodBut, Listed, Received
    <3> QED  BY <3>3, <3>4
  <2> QED  BY <2>1, <2>2
<1> HIDE DEF s2
<1>4. s2 \in Handling /\ Single(s2.ent[x])  BY <1>3 DEF Good, GoodBut, Entries
<1>5. /\ t \in Handling /\ OnlyEntry(s2, t, x) /\ t.ent[x].kmps = s2.ent[x].kmps
      /\ Single(s2.ent[x]) => Single(t.ent[x])
  BY <1>4, SetTicks, Assumed
<1> HIDE DEF t
<1>6. Good(t) /\ Listed(t) = Listed(s2)  BY <1>3, <1>4, <1>5, OnlyEntryGood
<1>7. Received(s, t, x)
  <2>1. t.active = s2.active /\ t.waiting = s2.waiting  BY <1>5 DEF OnlyEntry
  <2> QED  BY <1>3, <2>1 DEF Received, SameLists, Admitted, Parked
<1> QED  BY <1>2, <1>3, <1>5, <1>6, <1>7 DEF t

-----------------------------------------------------------------------------
(***************************************************************************)
(* Instances that end, are started or get older.                            *)
(***************************************************************************)
LEMMA FiniteImage ==
    ASSUME NEW S, IsFiniteSet(S), NEW f, DOMAIN f = S
    PROVE  IsFiniteSet({f[k] : k \in S})
<1> DEFINE T == {f[k] : k \in S}
           g == [k \in S |-> f[k]]
<1>1. g \in Surjection(S, T)  BY DEF Surjection
<1> HIDE DEF g, T
<1>2. IsFiniteSet(T)  BY <1>1, FS_Surjection
<1> QED  BY <1>2 DEF T

LEMMA KmpFields ==
    ASSUME NEW k \in Kmp
    PROVE  /\ Ended(k) \in Kmp /\ Ended(k).type = k.type
           /\ [k EXCEPT !.st = "run"] \in Kmp /\ [k EXCEPT !.st = "run"].type = k.type
           /\ k.left > 1 => [k EXCEPT !.left = @ - 1] \in Kmp /\ [k EXCEPT !.left = @ - 1].type = k.type
           /\ k.left \in Nat
<1>1. EndTicks \in Nat \ {0}  BY Assumed
<1>2. Ended(k) \in Kmp /\ Ended(k).type = k.type  BY <1>1 DEF Ended, Kmp
<1>3. [k EXCEPT !.st = "run"] \in Kmp /\ [k EXCEPT !.st = "run"].type = k.type  BY DEF Kmp
<1>4. k.left \in Nat  BY DEF Kmp
<1>5. ASSUME k.left > 1
      PROVE  [k EXCEPT !.left = @ - 1] \in Kmp /\ [k EXCEPT !.left = @ - 1].type = k.type
  <2> DEFINE n == k.left - 1
  <2>1. n \in Nat \ {0}  BY <1>4, <1>5
  <2> HIDE DEF n
  <2>2. [k EXCEPT !.left = n] \in Kmp /\ [k EXCEPT !.left = n].type = k.type  BY <2>1 DEF Kmp
  <2> QED  BY <2>2 DEF n
<1> QED  BY <1>2, <1>3, <1>4, <1>5

\* Some of the instances are replaced by others of their type.
OnePer(ks) == \A j, k \in ks : j.type = k.type /\ j.type \in Once => j = k

LEMMA ReplacedKmps ==
    ASSUME NEW old \in SUBSET Kmp, IsFiniteSet(old), NEW ks \in SUBSET old,
           NEW f \in [ks -> Kmp], \A k \in ks : f[k].type = k.type
    PROVE  LET new == (old \ ks) \cup {f[k] : k \in ks}
           IN  new \in SUBSET Kmp /\ IsFiniteSet(new) /\ (OnePer(old) => OnePer(new))
<1> DEFINE im == {f[k] : k \in ks}
           new == (old \ ks) \cup im
<1>2. IsFiniteSet(ks) /\ DOMAIN f = ks  BY FS_Subset
<1>3. IsFiniteSet(im)  BY <1>2, FiniteImage
<1>4. im \subseteq Kmp  OBVIOUS
<1>6. \A c \in new : \E d \in old : /\ d.type = c.type
                                    /\ d \in ks => c = f[d]
                                    /\ d \notin ks => c = d
  OBVIOUS
<1> HIDE DEF im
<1>5. new \in SUBSET Kmp /\ IsFiniteSet(new)
  <2>1. IsFiniteSet(old \ ks)  BY FS_Difference
  <2> QED  BY <1>3, <1>4, <2>1, FS_Union
<1> HIDE DEF new
<1>7. ASSUME OnePer(old), NEW a \in new, NEW b \in new, a.type = b.type, a.type \in Once PROVE a = b
  <2>2. PICK a0 \in old : a0.type = a.type /\ (a0 \in ks => a = f[a0]) /\ (a0 \notin ks => a = a0)
    BY <1>6
  <2>3. PICK b0 \in old : b0.type = b.type /\ (b0 \in ks => b = f[b0]) /\ (b0 \notin ks => b = b0)
    BY <1>6
  <2>4. a0 = b0  BY <1>7, <2>2, <2>3 DEF OnePer
  <2> QED  BY <2>2, <2>3, <2>4
<1>8. OnePer(old) => OnePer(new)  BY <1>7 DEF OnePer
<1> QED  BY <1>5, <1>8 DEF new, im

LEMMA ReplacedGood ==
    ASSUME NEW s, Good(s), NEW x \in Listed(s), NEW ks \in SUBSET Kmp, IsFiniteSet(ks),
           OnePer(s.ent[x].kmps) => OnePer(ks)
    PROVE  LET t == [s EXCEPT !.ent[x].kmps = ks]
           IN  /\ Good(t) /\ Listed(t) = Listed(s) /\ t.active = s.active /\ t.waiting = s.waiting
               /\ Single(t.ent[x])
<1> DEFINE t == [s EXCEPT !.ent[x].kmps = ks]
<1>1. s \in Handling /\ x \in Supp /\ Single(s.ent[x])
  <2>1. s \in Handling /\ Entries(s, {})  BY DEF Good, GoodBut
  <2>2. x \in Supp  BY <2>1, HandlingFields DEF Listed
  <2> QED  BY <2>1, <2>2 DEF Entries
<1>2. t \in Handling /\ OnlyEntry(s, t, x) /\ t.ent[x].kmps = ks  BY <1>1, SetKmps
<1> HIDE DEF t
<1>3. Single(t.ent[x])  BY <1>1, <1>2 DEF Single, OnePer
<1>4. Good(t) /\ Listed(t) = Listed(s)  BY <1>2, <1>3, OnlyEntryGood
<1> QED  BY <1>2, <1>3, <1>4 DEF OnlyEntry, t

LEMMA FinishedFacts ==
    ASSUME NEW s, Good(s), NEW x \in Listed(s), NEW ks \in SUBSET s.ent[x].kmps
    PROVE  LET t == Finished(s, x, ks)
           IN  Good(t) /\ t.active = s.active /\ t.waiting = s.waiting
<1> DEFINE f == [k \in ks |-> Ended(k)]
           old == s.ent[x].kmps
           new == (old \ ks) \cup {f[k] : k \in ks}
           s1 == [s EXCEPT !.ent[x].kmps = new]
           t == Finished(s, x, ks)
<1>1. s \in Handling /\ x \in Supp
  <2>1. s \in Handling  BY DEF Good, GoodBut
  <2> QED  BY <2>1, HandlingFields DEF Listed
<1>2. old \in SUBSET Kmp /\ IsFiniteSet(old)
  <2>1. s.ent[x] \in FiniteEntry  BY <1>1, HandlingFields
  <2> QED  BY <2>1, EntryFields
<1>3. f \in [ks -> Kmp] /\ \A k \in ks : f[k].type = k.type
  <2>1. \A k \in ks : Ended(k) \in Kmp /\ Ended(k).type = k.type  BY <1>2, KmpFields
  <2> QED  BY <2>1
<1>4. {Ended(k) : k \in ks} = {f[k] : k \in ks}  OBVIOUS
<1>5. t = IF x \in Range(s.active) THEN Trigger(s1, x) ELSE s1
  BY <1>4 DEF Finished
<1>6. ks \in SUBSET old  OBVIOUS
<1> HIDE DEF f, old, t
<1>7. new \in SUBSET Kmp /\ IsFiniteSet(new) /\ (OnePer(old) => OnePer(new))
  BY <1>2, <1>3, <1>6, ReplacedKmps
<1> HIDE DEF new
<1>8. /\ Good(s1) /\ Listed(s1) = Listed(s) /\ s1.active = s.active /\ s1.waiting = s.waiting
      /\ Single(s1.ent[x])
  BY <1>7, ReplacedGood DEF old
<1> HIDE DEF s1
<1>9. CASE x \in Range(s.active)
  <2> DEFINE v == Trigger(s1, x)
  <2>1. t = v  BY <1>5, <1>9
  <2>2. v \in Handling /\ OnlyEntry(s1, v, x) /\ Single(v.ent[x])
    <3>1. s1 \in Handling  BY <1>8 DEF Good, GoodBut
    <3> QED  BY <1>1, <1>8, <3>1, TriggerFacts
  <2> HIDE DEF v
  <2>3. Good(v)  BY <1>8, <2>2, OnlyEntryGood
  <2> QED  BY <1>8, <2>1, <2>2, <2>3 DEF OnlyEntry, t
<1>10. CASE x \notin Range(s.active)
  <2>1. t = s1  BY <1>5, <1>10
  <2> QED  BY <1>8, <2>1 DEF t
<1> QED  BY <1>9, <1>10

LEMMA DispatchedFacts ==
    ASSUME NEW s, Good(s), NEW x \in Supp, NEW k \in s.ent[x].kmps
    PROVE  LET t == Dispatched(s, x, k)
           IN  Good(t) /\ t.active = s.active /\ t.waiting = s.waiting
<1> DEFINE t == Dispatched(s, x, k)
<1>1. x \in Listed(s) /\ s \in Handling
  BY DEF Good, GoodBut, Entries, NoEntry
<1>2. CASE k.type = "KEY"
  <2>1. t = Finished(s, x, {k}) /\ {k} \in SUBSET s.ent[x].kmps  BY <1>2 DEF Dispatched
  <2> DEFINE u == Finished(s, x, {k})
  <2>2. Good(u) /\ u.active = s.active /\ u.waiting = s.waiting  BY <1>1, <2>1, FinishedFacts
  <2> HIDE DEF u, t
  <2> QED  BY <2>1, <2>2 DEF t, u
<1>3. CASE k.type # "KEY"
  <2> DEFINE r == [k EXCEPT !.st = "run"]
             ks == {k}
             old == s.ent[x].kmps
             f == [j \in ks |-> r]
             new == (old \ ks) \cup {f[j] : j \in ks}
             u == [s EXCEPT !.ent[x].kmps = new]
  <2>1. old \in SUBSET Kmp /\ IsFiniteSet(old) /\ ks \in SUBSET old
    <3>1. s.ent[x] \in FiniteEntry  BY <1>1, HandlingFields
    <3> QED  BY <3>1, EntryFields
  <2>2. r \in Kmp /\ r.type = k.type  BY <2>1, KmpFields
  <2>3. {f[j] : j \in ks} = {r}  OBVIOUS
  <2>4. t = u  BY <1>3, <2>3 DEF Dispatched
  <2> HIDE DEF r, t
  <2>5. f \in [ks -> Kmp] /\ \A j \in ks : f[j].type = j.type
    BY <2>2
  <2> HIDE DEF f, ks, old
  <2>6. new \in SUBSET Kmp /\ IsFiniteSet(new) /\ (OnePer(old) => OnePer(new))
    BY <2>1, <2>5, ReplacedKmps
  <2> HIDE DEF new
  <2>7. Good(u) /\ u.active = s.active /\ u.waiting = s.waiting
    BY <1>1, <2>6, ReplacedGood DEF old
  <2> HIDE DEF u
  <2> QED  BY <2>4, <2>7 DEF t
<1> QED  BY <1>2, <1>3

\* kmp_timer: no instance gets another type, and none two.
LEMMA KmpTickFacts ==
    ASSUME NEW e \in FiniteEntry
    PROVE  LET ks == KmpTick(e.kmps)
           IN  /\ ks \in SUBSET Kmp /\ IsFiniteSet(ks)
               /\ Single(e) => \A a, b \in ks : a.type = b.type /\ a.type \in Once => a = b
<1> DEFINE old == e.kmps
           on(k) == [k EXCEPT !.left = @ - 1]
           f == [k \in old |-> IF k.st = "posted" THEN k ELSE IF k.left > 1 THEN on(k) ELSE Ended(k)]
           ks == KmpTick(old)
           im == {f[k] : k \in old}
<1>1. old \subseteq Kmp /\ IsFiniteSet(old)  BY EntryFields
<1>2. ks = {k \in old : k.st = "posted"}
           \cup {on(k) : k \in {k \in old : k.st # "posted" /\ k.left > 1}}
           \cup {Ended(k) : k \in {k \in old : k.st = "run" /\ k.left = 1}}
  BY DEF KmpTick
<1> HIDE DEF old
<1>3. ks \subseteq im
  <2> SUFFICES ASSUME NEW c \in ks PROVE c \in im  OBVIOUS
  <2> HIDE DEF ks, on
  <2>1. CASE c \in {k \in old : k.st = "posted"}  BY <2>1
  <2>2. CASE c \in {on(k) : k \in {k \in old : k.st # "posted" /\ k.left > 1}}  BY <2>2
  <2>3. CASE c \in {Ended(k) : k \in {k \in old : k.st = "run" /\ k.left = 1}}
    <3>1. PICK k \in old : k.st = "run" /\ k.left = 1 /\ c = Ended(k)  BY <2>3
    <3>2. f[k] = c  BY <3>1
    <3> QED  BY <3>2
  <2> QED  BY <1>2, <2>1, <2>2, <2>3
<1>4. \A k \in old : f[k] \in Kmp /\ f[k].type = k.type
  <2> SUFFICES ASSUME NEW k \in old PROVE f[k] \in Kmp /\ f[k].type = k.type  OBVIOUS
  <2>1. k \in Kmp  BY <1>1
  <2>2. /\ Ended(k) \in Kmp /\ Ended(k).type = k.type
        /\ k.left > 1 => on(k) \in Kmp /\ on(k).type = k.type
    BY <2>1, KmpFields
  <2> HIDE DEF on
  <2> QED  BY <2>1, <2>2
<1>5. DOMAIN f = old  OBVIOUS
<1> HIDE DEF f, ks
<1>6. IsFiniteSet(im)  BY <1>1, <1>5, FiniteImage
<1>7. IsFiniteSet(ks)  BY <1>3, <1>6, FS_Subset
<1>8. ks \in SUBSET Kmp  BY <1>3, <1>4
<1>9. ASSUME Single(e), NEW a \in ks, NEW b \in ks, a.type = b.type, a.type \in Once PROVE a = b
  <2>1. PICK a0 \in old : a = f[a0]  BY <1>3
  <2>2. PICK b0 \in old : b = f[b0]  BY <1>3
  <2>3. a0.type = a.type /\ b0.type = b.type  BY <1>4, <2>1, <2>2
  <2>4. a0 = b0  BY <1>9, <2>3 DEF Single, old
  <2> QED  BY <2>1, <2>2, <2>4
<1> QED  BY <1>7, <1>8, <1>9 DEF ks, old

LEMMA EntryTickFacts ==
    ASSUME NEW e \in FiniteEntry
    PROVE  EntryTick(e) \in FiniteEntry /\ (Single(e) => Single(EntryTick(e)))
<1> DEFINE ks == KmpTick(e.kmps)
           n == IF e.kmps = {} THEN Less(e.ticks) ELSE e.ticks
           w == Less(e.wait)
           r == [e EXCEPT !.kmps = ks, !.ticks = n, !.wait = w]
<1>1. /\ ks \in SUBSET Kmp /\ IsFiniteSet(ks)
      /\ Single(e) => \A a, b \in ks : a.type = b.type /\ a.type \in Once => a = b
  BY KmpTickFacts
<1>2. n \in Nat /\ w \in 0..RetryTicks  BY EntryFields, Assumed DEF Less
<1>3. EntryTick(e) = r  BY DEF EntryTick, FiniteEntry, Entry
<1> HIDE DEF ks, n, w
<1>4. r \in FiniteEntry  BY <1>1, <1>2 DEF FiniteEntry, Entry
<1>5. r.kmps = ks  BY DEF FiniteEntry, Entry
<1> HIDE DEF r
<1>6. Single(e) => Single(r)  BY <1>1, <1>5 DEF Single
<1> QED  BY <1>3, <1>4, <1>6

-----------------------------------------------------------------------------
(***************************************************************************)
(* Events.  The KEY instance that an event is for stays until the event is  *)
(* dispatched, if its supplicant is active or the newest that waits, and no *)
(* call posts an event for a KEY instance but InitialKey.                   *)
(***************************************************************************)
IsPostedKey(k) == k.type = "KEY" /\ k.st = "posted"

Safe(s, x) == x \in Range(s.active) \/ (s.waiting # <<>> /\ Head(s.waiting) = x)

Distinct(s) ==
    \A i, j \in 1..Len(s.events) : s.events[i].id = s.events[j].id => i = j

\* What a call leaves of the posted KEY instances of x.
Kept(s, t, x) == \A k \in s.ent[x].kmps : IsPostedKey(k) => k \in t.ent[x].kmps

\* What a call may post.
Posts(s, t) ==
    /\ Distinct(s) => Distinct(t)
    /\ \A v \in Range(t.events) : v.type = "KEY" => v \in Range(s.events)

Held(s, t) ==
    /\ \A y \in Supp : \A k \in s.ent[y].kmps :
          IsPostedKey(k) /\ Safe(s, y) => k \in t.ent[y].kmps /\ Safe(t, y)
    /\ Posts(s, t)

LEMMA HeldTrans ==
    ASSUME NEW s, NEW t, NEW u, Held(s, t), Held(t, u)
    PROVE  Held(s, u)
BY DEF Held, Posts

LEMMA PostsTrans ==
    ASSUME NEW s, NEW t, NEW u, Posts(s, t), Posts(t, u)
    PROVE  Posts(s, u)
BY DEF Posts

LEMMA SamePosts ==
    ASSUME NEW s, NEW t, t.events = s.events
    PROVE  Posts(s, t)
BY DEF Posts, Distinct

LEMMA KeptTrans ==
    ASSUME NEW s, NEW t, NEW u, NEW x, Kept(s, t, x), Kept(t, u, x)
    PROVE  Kept(s, u, x)
BY DEF Kept

LEMMA OnlyEntryHeld ==
    ASSUME NEW s, NEW t, NEW x, OnlyEntry(s, t, x), Kept(s, t, x), Posts(s, t)
    PROVE  Held(s, t)
<1>1. \A y \in Supp : Kept(s, t, y)  BY DEF OnlyEntry, Kept
<1>2. \A y \in Supp : Safe(s, y) => Safe(t, y)  BY DEF OnlyEntry, Safe
<1> QED  BY <1>1, <1>2 DEF Held, Kept

\* An event with a new name.
LEMMA AppendPosts ==
    ASSUME NEW q \in Seq(Event), NEW v \in Event, \A w \in Range(q) : w.id # v.id,
           \A i, j \in 1..Len(q) : q[i].id = q[j].id => i = j
    PROVE  LET r == Append(q, v)
           IN  \A i, j \in 1..Len(r) : r[i].id = r[j].id => i = j
<1> DEFINE r == Append(q, v)
<1>1. Len(r) = Len(q) + 1 /\ Len(q) \in Nat /\ r[Len(q) + 1] = v  OBVIOUS
<1>2. \A i \in 1..Len(q) : r[i] = q[i] /\ q[i] \in Range(q)  BY RangeFacts
<1> HIDE DEF r
<1>3. ASSUME NEW i \in 1..Len(r), NEW j \in 1..Len(r), r[i].id = r[j].id PROVE i = j
  <2>1. CASE i = Len(q) + 1 /\ j = Len(q) + 1  BY <2>1
  <2>2. CASE i \in 1..Len(q) /\ j \in 1..Len(q)  BY <1>2, <1>3, <2>2
  <2>3. CASE i = Len(q) + 1 /\ j \in 1..Len(q)  BY <1>1, <1>2, <1>3, <2>3
  <2>4. CASE j = Len(q) + 1 /\ i \in 1..Len(q)  BY <1>1, <1>2, <1>3, <2>4
  <2> QED  BY <1>1, <2>1, <2>2, <2>3, <2>4
<1> QED  BY <1>3 DEF r

LEMMA AppendRange ==
    ASSUME NEW S, NEW q \in Seq(S), NEW v \in S
    PROVE  Range(Append(q, v)) = Range(q) \cup {v}
<1> DEFINE r == Append(q, v)
<1>1. /\ Len(r) = Len(q) + 1 /\ Len(q) \in Nat /\ r[Len(q) + 1] = v /\ DOMAIN r = 1..(Len(q) + 1)
      /\ DOMAIN q = 1..Len(q)
  OBVIOUS
<1>2. \A i \in 1..Len(q) : r[i] = q[i]  OBVIOUS
<1> HIDE DEF r
<1>3. \A i \in 1..(Len(q) + 1) : i \in 1..Len(q) \/ i = Len(q) + 1  BY <1>1
<1>4. \A i \in 1..Len(q) : i \in 1..(Len(q) + 1)  BY <1>1
<1>5. Len(q) + 1 \in 1..(Len(q) + 1)  BY <1>1
<1>6. \A y \in Range(r) : y \in Range(q) \cup {v}  BY <1>1, <1>2, <1>3 DEF Range
<1>7. \A y \in Range(q) : y \in Range(r)
  <2> SUFFICES ASSUME NEW y \in Range(q) PROVE y \in Range(r)  OBVIOUS
  <2>1. PICK i \in 1..Len(q) : y = q[i]  BY <1>1 DEF Range
  <2>2. r[i] = y /\ i \in DOMAIN r  BY <1>1, <1>2, <1>4, <2>1
  <2> QED  BY <2>2 DEF Range
<1>8. v \in Range(r)  BY <1>1, <1>5 DEF Range
<1>9. Range(r) = Range(q) \cup {v}  BY <1>6, <1>7, <1>8
<1> QED  BY <1>9 DEF r

LEMMA CreateKept ==
    ASSUME NEW s \in Handling, NEW x \in Supp, NEW type \in Types,
           NEW st \in {"posted", "run", "end"}
    PROVE  LET t == Create(s, x, type, st)
               k == [id |-> NewId(s), type |-> type, st |-> st, left |-> KmpTicks]
           IN  Kept(s, t, x) /\ t.events = s.events /\ k \in t.ent[x].kmps
<1> DEFINE t == Create(s, x, type, st)
           k == [id |-> NewId(s), type |-> type, st |-> st, left |-> KmpTicks]
<1>1. t.ent[x].kmps = s.ent[x].kmps \cup {k} /\ t.events = s.events
  <2>1. s.ent[x] \in FiniteEntry  BY HandlingFields
  <2> HIDE DEF k
  <2> QED  BY <2>1 DEF Create, Handling, FiniteEntry, Entry, k
<1> HIDE DEF t, k
<1> QED  BY <1>1 DEF Kept, t, k

\* The event of a new instance is distinct from the others.
LEMMA CreateAndPostKept ==
    ASSUME NEW s \in Handling, NEW x \in Supp, NEW type \in Types
    PROVE  LET t == CreateAndPost(s, x, type)
               v == [id |-> NewId(s), type |-> type]
           IN  /\ Kept(s, t, x) /\ (Distinct(s) => Distinct(t))
               /\ Range(t.events) = Range(s.events) \cup {v}
               /\ \E k \in t.ent[x].kmps : k.id = v.id /\ k.type = type /\ k.st = "posted"
<1> DEFINE c == Create(s, x, type, "posted")
           v == [id |-> NewId(s), type |-> type]
           k == [id |-> NewId(s), type |-> type, st |-> "posted", left |-> KmpTicks]
           t == CreateAndPost(s, x, type)
<1>1. /\ Kept(s, c, x) /\ c.events = s.events /\ k \in c.ent[x].kmps /\ c \in Handling
  <2> DEFINE st == "posted"
             d == Create(s, x, type, st)
             j == [id |-> NewId(s), type |-> type, st |-> st, left |-> KmpTicks]
  <2>1. st \in {"posted", "run", "end"}  OBVIOUS
  <2> HIDE DEF st
  <2>2. Kept(s, d, x) /\ d.events = s.events /\ j \in d.ent[x].kmps  BY <2>1, CreateKept
  <2>3. d \in Handling  BY <2>1, CreateFacts
  <2> QED  BY <2>2, <2>3 DEF st
<1>2. v \in Event /\ \A w \in Range(s.events) : w.id # v.id  BY NewIdType DEF Event
<1>3. t = [c EXCEPT !.events = Append(@, v)]  BY DEF CreateAndPost, Post
<1>4. k.id = v.id /\ k.type = type /\ k.st = "posted"  OBVIOUS
<1> HIDE DEF c, v, k, t
<1>5. t.ent = c.ent /\ t.events = Append(s.events, v)  BY <1>1, <1>3 DEF Handling
<1>6. s.events \in Seq(Event)  BY HandlingFields
<1>7. Range(t.events) = Range(s.events) \cup {v}  BY <1>2, <1>5, <1>6, AppendRange
<1>8. Distinct(s) => Distinct(t)
  <2> SUFFICES ASSUME Distinct(s) PROVE Distinct(t)  OBVIOUS
  <2> DEFINE q == s.events
             r == Append(q, v)
  <2>1. \A i, j \in 1..Len(q) : q[i].id = q[j].id => i = j  BY DEF Distinct
  <2>2. q \in Seq(Event) /\ \A w \in Range(q) : w.id # v.id  BY <1>2, <1>6
  <2> HIDE DEF q
  <2>3. \A i, j \in 1..Len(r) : r[i].id = r[j].id => i = j  BY <1>2, <2>1, <2>2, AppendPosts
  <2>4. t.events = r  BY <1>5 DEF q
  <2> HIDE DEF r
  <2> QED  BY <2>3, <2>4 DEF Distinct
<1>9. Kept(s, t, x)  BY <1>1, <1>5 DEF Kept
<1> QED  BY <1>1, <1>4, <1>5, <1>7, <1>8, <1>9 DEF t, v

LEMMA SetKmpsKept ==
    ASSUME NEW s \in Handling, NEW x \in Supp, NEW ks \in SUBSET Kmp, IsFiniteSet(ks)
    PROVE  LET t == [s EXCEPT !.ent[x].kmps = ks]
           IN  t.events = s.events /\ t.ent[x].kmps = ks
BY SetKmps

LEMMA DeleteKept ==
    ASSUME NEW s \in Handling, NEW x \in Supp, NEW ks, \A k \in ks : k.type # "KEY"
    PROVE  LET t == Delete(s, x, ks)
           IN  Kept(s, t, x) /\ t.events = s.events
<1> DEFINE left == s.ent[x].kmps \ ks
           t == Delete(s, x, ks)
           u == [s EXCEPT !.ent[x].kmps = left]
<1>1. s.ent[x] \in FiniteEntry  BY HandlingFields
<1>2. left \in SUBSET Kmp /\ IsFiniteSet(left)  BY <1>1, EntryFields, FS_Difference
<1>3. t = u  BY DEF Delete
<1> HIDE DEF left, t
<1>4. u.events = s.events /\ u.ent[x].kmps = left  BY <1>2, SetKmpsKept
<1> HIDE DEF u
<1> QED  BY <1>3, <1>4 DEF Kept, IsPostedKey, left, t

LEMMA SetTicksKept ==
    ASSUME NEW s \in Handling, NEW x \in Supp, NEW n \in Nat
    PROVE  LET t == [s EXCEPT !.ent[x].ticks = n]
           IN  Kept(s, t, x) /\ t.events = s.events
<1> DEFINE t == [s EXCEPT !.ent[x].ticks = n]
<1>1. t.ent[x].kmps = s.ent[x].kmps  BY SetTicks
<1>2. t.events = s.events  BY DEF Handling
<1> HIDE DEF t
<1> QED  BY <1>1, <1>2 DEF Kept, t

\* The next protocol is never started by a KEY instance, and deletes none.
LEMMA TriggerKept ==
    ASSUME NEW s \in Handling, NEW x \in Supp
    PROVE  LET t == Trigger(s, x)
           IN  Kept(s, t, x) /\ Posts(s, t)
<1> DEFINE need == s.ent[x].need
           prev == Previous(s, x, need)
           s0 == [s EXCEPT !.ent[x].ticks = AuthTicks]
           s1 == Delete(s0, x, prev)
           t == Trigger(s, x)
<1>1. need \in Needs
  <2>1. s.ent[x] \in FiniteEntry  BY DEF Handling
  <2> QED  BY <2>1, EntryFields
<1>2. t = IF need = "none" THEN [s EXCEPT !.ent[x].ticks = AfterTicks]
          ELSE IF need # "MKA" THEN CreateAndPost(s1, x, need)
          ELSE IF OfType(s1, x, "TLS") # {} THEN [s1 EXCEPT !.running = TRUE]
          ELSE CreateAndPost(Create(s1, x, "TLS", "run"), x, "MKA")
  BY DEF Trigger
<1>3. s0 \in Handling /\ Kept(s, s0, x) /\ s0.events = s.events
  BY SetTicks, SetTicksKept, Assumed
<1>4. \A k \in prev : k.type # "KEY"  BY <1>1 DEF Previous, OfType, Needs
<1> HIDE DEF s0, prev
<1>5. s1 \in Handling /\ Kept(s, s1, x) /\ s1.events = s.events
  <2>1. s1 \in Handling  BY <1>3, DeleteFacts
  <2>2. Kept(s0, s1, x) /\ s1.events = s0.events  BY <1>3, <1>4, DeleteKept
  <2> HIDE DEF s1
  <2> QED  BY <1>3, <2>1, <2>2, KeptTrans
<1> HIDE DEF s1, need, t
<1>6. CASE need = "none"
  <2> DEFINE u == [s EXCEPT !.ent[x].ticks = AfterTicks]
  <2>1. t = u  BY <1>2, <1>6
  <2>2. Kept(s, u, x) /\ u.events = s.events  BY SetTicksKept, Assumed
  <2> HIDE DEF u
  <2>3. Posts(s, u)  BY <2>2, SamePosts
  <2> QED  BY <2>1, <2>2, <2>3 DEF t
<1>7. CASE need \notin {"none", "MKA"}
  <2> DEFINE u == CreateAndPost(s1, x, need)
             v == [id |-> NewId(s1), type |-> need]
  <2>1. t = u /\ need \in Types /\ need # "KEY"  BY <1>1, <1>2, <1>7 DEF Needs, Types
  <2>2. /\ Kept(s1, u, x) /\ (Distinct(s1) => Distinct(u))
        /\ Range(u.events) = Range(s1.events) \cup {v}
    BY <1>5, <2>1, CreateAndPostKept
  <2>3. v.type # "KEY"  BY <2>1
  <2> HIDE DEF u, v
  <2>4. Kept(s, u, x)  BY <1>5, <2>2, KeptTrans
  <2>5. Posts(s1, u)  BY <2>2, <2>3 DEF Posts
  <2>6. Posts(s, u)  BY <1>5, <2>5, SamePosts, PostsTrans
  <2> QED  BY <2>1, <2>4, <2>6 DEF t
<1>8. CASE need = "MKA" /\ OfType(s1, x, "TLS") # {}
  <2> DEFINE u == [s1 EXCEPT !.running = TRUE]
  <2>1. t = u  BY <1>2, <1>8
  <2>2. u.ent = s1.ent /\ u.events = s1.events  BY <1>5 DEF Handling
  <2> HIDE DEF u
  <2>3. Kept(s, u, x)  BY <1>5, <2>2 DEF Kept
  <2>4. Posts(s, u)  BY <1>5, <2>2, SamePosts
  <2> QED  BY <2>1, <2>3, <2>4 DEF t
<1>9. CASE need = "MKA" /\ OfType(s1, x, "TLS") = {}
  <2> DEFINE tls == "TLS"
             run == "run"
             mka == "MKA"
             c == Create(s1, x, tls, run)
             u == CreateAndPost(c, x, mka)
             v == [id |-> NewId(c), type |-> mka]
  <2>1. t = u  BY <1>2, <1>9
  <2>2. tls \in Types /\ mka \in Types /\ run \in {"posted", "run", "end"} /\ mka # "KEY"
    BY DEF Types
  <2> HIDE DEF tls, run, mka
  <2>3. Kept(s1, c, x) /\ c.events = s1.events  BY <1>5, <2>2, CreateKept
  <2>4. c \in Handling  BY <1>5, <2>2, CreateFacts
  <2> HIDE DEF c
  <2>5. /\ Kept(c, u, x) /\ (Distinct(c) => Distinct(u))
        /\ Range(u.events) = Range(c.events) \cup {v}
    BY <2>2, <2>4, CreateAndPostKept
  <2>6. v.type # "KEY"  BY <2>2
  <2> HIDE DEF u, v
  <2>7. Kept(s, u, x)
    <3>1. Kept(s, c, x)  BY <1>5, <2>3, KeptTrans
    <3> QED  BY <2>5, <3>1, KeptTrans
  <2>8. Posts(c, u)  BY <2>5, <2>6 DEF Posts
  <2>9. Posts(s, u)
    <3>1. c.events = s.events  BY <1>5, <2>3
    <3> QED  BY <2>8, <3>1, SamePosts, PostsTrans
  <2> QED  BY <2>1, <2>7, <2>9 DEF t
<1> QED  BY <1>6, <1>7, <1>8, <1>9

\* Posted KEY instances but those of ks stay.
KeptBut(s, t, x, ks) == \A k \in s.ent[x].kmps \ ks : IsPostedKey(k) => k \in t.ent[x].kmps

LEMMA FinishedKept ==
    ASSUME NEW s, Good(s), NEW x \in Listed(s), NEW ks \in SUBSET s.ent[x].kmps
    PROVE  LET t == Finished(s, x, ks)
           IN  /\ KeptBut(s, t, x, ks) /\ Posts(s, t)
               /\ \A y \in Supp \ {x} : t.ent[y] = s.ent[y]
<1> DEFINE f == [k \in ks |-> Ended(k)]
           old == s.ent[x].kmps
           new == (old \ ks) \cup {f[k] : k \in ks}
           s1 == [s EXCEPT !.ent[x].kmps = new]
           t == Finished(s, x, ks)
<1>1. s \in Handling /\ x \in Supp
  <2>1. s \in Handling  BY DEF Good, GoodBut
  <2> QED  BY <2>1, HandlingFields DEF Listed
<1>2. old \in SUBSET Kmp /\ IsFiniteSet(old)
  <2>1. s.ent[x] \in FiniteEntry  BY <1>1, HandlingFields
  <2> QED  BY <2>1, EntryFields
<1>3. f \in [ks -> Kmp] /\ \A k \in ks : f[k].type = k.type
  <2>1. \A k \in ks : Ended(k) \in Kmp /\ Ended(k).type = k.type  BY <1>2, KmpFields
  <2> QED  BY <2>1
<1>4. {Ended(k) : k \in ks} = {f[k] : k \in ks}  OBVIOUS
<1>5. t = IF x \in Range(s.active) THEN Trigger(s1, x) ELSE s1
  BY <1>4 DEF Finished
<1>6. ks \in SUBSET old  OBVIOUS
<1> HIDE DEF f, t
<1>7. new \in SUBSET Kmp /\ IsFiniteSet(new)
  <2> HIDE DEF old
  <2> QED  BY <1>2, <1>3, <1>6, ReplacedKmps
<1>8. old \ ks \subseteq new  OBVIOUS
<1> HIDE DEF new
<1>9. s1 \in Handling /\ OnlyEntry(s, s1, x) /\ s1.ent[x].kmps = new /\ s1.events = s.events
  BY <1>1, <1>7, SetKmps
<1> HIDE DEF s1
<1>10. KeptBut(s, s1, x, ks)  BY <1>8, <1>9 DEF KeptBut
<1>11. CASE x \in Range(s.active)
  <2> DEFINE v == Trigger(s1, x)
  <2>1. t = v  BY <1>5, <1>11
  <2>2. Kept(s1, v, x) /\ Posts(s1, v)  BY <1>1, <1>9, TriggerKept
  <2>3. OnlyEntry(s1, v, x)  BY <1>1, <1>9, TriggerFacts
  <2> HIDE DEF v
  <2>4. Posts(s, v)  BY <1>9, <2>2, SamePosts, PostsTrans
  <2>5. KeptBut(s, v, x, ks)  BY <1>10, <2>2 DEF KeptBut, Kept
  <2>6. \A y \in Supp \ {x} : v.ent[y] = s.ent[y]  BY <1>9, <2>3 DEF OnlyEntry
  <2> QED  BY <2>1, <2>4, <2>5, <2>6 DEF t
<1>12. CASE x \notin Range(s.active)
  <2>1. t = s1  BY <1>5, <1>12
  <2>2. Posts(s, s1)  BY <1>9, SamePosts
  <2>3. \A y \in Supp \ {x} : s1.ent[y] = s.ent[y]  BY <1>9 DEF OnlyEntry
  <2> QED  BY <1>10, <2>1, <2>2, <2>3 DEF t
<1> QED  BY <1>11, <1>12

LEMMA DispatchedKept ==
    ASSUME NEW s, Good(s), NEW x \in Supp, NEW k \in s.ent[x].kmps
    PROVE  LET t == Dispatched(s, x, k)
           IN  /\ KeptBut(s, t, x, {k}) /\ Posts(s, t)
               /\ \A y \in Supp \ {x} : t.ent[y] = s.ent[y]
<1> DEFINE t == Dispatched(s, x, k)
           ks == {k}
<1>1. x \in Listed(s) /\ s \in Handling
  BY DEF Good, GoodBut, Entries, NoEntry
<1>2. CASE k.type = "KEY"
  <2> DEFINE u == Finished(s, x, ks)
  <2>1. t = u /\ ks \in SUBSET s.ent[x].kmps  BY <1>2 DEF Dispatched
  <2> HIDE DEF ks
  <2>2. /\ KeptBut(s, u, x, ks) /\ Posts(s, u)
        /\ \A y \in Supp \ {x} : u.ent[y] = s.ent[y]
    BY <1>1, <2>1, FinishedKept
  <2> HIDE DEF u, t
  <2> QED  BY <2>1, <2>2 DEF t, u, ks
<1>3. CASE k.type # "KEY"
  <2> DEFINE r == [k EXCEPT !.st = "run"]
             old == s.ent[x].kmps
             new == (old \ ks) \cup {r}
             u == [s EXCEPT !.ent[x].kmps = new]
  <2>1. old \in SUBSET Kmp /\ IsFiniteSet(old)
    <3>1. s.ent[x] \in FiniteEntry  BY <1>1, HandlingFields
    <3> QED  BY <3>1, EntryFields
  <2>2. r \in Kmp  BY <2>1, KmpFields
  <2>3. t = u  BY <1>3 DEF Dispatched
  <2> HIDE DEF r, t
  <2>4. new \in SUBSET Kmp /\ IsFiniteSet(new)
    <3>1. IsFiniteSet(old \ ks)  BY <2>1, FS_Difference
    <3>2. IsFiniteSet({r})  BY FS_Singleton
    <3> HIDE DEF old, ks
    <3> QED  BY <2>1, <2>2, <3>1, <3>2, FS_Union
  <2>5. old \ ks \subseteq new  OBVIOUS
  <2> HIDE DEF new
  <2>6. u \in Handling /\ OnlyEntry(s, u, x) /\ u.ent[x].kmps = new /\ u.events = s.events
    BY <1>1, <2>4, SetKmps
  <2> HIDE DEF u, ks
  <2>7. KeptBut(s, u, x, ks)  BY <2>5, <2>6 DEF KeptBut
  <2>8. Posts(s, u)  BY <2>6, SamePosts
  <2>9. \A y \in Supp \ {x} : u.ent[y] = s.ent[y]  BY <2>6 DEF OnlyEntry
  <2> QED  BY <2>3, <2>7, <2>8, <2>9 DEF t, ks
<1> QED  BY <1>2, <1>3

\* The oldest that waits is given up, never the newest: the list is full then.
LEMMA WaitingAddKept ==
    ASSUME NEW s, NEW x \in Supp, GoodBut(s, {x}), x \notin Listed(s), NEW y \in Supp,
           Safe(s, y)
    PROVE  LET t == WaitingAdd(s, x)
           IN  t.ent[y] = s.ent[y] 
<1> DEFINE v == Victim(s)
           full == s.size >= WaitMax
           r == RemoveWaiting(s, v)
           s1 == IF full THEN r ELSE s
           t == WaitingAdd(s, x)
<1>1. s \in Handling /\ Lists(s) /\ Entries(s, {x})  BY DEF GoodBut
<1>2. /\ s.size = Len(s.waiting) /\ s.size \in Nat /\ WaitMax \in Nat
      /\ WaitMax >= 2 /\ s.waiting \in Seq(Supp)
  BY <1>1, Assumed, HandlingFields DEF Lists
<1>3. x # y
  <2>1. s.waiting # <<>> => Head(s.waiting) \in Range(s.waiting)
    BY <1>1, <1>2, TailFacts DEF Lists
  <2> QED  BY <2>1 DEF Safe, Listed
<1>4. full => v \in Range(s.waiting) /\ v # y /\ v # x
  <2> SUFFICES ASSUME full PROVE v \in Range(s.waiting) /\ v # y /\ v # x  OBVIOUS
  <2> DEFINE q == s.waiting
  <2>1. Len(q) >= 2 /\ Len(q) \in Nat /\ q \in Seq(Supp) /\ q # <<>>  BY <1>2
  <2>2. v = q[Len(q)] /\ Head(q) = q[1]  BY <2>1 DEF Victim, Last
  <2>3. q[Len(q)] # q[1]
    <3>1. IsInjective(q)  BY <1>1 DEF Lists
    <3> HIDE DEF q
    <3>2. DOMAIN q = 1..Len(q)  BY <2>1
    <3>3. Len(q) \in 1..Len(q) /\ 1 \in 1..Len(q) /\ Len(q) # 1
      <4> DEFINE n == Len(q)
      <4>1. n \in Nat /\ n >= 2  BY <2>1
      <4> HIDE DEF n
      <4>2. n \in 1..n /\ 1 \in 1..n /\ n # 1  BY <4>1
      <4> QED  BY <4>2 DEF n
    <3> QED  BY <3>1, <3>2, <3>3 DEF IsInjective
  <2>4. v \in Range(q)  BY <2>1, LastFacts DEF Victim
  <2>5. v \notin Range(s.active)  BY <1>1, <2>4 DEF Lists
  <2> QED  BY <2>2, <2>3, <2>4, <2>5 DEF Safe, Listed
<1> HIDE DEF v
<1>5. s1.ent[y] = s.ent[y] /\ s1 \in Handling
  <2>1. CASE full
    <3>1. GoodBut(r, {x}) /\ \A z \in Supp \ {v} : r.ent[z] = s.ent[z]
      <4>1. v \in Range(s.waiting) /\ v \notin {x}  BY <1>4, <2>1
      <4> QED  BY <4>1, RemoveWaitingFacts
    <3>2. s1 = r  BY <2>1
    <3> HIDE DEF r, s1
    <3> QED  BY <1>4, <2>1, <3>1, <3>2 DEF GoodBut
  <2>2. CASE ~full
    <3>1. s1 = s  BY <2>2
    <3> HIDE DEF s1
    <3> QED  BY <1>1, <3>1
  <2> QED  BY <2>1, <2>2
<1>6. t = [s1 EXCEPT !.waiting = <<x>> \o @, !.size = @ + 1, !.ent[x].wait = RetryTicks]
  BY DEF WaitingAdd, v
<1> HIDE DEF s1, t
<1>7. t.ent[y] = s1.ent[y]  BY <1>3, <1>5, <1>6 DEF Handling
<1> QED  BY <1>5, <1>7 DEF t

LEMMA WaitingAddSafe ==
    ASSUME NEW s, NEW x \in Supp, GoodBut(s, {x}), x \notin Listed(s)
    PROVE  LET t == WaitingAdd(s, x)
           IN  t.events = s.events /\ Safe(t, x)
<1> DEFINE r == RemoveWaiting(s, Victim(s))
           s1 == IF s.size >= WaitMax THEN r ELSE s
           t == WaitingAdd(s, x)
<1>1. s \in Handling  BY DEF GoodBut
<1>2. r.events = s.events /\ DOMAIN r = DOMAIN s /\ r.waiting = Without(s.waiting, Victim(s))
  BY <1>1 DEF RemoveWaiting, Handling
<1>3. s1 = r \/ s1 = s  OBVIOUS
<1>4. s1.waiting \in Seq(Supp)
  <2>1. Without(s.waiting, Victim(s)) \in Seq(Supp)
    BY <1>1, WithoutFacts, HandlingFields DEF GoodBut, Lists
  <2> QED  BY <1>1, <1>2, <1>3, <2>1, HandlingFields
<1>5. t = [s1 EXCEPT !.waiting = <<x>> \o @, !.size = @ + 1, !.ent[x].wait = RetryTicks]
  BY DEF WaitingAdd
<1>6. DOMAIN s = {"active", "waiting", "size", "ent", "events", "running"}  BY <1>1 DEF Handling
<1>7. s1.events = s.events /\ DOMAIN s1 = DOMAIN s  BY <1>2, <1>3
<1> HIDE DEF s1, r
<1>8. t.events = s1.events /\ t.waiting = <<x>> \o s1.waiting  BY <1>5, <1>6, <1>7
<1>9. <<x>> \o s1.waiting # <<>> /\ Head(<<x>> \o s1.waiting) = x  BY <1>4
<1> HIDE DEF t
<1> QED  BY <1>7, <1>8, <1>9 DEF Safe, t

LEMMA WithoutHead ==
    ASSUME NEW q \in Seq(Supp), IsInjective(q), q # <<>>, NEW x, Head(q) # x
    PROVE  Without(q, x) # <<>> /\ Head(Without(q, x)) = Head(q)
<1> DEFINE r == Without(q, x)
<1>1. CASE x \notin Range(q)  BY <1>1 DEF Without
<1>2. CASE x \in Range(q)
  <2>1. Len(q) \in Nat /\ Len(q) >= 1 /\ Head(q) = q[1]  OBVIOUS
  <2>2. PICK p \in 1..Len(q) : q[p] = x  BY <1>2, RangeFacts
  <2>3. Len(q) >= 2 /\ 1 \in 1..(Len(q) - 1)  BY <2>1, <2>2
  <2>4. r \in Seq(Supp) /\ Len(r) = Len(q) - 1  BY <1>2, WithoutFacts
  <2>5. r[1] = q[1]
    <3>1. ~ \E j \in 1..1 : q[j] = x  BY <2>1
    <3>2. r = [i \in 1..(Len(q) - 1) |-> IF \E j \in 1..i : q[j] = x THEN q[i + 1] ELSE q[i]]
      BY <1>2 DEF Without
    <3> QED  BY <2>3, <3>1, <3>2
  <2> HIDE DEF r
  <2>6. r # <<>> /\ Head(r) = r[1]  BY <2>1, <2>3, <2>4
  <2> QED  BY <2>1, <2>5, <2>6 DEF r
<1> QED  BY <1>1, <1>2

LEMMA TakenFromWaitingKept ==
    ASSUME NEW s, Good(s), NEW x \in Supp
    PROVE  LET t == TakenFromWaiting(s, x)
           IN  /\ t.events = s.events
               /\ \A y \in Supp \ {x} : t.ent[y] = s.ent[y] /\ (Safe(s, y) => Safe(t, y))
<1> DEFINE w == Without(s.waiting, x)
           t == TakenFromWaiting(s, x)
<1>1. s \in Handling /\ Lists(s)  BY DEF Good, GoodBut
<1>2. CASE x \notin Range(s.waiting)
  <2>1. t = s  BY <1>2 DEF TakenFromWaiting
  <2> QED  BY <2>1
<1>3. CASE x \in Range(s.waiting)
  <2>1. t = [s EXCEPT !.waiting = Without(@, x), !.size = @ - 1, !.ent[x].wait = 0]
    BY <1>3 DEF TakenFromWaiting
  <2>2. /\ t.active = s.active /\ t.waiting = w /\ t.events = s.events
        /\ \A y \in Supp \ {x} : t.ent[y] = s.ent[y]
    BY <1>1, <2>1 DEF Handling
  <2>3. \A y \in Supp \ {x} : s.waiting # <<>> /\ Head(s.waiting) = y => w # <<>> /\ Head(w) = y
    BY <1>1, WithoutHead, HandlingFields DEF Lists
  <2> HIDE DEF t, w
  <2>4. \A y \in Supp \ {x} : Safe(s, y) => Safe(t, y)  BY <2>2, <2>3 DEF Safe
  <2> QED  BY <2>2, <2>4 DEF t
<1> QED  BY <1>2, <1>3

\* A message takes no KEY instance from a supplicant that is active or the
\* newest that waits, and makes its sender one of these.
LEMMA PlacedKept ==
    ASSUME NEW s, Good(s), NEW x \in Supp, NEW chance \in BOOLEAN
    PROVE  LET t == Placed(s, x, chance)
           IN  /\ t.events = s.events /\ Safe(t, x)
               /\ \A y \in Supp : Safe(s, y) => t.ent[y].kmps = s.ent[y].kmps
<1> DEFINE s1 == TakenFromWaiting(s, x)
           full == LimitReached(Len(s.active), chance)
           on == [s1 EXCEPT !.active = <<x>> \o @]
           s2 == IF x \in Range(s.active) THEN s
                 ELSE IF full THEN WaitingAdd(s1, x)
                 ELSE on
           t == Placed(s, x, chance)
<1>1. s \in Handling  BY DEF Good, GoodBut
<1>2. t = [s2 EXCEPT !.ent[x].ticks = AuthTicks]  BY DEF Placed
<1>3. t.ent[x].kmps = s.ent[x].kmps  BY PlacedFacts
<1>4. /\ s2 \in Handling /\ s2.events = s.events /\ Safe(s2, x)
      /\ \A y \in Supp \ {x} : Safe(s, y) => s2.ent[y] = s.ent[y]
  <2>1. CASE x \in Range(s.active)
    <3>1. s2 = s  BY <2>1
    <3> HIDE DEF s2
    <3> QED  BY <1>1, <2>1, <3>1 DEF Safe
  <2>2. CASE x \notin Range(s.active)
    <3>1. /\ GoodBut(s1, {x}) /\ s1.active = s.active
          /\ Range(s1.waiting) = Range(s.waiting) \ {x}
      BY <2>2, TakenFromWaitingFacts
    <3>2. /\ s1.events = s.events
          /\ \A y \in Supp \ {x} : s1.ent[y] = s.ent[y] /\ (Safe(s, y) => Safe(s1, y))
      BY TakenFromWaitingKept
    <3> HIDE DEF s1
    <3>3. s1 \in Handling /\ Lists(s1) /\ x \notin Listed(s1)  BY <2>2, <3>1 DEF GoodBut, Listed
    <3>4. CASE full
      <4> DEFINE u == WaitingAdd(s1, x)
      <4>1. s2 = u  BY <2>2, <3>4
      <4>2. u.events = s1.events /\ Safe(u, x)  BY <3>1, <3>3, WaitingAddSafe
      <4>3. \A y \in Supp : Safe(s1, y) => u.ent[y] = s1.ent[y]  BY <3>1, <3>3, WaitingAddKept
      <4>4. u \in Handling
        <5>1. Good(u)  BY <3>1, <3>3, WaitingAddFacts
        <5> QED  BY <5>1 DEF Good, GoodBut
      <4> HIDE DEF u, s2
      <4> QED  BY <3>2, <4>1, <4>2, <4>3, <4>4
    <3>5. CASE ~full
      <4> DEFINE a == <<x>> \o s1.active
      <4>1. s2 = [s1 EXCEPT !.active = a]  BY <2>2, <3>5
      <4>2. a \in Seq(Supp) /\ Range(a) = Range(s1.active) \cup {x}
        BY <3>3, ConsFacts, HandlingFields DEF Lists, Listed
      <4> HIDE DEF a, s2
      <4>3. s2 \in Handling /\ s2.active = a /\ s2.events = s1.events /\ s2.ent = s1.ent
        BY <3>3, <4>1, <4>2 DEF Handling
      <4> QED  BY <3>2, <4>2, <4>3 DEF Safe
    <3> QED  BY <3>4, <3>5
  <2> QED  BY <2>1, <2>2
<1> HIDE DEF s2
<1>5. /\ t.events = s2.events /\ t.active = s2.active /\ t.waiting = s2.waiting
      /\ \A y \in Supp \ {x} : t.ent[y] = s2.ent[y]
  BY <1>2, <1>4 DEF Handling
<1> HIDE DEF t
<1>6. Safe(t, x)  BY <1>4, <1>5 DEF Safe
<1> QED  BY <1>3, <1>4, <1>5, <1>6 DEF t

LEMMA EntryTickHeld ==
    ASSUME NEW s, Good(s), NEW x \in Listed(s)
    PROVE  LET t == [s EXCEPT !.ent[x] = EntryTick(@)]
           IN  Held(s, t)
<1> DEFINE e == EntryTick(s.ent[x])
           t == [s EXCEPT !.ent[x] = e]
<1>1. s \in Handling /\ x \in Supp
  <2>1. s \in Handling  BY DEF Good, GoodBut
  <2> QED  BY <2>1, HandlingFields DEF Listed
<1>2. s.ent[x] \in FiniteEntry  BY <1>1, HandlingFields
<1>3. e \in FiniteEntry  BY <1>2, EntryTickFacts
<1>4. \A k \in s.ent[x].kmps : IsPostedKey(k) => k \in e.kmps
  <2>1. e.kmps = KmpTick(s.ent[x].kmps)  BY <1>2 DEF EntryTick, FiniteEntry, Entry
  <2> HIDE DEF e
  <2> QED  BY <2>1 DEF KmpTick, IsPostedKey
<1>5. [s EXCEPT !.ent[x] = EntryTick(@)] = t  OBVIOUS
<1> HIDE DEF e
<1>6. OnlyEntry(s, t, x) /\ t.ent[x] = e /\ t.events = s.events  BY <1>1, <1>3, SetEntry
<1> HIDE DEF t
<1>7. Kept(s, t, x)  BY <1>4, <1>6 DEF Kept
<1>8. Posts(s, t)  BY <1>6, SamePosts
<1>9. Held(s, t)  BY <1>6, <1>7, <1>8, OnlyEntryHeld
<1> QED  BY <1>5, <1>9

\* Whoever has an instance keeps its place, whoever leaves: the newest that
\* waits is also the one that is promoted.
LEMMA RemoveActiveHeld ==
    ASSUME NEW s, Good(s), NEW x \in Range(s.active), s.ent[x].kmps = {}, NEW chance \in BOOLEAN
    PROVE  Held(s, RemoveActive(s, x, chance))
<1> DEFINE s1 == [s EXCEPT !.active = Without(@, x), !.ent[x] = NoEntry]
           h == Head(s1.waiting)
           p == Promoted(s1)
           u == Trigger(p, h)
           t == RemoveActive(s, x, chance)
           full == LimitReached(Len(s1.active), chance)
<1>1. Good(s1) /\ Range(s1.active) = Range(s.active) \ {x} /\ s1.waiting = s.waiting
  BY DropActiveFacts
<1>2. t = IF full \/ s1.waiting = <<>> THEN s1 ELSE u  BY DEF RemoveActive
<1>3. s \in Handling /\ s1.events = s.events /\ \A y \in Supp \ {x} : s1.ent[y] = s.ent[y]
  <2>1. s \in Handling  BY DEF Good, GoodBut
  <2> QED  BY <2>1 DEF Handling
<1> HIDE DEF s1
<1>4. Held(s, s1)
  <2>1. \A y \in Supp \ {x} : Safe(s, y) => Safe(s1, y)  BY <1>1 DEF Safe
  <2>2. Posts(s, s1)  BY <1>3, SamePosts
  <2> QED  BY <1>3, <2>1, <2>2 DEF Held
<1> HIDE DEF t
<1>5. CASE full \/ s1.waiting = <<>>
  <2>1. t = s1  BY <1>2, <1>5
  <2> QED  BY <1>4, <2>1 DEF t
<1>6. CASE ~(full \/ s1.waiting = <<>>)
  <2>1. t = u /\ s1.waiting # <<>>  BY <1>2, <1>6
  <2>2. Good(p) /\ h \in Range(s1.waiting) /\ Range(p.active) = Range(s1.active) \cup {h}
    BY <1>1, <2>1, PromotedFacts
  <2>3. s1 \in Handling /\ p \in Handling /\ h \in Supp
    <3>1. p \in Handling /\ s1 \in Handling  BY <1>1, <2>2 DEF Good, GoodBut
    <3> QED  BY <2>2, <3>1, HandlingFields
  <2>4. /\ p.events = s1.events /\ \A y \in Supp \ {h} : p.ent[y] = s1.ent[y]
        /\ p.ent[h].kmps = s1.ent[h].kmps
    <3>1. s1.ent[h] \in FiniteEntry  BY <2>3, HandlingFields
    <3> HIDE DEF h
    <3>2. p = [s1 EXCEPT !.waiting = Tail(@), !.size = @ - 1, !.active = <<h>> \o @, !.ent[h].wait = 0]
      BY DEF Promoted, h
    <3> HIDE DEF p
    <3> QED  BY <2>3, <3>1, <3>2 DEF Handling, FiniteEntry, Entry
  <2>5. Held(s1, p)
    <3>1. \A y \in Supp : Safe(s1, y) => Safe(p, y)
      <4> HIDE DEF p
      <4> QED  BY <2>2 DEF Safe
    <3>2. Posts(s1, p)
      <4> HIDE DEF p
      <4> QED  BY <2>4, SamePosts
    <3> HIDE DEF p, h
    <3>3. \A y \in Supp : p.ent[y].kmps = s1.ent[y].kmps  BY <2>4
    <3> QED  BY <3>1, <3>2, <3>3 DEF Held
  <2> HIDE DEF p, h
  <2>6. Held(p, u)
    <3>1. OnlyEntry(p, u, h)  BY <2>3, TriggerFacts
    <3>2. Kept(p, u, h) /\ Posts(p, u)  BY <2>3, TriggerKept
    <3> HIDE DEF u
    <3> QED  BY <3>1, <3>2, OnlyEntryHeld
  <2> HIDE DEF u
  <2>7. Held(s, u)
    <3>1. Held(s, p)  BY <1>4, <2>5, HeldTrans
    <3> QED  BY <2>6, <3>1, HeldTrans
  <2> QED  BY <2>1, <2>7 DEF t
<1> QED  BY <1>5, <1>6

LEMMA RemoveWaitingHeld ==
    ASSUME NEW s, Good(s), NEW x \in Range(s.waiting), s.ent[x].kmps = {}
    PROVE  Held(s, RemoveWaiting(s, x))
<1> DEFINE w == Without(s.waiting, x)
           t == RemoveWaiting(s, x)
<1>1. s \in Handling /\ Lists(s)  BY DEF Good, GoodBut
<1>2. /\ t.active = s.active /\ t.waiting = w /\ t.events = s.events
      /\ \A y \in Supp \ {x} : t.ent[y] = s.ent[y]
  BY <1>1 DEF RemoveWaiting, Handling
<1>3. \A y \in Supp \ {x} : s.waiting # <<>> /\ Head(s.waiting) = y => w # <<>> /\ Head(w) = y
  BY <1>1, WithoutHead, HandlingFields DEF Lists
<1> HIDE DEF t, w
<1>4. \A y \in Supp \ {x} : Safe(s, y) => Safe(t, y)  BY <1>2, <1>3 DEF Safe
<1>5. Posts(s, t)  BY <1>2, SamePosts
<1>6. Held(s, t)  BY <1>2, <1>4, <1>5 DEF Held
<1> QED  BY <1>6 DEF t

-----------------------------------------------------------------------------
(***************************************************************************)
(* The fast timer goes through both lists.                                  *)
(***************************************************************************)
LEMMA EntryTickGood ==
    ASSUME NEW s, Good(s), NEW x \in Listed(s)
    PROVE  LET t == [s EXCEPT !.ent[x] = EntryTick(@)]
           IN  Good(t) /\ t.active = s.active /\ t.waiting = s.waiting
<1> DEFINE e == EntryTick(s.ent[x])
           t == [s EXCEPT !.ent[x] = e]
<1>1. s \in Handling /\ Entries(s, {})  BY DEF Good, GoodBut
<1>2. x \in Supp  BY <1>1, HandlingFields DEF Listed
<1>3. s.ent[x] \in FiniteEntry /\ Single(s.ent[x])  BY <1>1, <1>2, HandlingFields DEF Entries
<1>4. e \in FiniteEntry /\ Single(e)  BY <1>3, EntryTickFacts
<1>5. [s EXCEPT !.ent[x] = EntryTick(@)] = t  OBVIOUS
<1> HIDE DEF e
<1>6. t \in Handling /\ OnlyEntry(s, t, x) /\ t.ent[x] = e  BY <1>1, <1>2, <1>4, SetEntry
<1> HIDE DEF t
<1>7. Good(t)  BY <1>4, <1>6, OnlyEntryGood
<1> QED  BY <1>5, <1>6, <1>7 DEF OnlyEntry

\* After n entries of the active list: those after them are still active, the
\* others that are active have waited, and for each of them one has left.
Joined(s, t) == Range(t.active) \ Range(s.active)
Gone(s, t) == Range(s.active) \ Range(t.active)

ActiveLoop(s, t, n) ==
    /\ Good(t) /\ Held(s, t)
    /\ \A m \in (n + 1)..Len(s.active) : s.active[m] \in Range(t.active)
    /\ Joined(s, t) \subseteq Range(s.waiting)
    /\ Range(t.waiting) = Range(s.waiting) \ Joined(s, t)
    /\ Cardinality(Joined(s, t)) <= Cardinality(Gone(s, t))

LEMMA ActiveStepFacts ==
    ASSUME NEW s, Good(s), NEW n \in 1..Len(s.active), NEW t, ActiveLoop(s, t, n - 1),
           NEW chance \in BOOLEAN
    PROVE  ActiveLoop(s, ActiveStep(t, s.active[n], chance), n)
<1> DEFINE x == s.active[n]
           u == ActiveStep(t, x, chance)
           A0 == Range(s.active)
           W0 == Range(s.waiting)
<1>1. Good(t) /\ t \in Handling /\ s \in Handling /\ Lists(t) /\ Lists(s)
  BY DEF Good, GoodBut, ActiveLoop
<1>2. Len(s.active) \in Nat /\ DOMAIN s.active = 1..Len(s.active)
  <2>1. s.active \in Seq(Supp)  BY <1>1, HandlingFields
  <2> QED  BY <2>1
<1>3. x \in A0 /\ x \in Range(t.active)
  <2>1. n \in ((n - 1) + 1)..Len(s.active)  BY <1>2
  <2>2. x \in Range(t.active)  BY <2>1 DEF ActiveLoop
  <2>3. x \in A0  BY <1>2 DEF Range
  <2> QED  BY <2>2, <2>3
<1>4. \A m \in (n + 1)..Len(s.active) : s.active[m] \in Range(t.active) /\ s.active[m] # x
  <2> SUFFICES ASSUME NEW m \in (n + 1)..Len(s.active)
               PROVE s.active[m] \in Range(t.active) /\ s.active[m] # x
    OBVIOUS
  <2>1. m \in ((n - 1) + 1)..Len(s.active) /\ m \in 1..Len(s.active) /\ m # n  BY <1>2
  <2>2. s.active[m] \in Range(t.active)  BY <2>1 DEF ActiveLoop
  <2>3. s.active[m] # s.active[n]  BY <1>1, <1>2, <2>1 DEF Lists, IsInjective
  <2> QED  BY <2>2, <2>3
<1> HIDE DEF x
<1>5. A0 \cap W0 = {} /\ Range(t.active) \cap Range(t.waiting) = {}  BY <1>1 DEF Lists
<1>6. /\ Joined(s, t) \subseteq W0 /\ Range(t.waiting) = W0 \ Joined(s, t)
      /\ Cardinality(Joined(s, t)) <= Cardinality(Gone(s, t))
  BY DEF ActiveLoop
<1>7. /\ IsFiniteSet(Joined(s, t)) /\ IsFiniteSet(Gone(s, t))
      /\ Cardinality(Joined(s, t)) \in Nat /\ Cardinality(Gone(s, t)) \in Nat
  <2>1. IsFiniteSet(Range(s.active)) /\ IsFiniteSet(Range(t.active))
    BY <1>1, InjectiveLen, HandlingFields DEF Lists
  <2> QED  BY <2>1, FS_Difference, FS_CardinalityType DEF Joined, Gone
<1>8. x \notin Gone(s, t)  BY <1>3 DEF Gone
<1>9. /\ IsFiniteSet(Gone(s, t) \cup {x})
      /\ Cardinality(Gone(s, t) \cup {x}) = Cardinality(Gone(s, t)) + 1
  BY <1>7, <1>8, FS_AddElement
<1>12. Held(s, t)  BY DEF ActiveLoop
<1>10. CASE KeepsRunning(t.ent[x])
  <2> DEFINE v == [t EXCEPT !.ent[x] = EntryTick(@)]
  <2>1. u = v  BY <1>10 DEF ActiveStep
  <2>2. Good(v) /\ v.active = t.active /\ v.waiting = t.waiting
    <3>1. x \in Listed(t)  BY <1>3 DEF Listed
    <3> QED  BY <1>1, <3>1, EntryTickGood
  <2>5. Held(s, v)
    <3>1. x \in Listed(t)  BY <1>3 DEF Listed
    <3>2. Held(t, v)  BY <1>1, <3>1, EntryTickHeld
    <3> HIDE DEF v
    <3> QED  BY <1>12, <3>2, HeldTrans
  <2> HIDE DEF v, u
  <2>3. Joined(s, u) = Joined(s, t) /\ Gone(s, u) = Gone(s, t)  BY <2>1, <2>2 DEF Joined, Gone
  <2>4. ActiveLoop(s, u, n)  BY <1>4, <1>6, <2>1, <2>2, <2>3, <2>5 DEF ActiveLoop
  <2> QED  BY <2>4 DEF u, x
<1>11. CASE ~KeepsRunning(t.ent[x])
  <2> DEFINE v == RemoveActive(t, x, chance)
  <2>1. u = v  BY <1>11 DEF ActiveStep
  <2>2. Good(v) /\ Freed(t, v, x)
    BY <1>1, <1>3, RemoveActiveFacts
  <2>5. Held(s, v)
    <3>1. t.ent[x].kmps = {}  BY <1>11 DEF KeepsRunning
    <3>2. Held(t, v)  BY <1>1, <1>3, <3>1, RemoveActiveHeld
    <3> HIDE DEF v
    <3> QED  BY <1>12, <3>2, HeldTrans
  <2> HIDE DEF v, u
  <2>3. CASE Range(v.active) = Range(t.active) \ {x} /\ Range(v.waiting) = Range(t.waiting)
    <3>1. Joined(s, u) = Joined(s, t) /\ Gone(s, u) = Gone(s, t) \cup {x}
      BY <1>3, <2>1, <2>3 DEF Joined, Gone
    <3>2. Cardinality(Joined(s, u)) <= Cardinality(Gone(s, u))  BY <1>6, <1>7, <1>9, <3>1
    <3>3. \A m \in (n + 1)..Len(s.active) : s.active[m] \in Range(u.active)  BY <1>4, <2>1, <2>3
    <3>4. ActiveLoop(s, u, n)  BY <1>6, <2>1, <2>2, <2>3, <2>5, <3>1, <3>2, <3>3 DEF ActiveLoop
    <3> QED  BY <3>4 DEF u, x
  <2>4. ASSUME NEW h \in Range(t.waiting),
               Range(v.active) = (Range(t.active) \ {x}) \cup {h},
               Range(v.waiting) = Range(t.waiting) \ {h}
        PROVE  ActiveLoop(s, u, n)
    <3>1. h \in W0 /\ h \notin A0 /\ h \notin Joined(s, t) /\ h # x
      BY <1>3, <1>5, <1>6
    <3>2. Joined(s, u) = Joined(s, t) \cup {h} /\ Gone(s, u) = Gone(s, t) \cup {x}
      BY <1>3, <2>1, <2>4, <3>1 DEF Joined, Gone
    <3>3. Cardinality(Joined(s, u)) = Cardinality(Joined(s, t)) + 1
      BY <1>7, <3>1, <3>2, FS_AddElement
    <3>4. Cardinality(Joined(s, u)) <= Cardinality(Gone(s, u))  BY <1>6, <1>7, <1>9, <3>2, <3>3
    <3>5. \A m \in (n + 1)..Len(s.active) : s.active[m] \in Range(u.active)  BY <1>4, <2>1, <2>4
    <3>6. Joined(s, u) \subseteq W0 /\ Range(u.waiting) = W0 \ Joined(s, u)
      BY <1>6, <2>1, <2>4, <3>1, <3>2
    <3> QED  BY <2>1, <2>2, <2>5, <3>4, <3>5, <3>6 DEF ActiveLoop
  <2> QED  BY <2>2, <2>3, <2>4 DEF Freed, u, x
<1> QED  BY <1>10, <1>11

LEMMA ActiveTickFacts ==
    ASSUME NEW s, Good(s), NEW chances
    PROVE  ActiveLoop(s, ActiveTick(s, s.active, chances), Len(s.active))
<1> DEFINE list == s.active
           N == Len(list)
           I == [n \in 0..N |-> {t \in Handling : ActiveLoop(s, t, n)}]
           step == [n \in 1..N |-> [t \in I[n - 1] |-> ActiveStep(t, list[n], list[n] \in chances)]]
           Eq(f) == f = [n \in 0..N |-> IF n = 0 THEN s
                         ELSE ActiveStep(f[n - 1], list[n], list[n] \in chances)]
           after == CHOOSE f : Eq(f)
<1>1. s \in Handling /\ Lists(s) /\ N \in Nat
  BY HandlingFields DEF Good, GoodBut
<1>2. s \in I[0]
  <2>1. list \in Seq(Supp)  BY <1>1, HandlingFields
  <2>2. \A m \in 1..N : list[m] \in Range(list)  BY <2>1, RangeFacts
  <2>3. Joined(s, s) = {} /\ Gone(s, s) = {} /\ Cardinality({}) = 0
    BY FS_EmptySet DEF Joined, Gone
  <2>5. Held(s, s)  BY DEF Held, Posts
  <2>4. ActiveLoop(s, s, 0)  BY <2>2, <2>3, <2>5 DEF ActiveLoop
  <2> QED  BY <1>1, <2>4
<1>3. ASSUME NEW n \in 1..N, NEW t \in I[n - 1]
      PROVE  ActiveStep(t, list[n], list[n] \in chances) \in I[n]
  <2>1. n - 1 \in 0..N /\ n \in 0..N  BY <1>1
  <2>2. ActiveLoop(s, t, n - 1)  BY <2>1
  <2> DEFINE b == list[n] \in chances
             u == ActiveStep(t, list[n], b)
  <2>3. b \in BOOLEAN  OBVIOUS
  <2> HIDE DEF b
  <2>4. ActiveLoop(s, u, n)  BY <2>2, <2>3, ActiveStepFacts
  <2>5. u \in Handling  BY <2>4 DEF ActiveLoop, Good, GoodBut
  <2>6. u \in I[n]
    <3> HIDE DEF u
    <3> QED  BY <2>1, <2>4, <2>5
  <2> QED  BY <2>6 DEF b
<1>4. Rounds(step, I, N)
  <2> HIDE DEF I
  <2> QED  BY <1>3 DEF Rounds
<1>5. PICK g : LoopRun(g, N, s, step, I)
  <2> HIDE DEF I, step, N
  <2> QED  BY <1>1, <1>2, <1>4, LoopInvariant
<1>6. /\ g = [n \in 0..N |-> g[n]] /\ g[0] = s /\ \A n \in 0..N : g[n] \in I[n]
      /\ \A n \in 1..N : g[n] = ActiveStep(g[n - 1], list[n], list[n] \in chances)
  <2>1. /\ g = [n \in 0..N |-> g[n]] /\ g[0] = s /\ \A n \in 0..N : g[n] \in I[n]
        /\ \A n \in 1..N : g[n] = step[n][g[n - 1]]
    <3> HIDE DEF I, step, N
    <3> QED  BY <1>5 DEF LoopRun
  <2>2. ASSUME NEW n \in 1..N PROVE g[n] = ActiveStep(g[n - 1], list[n], list[n] \in chances)
    <3>1. n - 1 \in 0..N  BY <1>1
    <3> HIDE DEF I
    <3>2. g[n - 1] \in I[n - 1]  BY <2>1, <3>1
    <3> QED  BY <2>1, <3>2
  <2> QED  BY <2>1, <2>2
<1> HIDE DEF I, step
<1>7. Eq(g)
  <2> DEFINE h == [n \in 0..N |-> IF n = 0 THEN s
                   ELSE ActiveStep(g[n - 1], list[n], list[n] \in chances)]
  <2>1. \A n \in 0..N : g[n] = h[n]  BY <1>1, <1>6
  <2>2. [n \in 0..N |-> g[n]] = h
    <3> HIDE DEF N
    <3> QED  BY <2>1
  <2> QED  BY <1>6, <2>2
<1>8. Eq(after)
  <2> HIDE DEF Eq
  <2> QED  BY <1>7
<1> DEFINE P == {n \in Nat : n <= N => after[n] = g[n]}
<1> HIDE DEF after
<1>9. 0 \in P  BY <1>1, <1>6, <1>8
<1>10. ASSUME NEW n \in Nat, n \in P PROVE n + 1 \in P
  <2> SUFFICES ASSUME n + 1 <= N PROVE after[n + 1] = g[n + 1]  OBVIOUS
  <2>1. n + 1 \in 1..N /\ n + 1 \in 0..N /\ (n + 1) - 1 = n /\ n + 1 # 0 /\ after[n] = g[n]
    BY <1>1, <1>10
  <2> HIDE DEF N
  <2>2. after[n + 1] = ActiveStep(after[n], list[n + 1], list[n + 1] \in chances)
    BY <1>8, <2>1
  <2>3. g[n + 1] = ActiveStep(g[n], list[n + 1], list[n + 1] \in chances)  BY <1>6, <2>1
  <2> QED  BY <2>1, <2>2, <2>3
<1> HIDE DEF P
<1>11. Nat \subseteq P  BY <1>9, <1>10, NatInd
<1>12. after[N] = g[N]  BY <1>1, <1>11 DEF P
<1>13. g[N] \in I[N] /\ N \in 0..N
  <2>1. N \in 0..N  BY <1>1
  <2> HIDE DEF N
  <2> QED  BY <1>6, <2>1
<1>14. ActiveLoop(s, g[N], N)  BY <1>13 DEF I
<1>15. ActiveTick(s, list, chances) = after[N]  BY DEF ActiveTick, after
<1> QED  BY <1>12, <1>14, <1>15

\* After n entries of the waiting list: those after them still wait.
WaitingLoop(s, t, n) ==
    /\ Good(t) /\ Held(s, t) /\ t.active = s.active
    /\ Range(t.waiting) \subseteq Range(s.waiting)
    /\ \A m \in (n + 1)..Len(s.waiting) : s.waiting[m] \in Range(t.waiting)

LEMMA WaitingStepFacts ==
    ASSUME NEW s, Good(s), NEW n \in 1..Len(s.waiting), NEW t, WaitingLoop(s, t, n - 1)
    PROVE  WaitingLoop(s, WaitingStep(t, s.waiting[n]), n)
<1> DEFINE x == s.waiting[n]
           u == WaitingStep(t, x)
<1>1. Good(t) /\ t \in Handling /\ s \in Handling /\ Lists(t) /\ Lists(s)
  BY DEF Good, GoodBut, WaitingLoop
<1>2. Len(s.waiting) \in Nat /\ DOMAIN s.waiting = 1..Len(s.waiting)
  <2>1. s.waiting \in Seq(Supp)  BY <1>1, HandlingFields
  <2> QED  BY <2>1
<1>3. x \in Range(t.waiting)
  <2>1. n \in ((n - 1) + 1)..Len(s.waiting)  BY <1>2
  <2> QED  BY <2>1 DEF WaitingLoop
<1>4. \A m \in (n + 1)..Len(s.waiting) : s.waiting[m] \in Range(t.waiting) /\ s.waiting[m] # x
  <2> SUFFICES ASSUME NEW m \in (n + 1)..Len(s.waiting)
               PROVE s.waiting[m] \in Range(t.waiting) /\ s.waiting[m] # x
    OBVIOUS
  <2>1. m \in ((n - 1) + 1)..Len(s.waiting) /\ m \in 1..Len(s.waiting) /\ m # n  BY <1>2
  <2>2. s.waiting[m] \in Range(t.waiting)  BY <2>1 DEF WaitingLoop
  <2>3. s.waiting[m] # s.waiting[n]  BY <1>1, <1>2, <2>1 DEF Lists, IsInjective
  <2> QED  BY <2>2, <2>3
<1> HIDE DEF x
<1>5. t.active = s.active /\ Range(t.waiting) \subseteq Range(s.waiting)  BY DEF WaitingLoop
<1>8. Held(s, t)  BY DEF WaitingLoop
<1>6. CASE KeepsRunning(t.ent[x])
  <2> DEFINE v == [t EXCEPT !.ent[x] = EntryTick(@)]
  <2>1. u = v  BY <1>6 DEF WaitingStep
  <2>2. Good(v) /\ v.active = t.active /\ v.waiting = t.waiting
    <3>1. x \in Listed(t)  BY <1>3 DEF Listed
    <3> QED  BY <1>1, <3>1, EntryTickGood
  <2>4. Held(s, v)
    <3>1. x \in Listed(t)  BY <1>3 DEF Listed
    <3>2. Held(t, v)  BY <1>1, <3>1, EntryTickHeld
    <3> HIDE DEF v
    <3> QED  BY <1>8, <3>2, HeldTrans
  <2> HIDE DEF v, u
  <2>3. WaitingLoop(s, u, n)  BY <1>4, <1>5, <2>1, <2>2, <2>4 DEF WaitingLoop
  <2> QED  BY <2>3 DEF u, x
<1>7. CASE ~KeepsRunning(t.ent[x])
  <2> DEFINE v == RemoveWaiting(t, x)
  <2>1. u = v  BY <1>7 DEF WaitingStep
  <2>2. Good(v) /\ v.active = t.active /\ Range(v.waiting) = Range(t.waiting) \ {x}
    <3>1. GoodBut(t, {}) /\ x \notin {}  BY <1>1 DEF Good
    <3>2. GoodBut(v, {}) /\ v.active = t.active /\ Range(v.waiting) = Range(t.waiting) \ {x}
      BY <1>3, <3>1, RemoveWaitingFacts
    <3> QED  BY <3>2 DEF Good
  <2>4. Held(s, v)
    <3>1. t.ent[x].kmps = {}  BY <1>7 DEF KeepsRunning
    <3>2. Held(t, v)  BY <1>1, <1>3, <3>1, RemoveWaitingHeld
    <3> HIDE DEF v
    <3> QED  BY <1>8, <3>2, HeldTrans
  <2> HIDE DEF v, u
  <2>3. WaitingLoop(s, u, n)  BY <1>4, <1>5, <2>1, <2>2, <2>4 DEF WaitingLoop
  <2> QED  BY <2>3 DEF u, x
<1> QED  BY <1>6, <1>7

LEMMA WaitingTickFacts ==
    ASSUME NEW s, Good(s)
    PROVE  WaitingLoop(s, WaitingTick(s, s.waiting), Len(s.waiting))
<1> DEFINE list == s.waiting
           N == Len(list)
           I == [n \in 0..N |-> {t \in Handling : WaitingLoop(s, t, n)}]
           step == [n \in 1..N |-> [t \in I[n - 1] |-> WaitingStep(t, list[n])]]
           Eq(f) == f = [n \in 0..N |-> IF n = 0 THEN s
                         ELSE WaitingStep(f[n - 1], list[n])]
           after == CHOOSE f : Eq(f)
<1>1. s \in Handling /\ Lists(s) /\ N \in Nat
  BY HandlingFields DEF Good, GoodBut
<1>2. s \in I[0]
  <2>1. list \in Seq(Supp)  BY <1>1, HandlingFields
  <2>2. \A m \in 1..N : list[m] \in Range(list)  BY <2>1, RangeFacts
  <2>5. Held(s, s)  BY DEF Held, Posts
  <2>4. WaitingLoop(s, s, 0)  BY <2>2, <2>5 DEF WaitingLoop
  <2> QED  BY <1>1, <2>4
<1>3. ASSUME NEW n \in 1..N, NEW t \in I[n - 1]
      PROVE  WaitingStep(t, list[n]) \in I[n]
  <2>1. n - 1 \in 0..N /\ n \in 0..N  BY <1>1
  <2>2. WaitingLoop(s, t, n - 1)  BY <2>1
  <2> DEFINE u == WaitingStep(t, list[n])
  <2>4. WaitingLoop(s, u, n)  BY <2>2, WaitingStepFacts
  <2>5. u \in Handling  BY <2>4 DEF WaitingLoop, Good, GoodBut
  <2>6. u \in I[n]
    <3> HIDE DEF u
    <3> QED  BY <2>1, <2>4, <2>5
  <2> QED  BY <2>6
<1>4. Rounds(step, I, N)
  <2> HIDE DEF I
  <2> QED  BY <1>3 DEF Rounds
<1>5. PICK g : LoopRun(g, N, s, step, I)
  <2> HIDE DEF I, step, N
  <2> QED  BY <1>1, <1>2, <1>4, LoopInvariant
<1>6. /\ g = [n \in 0..N |-> g[n]] /\ g[0] = s /\ \A n \in 0..N : g[n] \in I[n]
      /\ \A n \in 1..N : g[n] = WaitingStep(g[n - 1], list[n])
  <2>1. /\ g = [n \in 0..N |-> g[n]] /\ g[0] = s /\ \A n \in 0..N : g[n] \in I[n]
        /\ \A n \in 1..N : g[n] = step[n][g[n - 1]]
    <3> HIDE DEF I, step, N
    <3> QED  BY <1>5 DEF LoopRun
  <2>2. ASSUME NEW n \in 1..N PROVE g[n] = WaitingStep(g[n - 1], list[n])
    <3>1. n - 1 \in 0..N  BY <1>1
    <3> HIDE DEF I
    <3>2. g[n - 1] \in I[n - 1]  BY <2>1, <3>1
    <3> QED  BY <2>1, <3>2
  <2> QED  BY <2>1, <2>2
<1> HIDE DEF I, step
<1>7. Eq(g)
  <2> DEFINE h == [n \in 0..N |-> IF n = 0 THEN s
                   ELSE WaitingStep(g[n - 1], list[n])]
  <2>1. \A n \in 0..N : g[n] = h[n]  BY <1>1, <1>6
  <2>2. [n \in 0..N |-> g[n]] = h
    <3> HIDE DEF N
    <3> QED  BY <2>1
  <2> QED  BY <1>6, <2>2
<1>8. Eq(after)
  <2> HIDE DEF Eq
  <2> QED  BY <1>7
<1> DEFINE P == {n \in Nat : n <= N => after[n] = g[n]}
<1> HIDE DEF after
<1>9. 0 \in P  BY <1>1, <1>6, <1>8
<1>10. ASSUME NEW n \in Nat, n \in P PROVE n + 1 \in P
  <2> SUFFICES ASSUME n + 1 <= N PROVE after[n + 1] = g[n + 1]  OBVIOUS
  <2>1. n + 1 \in 1..N /\ n + 1 \in 0..N /\ (n + 1) - 1 = n /\ n + 1 # 0 /\ after[n] = g[n]
    BY <1>1, <1>10
  <2> HIDE DEF N
  <2>2. after[n + 1] = WaitingStep(after[n], list[n + 1])
    BY <1>8, <2>1
  <2>3. g[n + 1] = WaitingStep(g[n], list[n + 1])  BY <1>6, <2>1
  <2> QED  BY <2>1, <2>2, <2>3
<1> HIDE DEF P
<1>11. Nat \subseteq P  BY <1>9, <1>10, NatInd
<1>12. after[N] = g[N]  BY <1>1, <1>11 DEF P
<1>13. g[N] \in I[N] /\ N \in 0..N
  <2>1. N \in 0..N  BY <1>1
  <2> HIDE DEF N
  <2> QED  BY <1>6, <2>1
<1>14. WaitingLoop(s, g[N], N)  BY <1>13 DEF I
<1>15. WaitingTick(s, list) = after[N]  BY DEF WaitingTick, after
<1> QED  BY <1>12, <1>14, <1>15

\* What the fast timer does to the lists.
Swept(s, t) ==
    \E done, promoted \in SUBSET Listed(s) :
       /\ promoted \subseteq Range(s.waiting) \ done
       /\ Cardinality(promoted) <= Cardinality(done \cap Range(s.active))
       /\ Range(t.active) = (Range(s.active) \ done) \cup promoted
       /\ Range(t.waiting) = Range(s.waiting) \ (done \cup promoted)
       /\ done = {} => promoted = {}

LEMMA SweptFacts ==
    ASSUME NEW s, Good(s), NEW t, ActiveLoop(s, t, Len(s.active)),
           NEW u, WaitingLoop(t, u, Len(t.waiting))
    PROVE  Good(u) /\ Held(s, u) /\ Swept(s, u)
<1> DEFINE A == Range(s.active)
           W == Range(s.waiting)
           P == Joined(s, t)
           G == Gone(s, t)
           L == Range(t.waiting) \ Range(u.waiting)
           done == G \cup L
<1>1. Good(t) /\ Good(u) /\ u.active = t.active /\ Range(u.waiting) \subseteq Range(t.waiting)
  BY DEF ActiveLoop, WaitingLoop
<1>2. P \subseteq W /\ Range(t.waiting) = W \ P /\ Cardinality(P) <= Cardinality(G)
  BY DEF ActiveLoop
<1>3. A \cap W = {}  BY DEF Good, GoodBut, Lists
<1>4. P = Range(t.active) \ A /\ G = A \ Range(t.active)  BY DEF Joined, Gone
<1> HIDE DEF P, G
<1>5. done \cap A = G  BY <1>2, <1>3, <1>4
<1>6. done \in SUBSET Listed(s) /\ P \in SUBSET Listed(s)  BY <1>2, <1>4 DEF Listed
<1>7. P \subseteq W \ done  BY <1>2, <1>3, <1>4
<1>8. Range(u.active) = (A \ done) \cup P  BY <1>1, <1>2, <1>3, <1>4
<1>9. Range(u.waiting) = W \ (done \cup P)  BY <1>1, <1>2, <1>3, <1>4
<1>10. done = {} => P = {}
  <2> SUFFICES ASSUME done = {} PROVE P = {}  OBVIOUS
  <2>1. G = {} /\ Cardinality({}) = 0  BY FS_EmptySet
  <2>2. IsFiniteSet(P)
    <3>1. t \in Handling /\ Lists(t)  BY <1>1 DEF Good, GoodBut
    <3>2. IsFiniteSet(Range(t.active))  BY <3>1, InjectiveLen, HandlingFields DEF Lists
    <3> QED  BY <1>4, <3>2, FS_Difference
  <2>3. Cardinality(P) \in Nat  BY <2>2, FS_CardinalityType
  <2>4. Cardinality(P) = 0  BY <1>2, <2>1, <2>3
  <2> QED  BY <2>2, <2>4, FS_EmptySet
<1>11. Cardinality(P) <= Cardinality(done \cap A)  BY <1>2, <1>5
<1>12. Held(s, u)
  <2>1. Held(s, t) /\ Held(t, u)  BY DEF ActiveLoop, WaitingLoop
  <2> QED  BY <2>1, HeldTrans
<1> HIDE DEF done
<1> QED  BY <1>1, <1>6, <1>7, <1>8, <1>9, <1>10, <1>11, <1>12 DEF Swept

-----------------------------------------------------------------------------
(***************************************************************************)
(* The inductive invariant, and every action.                               *)
(***************************************************************************)
RoundType == [datagrams : 0..2, ticked : BOOLEAN, dispatching : BOOLEAN]

Inv == Good(Here) /\ round \in RoundType /\ msgs \in 0..MaxMsgs

\* The pool takes a step, or none.
PoolStep == [Pool!Next]_(Pool!vars)

LEMMA HereFields ==
    /\ Here.active = active /\ Here.waiting = waiting /\ Here.size = size
    /\ Here.ent = ent /\ Here.events = events /\ Here.running = running
BY DEF Here

LEMMA BecomeGood ==
    ASSUME NEW s, Good(s), Become(s)
    PROVE  Good(Here)'
<1>1. s \in Handling /\ Lists(s) /\ Entries(s, {})  BY DEF Good, GoodBut
<1>2. /\ Here'.active = s.active /\ Here'.waiting = s.waiting /\ Here'.size = s.size
      /\ Here'.ent = s.ent
  BY DEF Become, Here
<1>3. Here' \in Handling  BY <1>1, HandlingFields DEF Become, Here, Handling
<1>4. Lists(Here)' /\ Entries(Here, {})'
  BY <1>1, <1>2 DEF Lists, Entries, Listed
<1> QED  BY <1>3, <1>4 DEF Good, GoodBut

LEMMA SamePool ==
    ASSUME NEW s, Become(s), SameLists(Here, s)
    PROVE  PoolStep
BY HereFields DEF Become, SameLists, PoolStep, Pool!vars

\* The pool counts as this module does.
LEMMA PoolCardinality == ASSUME NEW S PROVE Pool!Cardinality(S) = Cardinality(S)
BY DEF Pool!Cardinality, Cardinality

LEMMA ReceivedPool ==
    ASSUME Good(Here), NEW s, Become(s), NEW x \in Supp, Received(Here, s, x)
    PROVE  PoolStep
<1>1. Range(active)' = Range(s.active) /\ Range(waiting)' = Range(s.waiting)  BY DEF Become
<1>2. CASE SameLists(Here, s)  BY <1>2, SamePool
<1>3. CASE Admitted(Here, s, x)
  <2>1. Cardinality(Range(active)) = Len(active)
    <3>1. active \in Seq(Supp) /\ IsInjective(active)
      BY HereFields, HandlingFields DEF Good, GoodBut, Lists
    <3> QED  BY <3>1, InjectiveLen
  <2>2. Pool!Admit(x)  
    BY <1>1, <1>3, <2>1, HereFields, PoolCardinality DEF Admitted, Pool!Admit
  <2> QED  BY <2>2 DEF PoolStep, Pool!Next
<1>4. CASE Parked(Here, s, x)
  <2> DEFINE others == Range(waiting) \ {x}
  <2>1. /\ x \notin Range(active) /\ Range(s.active) = Range(active)
        /\ \E given \in SUBSET others :
              /\ Cardinality(given) = IF Cardinality(others) < WaitMax THEN 0 ELSE 1
              /\ Range(s.waiting) = (others \ given) \cup {x}
    BY <1>4, HereFields DEF Parked
  <2>2. PICK given \in SUBSET others :
           /\ Cardinality(given) = IF Cardinality(others) < WaitMax THEN 0 ELSE 1
           /\ Range(s.waiting) = (others \ given) \cup {x}
    BY <2>1
  <2>3. Pool!Park(x)
    <3>1. Pool!Cardinality(given) = Cardinality(given) /\ Pool!Cardinality(others) = Cardinality(others)
      BY PoolCardinality
    <3> QED  BY <1>1, <2>1, <2>2, <3>1 DEF Pool!Park
  <2> QED  BY <2>3 DEF PoolStep, Pool!Next
<1> QED  BY <1>2, <1>3, <1>4 DEF Received

LEMMA SweptPool ==
    ASSUME NEW s, Become(s), Swept(Here, s)
    PROVE  PoolStep
<1>1. Range(active)' = Range(s.active) /\ Range(waiting)' = Range(s.waiting)  BY DEF Become
<1>5. PICK done \in SUBSET Listed(Here), promoted \in SUBSET Listed(Here) :
         /\ promoted \subseteq Range(Here.waiting) \ done
         /\ Cardinality(promoted) <= Cardinality(done \cap Range(Here.active))
         /\ Range(s.active) = (Range(Here.active) \ done) \cup promoted
         /\ Range(s.waiting) = Range(Here.waiting) \ (done \cup promoted)
         /\ done = {} => promoted = {}
  BY DEF Swept
<1>6. Here.active = active /\ Here.waiting = waiting  BY HereFields
<1>2. /\ done \in SUBSET (Range(active) \cup Range(waiting))
      /\ promoted \in SUBSET (Range(active) \cup Range(waiting))
      /\ promoted \subseteq Range(waiting) \ done
      /\ Cardinality(promoted) <= Cardinality(done \cap Range(active))
      /\ Range(s.active) = (Range(active) \ done) \cup promoted
      /\ Range(s.waiting) = Range(waiting) \ (done \cup promoted)
      /\ done = {} => promoted = {}
  BY <1>5, <1>6 DEF Listed
<1>3. CASE done = {}
  <2>1. Range(s.active) = Range(active) /\ Range(s.waiting) = Range(waiting)  BY <1>2, <1>3
  <2> QED  BY <1>1, <2>1 DEF PoolStep, Pool!vars
<1>4. CASE done # {}
  <2>1. Pool!Leave(done, promoted)
    <3>1. Pool!Cardinality(promoted) <= Pool!Cardinality(done \cap Range(active))
      BY <1>2, PoolCardinality
    <3> QED  BY <1>1, <1>2, <1>4, <3>1 DEF Pool!Leave
  <2> QED  BY <1>2, <2>1 DEF PoolStep, Pool!Next
<1> QED  BY <1>3, <1>4

LEMMA ReceivedKept ==
    ASSUME NEW s, NEW t, NEW x, Received(s, t, x), NEW u, u.active = t.active,
           u.waiting = t.waiting
    PROVE  Received(s, u, x)
BY DEF Received, SameLists, Admitted, Parked

LEMMA SetNeed ==
    ASSUME NEW s, Good(s), NEW x \in Listed(s), NEW d \in Needs
    PROVE  LET t == [s EXCEPT !.ent[x].need = d]
           IN  /\ Good(t) /\ Listed(t) = Listed(s) /\ t.active = s.active /\ t.waiting = s.waiting
               /\ t.ent[x].kmps = s.ent[x].kmps /\ x \in Supp /\ t \in Handling
               /\ Single(t.ent[x]) /\ OnlyEntry(s, t, x) /\ t.events = s.events
<1> DEFINE e == [s.ent[x] EXCEPT !.need = d]
           u == [s EXCEPT !.ent[x] = e]
           t == [s EXCEPT !.ent[x].need = d]
<1>1. s \in Handling /\ Entries(s, {})  BY DEF Good, GoodBut
<1>2. x \in Supp  BY <1>1, HandlingFields DEF Listed
<1>3. s.ent[x] \in FiniteEntry /\ Single(s.ent[x])  BY <1>1, <1>2, HandlingFields DEF Entries
<1>4. e \in FiniteEntry /\ e.kmps = s.ent[x].kmps  BY <1>3 DEF FiniteEntry, Entry
<1>5. t = u  BY <1>1 DEF Handling
<1> HIDE DEF e
<1>6. u \in Handling /\ OnlyEntry(s, u, x) /\ u.ent[x] = e /\ u.events = s.events
  BY <1>1, <1>2, <1>4, SetEntry
<1> HIDE DEF u, t
<1>7. Single(u.ent[x])  BY <1>3, <1>4, <1>6 DEF Single
<1>8. Good(u) /\ Listed(u) = Listed(s)  BY <1>6, <1>7, OnlyEntryGood
<1> QED  BY <1>2, <1>4, <1>5, <1>6, <1>7, <1>8 DEF OnlyEntry, t

LEMMA DatagramStep ==
    ASSUME Inv, NEW s, Good(s), Datagram(s)
    PROVE  Inv'
<1>1. Good(Here)'  BY BecomeGood DEF Datagram
<1>2. msgs' \in 0..MaxMsgs  BY Assumed DEF Inv, Datagram
<1>3. round' \in RoundType
  <2>1. CASE s.events = <<>>  BY <2>1 DEF Datagram, Calm, RoundType
  <2>2. CASE s.events # <<>>
    <3>1. round' = [round EXCEPT !.datagrams = @ + 1] /\ round.datagrams < 2
      BY <2>2 DEF Datagram
    <3>2. round.datagrams + 1 \in 0..2  BY <3>1 DEF Inv, RoundType
    <3> QED  BY <3>1, <3>2 DEF Inv, RoundType
  <2> QED  BY <2>1, <2>2
<1> QED  BY <1>1, <1>2, <1>3 DEF Inv

LEMMA InitialKeyStep ==
    ASSUME Inv, NEW x \in Supp, NEW need \in Needs, NEW chance \in BOOLEAN,
           InitialKey(x, need, chance)
    PROVE  Inv' /\ PoolStep
<1> DEFINE s1 == Placed(Here, x, chance)
           wiped == IF OfType(s1, x, "MKA") = {} THEN {}
                    ELSE OfType(s1, x, "MKA") \cup OfType(s1, x, "TLS")
           d == [s1 EXCEPT !.ent[x].need = need]
           s2 == Delete(d, x, wiped)
           t == CreateAndPost(s2, x, "KEY")
<1>1. Datagram(t)  BY DEF InitialKey
<1>2. Good(s1) /\ x \in Listed(s1) /\ Received(Here, s1, x)  BY PlacedFacts DEF Inv
<1> HIDE DEF s1, wiped
<1>3. /\ Good(d) /\ x \in Listed(d) /\ d.active = s1.active /\ d.waiting = s1.waiting
      /\ d \in Handling /\ Single(d.ent[x])
  BY <1>2, SetNeed
<1> HIDE DEF d
<1>4. s2 \in Handling /\ OnlyEntry(d, s2, x) /\ Single(s2.ent[x])  BY <1>3, DeleteFacts
<1> HIDE DEF s2
<1>5. Good(s2) /\ x \in Listed(s2)  BY <1>3, <1>4, OnlyEntryGood
<1>6. t \in Handling /\ OnlyEntry(s2, t, x) /\ Single(t.ent[x])
  <2> DEFINE ty == "KEY"
             v == CreateAndPost(s2, x, ty)
  <2>1. ty \in Types /\ ty \notin Once  BY DEF Types, Once
  <2> HIDE DEF ty
  <2>2. v \in Handling /\ OnlyEntry(s2, v, x) /\ Single(v.ent[x])
    BY <1>4, <2>1, CreateAndPostFacts
  <2> QED  BY <2>2 DEF ty
<1> HIDE DEF t
<1>7. Good(t)  BY <1>5, <1>6, OnlyEntryGood
<1>8. t.active = s1.active /\ t.waiting = s1.waiting  BY <1>3, <1>4, <1>6 DEF OnlyEntry
<1>9. Received(Here, t, x)  BY <1>2, <1>8, ReceivedKept
<1>10. Become(t)  BY <1>1 DEF Datagram
<1> QED  BY <1>1, <1>7, <1>9, <1>10, DatagramStep, ReceivedPool DEF Inv

LEMMA LastMessageStep ==
    ASSUME Inv, NEW x \in Supp, NEW need \in Needs, NEW k \in ent[x].kmps,
           LastMessage(x, k, need)
    PROVE  Inv' /\ PoolStep
<1> DEFINE b == FALSE
           s1 == Placed(Here, x, b)
           half == IF k.type = "MKA" THEN OfType(s1, x, "TLS") ELSE {}
           ks == {k} \cup half
           d == [s1 EXCEPT !.ent[x].need = need]
           t == Finished(d, x, ks)
<1>1. Datagram(t)  BY DEF LastMessage
<1>2. b \in BOOLEAN  OBVIOUS
<1> HIDE DEF b
<1>3. Good(s1) /\ x \in Listed(s1) /\ s1.ent[x].kmps = ent[x].kmps /\ Received(Here, s1, x)
  BY <1>2, PlacedFacts, HereFields DEF Inv
<1> HIDE DEF s1
<1>4. ks \in SUBSET s1.ent[x].kmps  BY <1>3 DEF OfType
<1> HIDE DEF ks
<1>5. /\ Good(d) /\ x \in Listed(d) /\ d.active = s1.active /\ d.waiting = s1.waiting
      /\ d.ent[x].kmps = s1.ent[x].kmps
  <2>1. Good(s1) /\ x \in Listed(s1)  BY <1>3
  <2>2. /\ Good(d) /\ Listed(d) = Listed(s1) /\ d.active = s1.active /\ d.waiting = s1.waiting
        /\ d.ent[x].kmps = s1.ent[x].kmps /\ x \in Supp /\ d \in Handling
        /\ Single(d.ent[x])
    BY <2>1, SetNeed
  <2> QED  BY <2>1, <2>2
<1> HIDE DEF d
<1>6. Good(t) /\ t.active = d.active /\ t.waiting = d.waiting  BY <1>4, <1>5, FinishedFacts
<1> HIDE DEF t
<1>7. Received(Here, t, x)  BY <1>3, <1>5, <1>6, ReceivedKept
<1>8. Become(t)  BY <1>1 DEF Datagram
<1> QED  BY <1>1, <1>6, <1>7, <1>8, DatagramStep, ReceivedPool DEF Inv

LEMMA OtherMessageStep ==
    ASSUME Inv, NEW x \in Supp, NEW type, NEW chance \in BOOLEAN, OtherMessage(x, type, chance)
    PROVE  Inv' /\ PoolStep
<1> DEFINE s1 == Placed(Here, x, chance)
           r == [s1 EXCEPT !.running = TRUE]
           t == IF OfType(s1, x, type) = {} /\ type # "4WH" THEN r ELSE s1
<1>1. Datagram(t)  BY DEF OtherMessage
<1>2. Good(s1) /\ Received(Here, s1, x)  BY PlacedFacts DEF Inv
<1> HIDE DEF s1
<1>3. /\ r \in Handling /\ r.active = s1.active /\ r.waiting = s1.waiting /\ r.size = s1.size
      /\ r.ent = s1.ent
  BY <1>2 DEF Good, GoodBut, Handling
<1> HIDE DEF r
<1>4. Good(r)  BY <1>2, <1>3 DEF Good, GoodBut, Lists, Entries, Listed
<1>5. t = r \/ t = s1  OBVIOUS
<1> HIDE DEF t
<1>6. Good(t) /\ t.active = s1.active /\ t.waiting = s1.waiting  BY <1>2, <1>3, <1>4, <1>5
<1>7. Received(Here, t, x)  BY <1>2, <1>6, ReceivedKept
<1>8. Become(t)  BY <1>1 DEF Datagram
<1> QED  BY <1>1, <1>6, <1>7, <1>8, DatagramStep, ReceivedPool DEF Inv

LEMMA DispatchStep ==
    ASSUME Inv, Dispatch
    PROVE  Inv' /\ PoolStep
<1> DEFINE s == [Here EXCEPT !.events = Tail(@)]
           v == Head(events)
           x == CHOOSE x \in Owners(v) : TRUE
           k == CHOOSE k \in ent[x].kmps : k.id = v.id
           d == Dispatched(s, x, k)
           s1 == IF Owners(v) = {} THEN s ELSE d
<1>1. /\ events # <<>> /\ Become(s1) /\ msgs' = msgs
      /\ round' = IF s1.events = <<>> THEN Calm ELSE [round EXCEPT !.dispatching = TRUE]
  BY DEF Dispatch
<1>2. Good(s) /\ s.active = active /\ s.waiting = waiting /\ s.ent = ent
  <2>1. Here \in Handling /\ Lists(Here) /\ Entries(Here, {})  BY DEF Inv, Good, GoodBut
  <2>2. events \in Seq(Event)  BY <2>1, HandlingFields, HereFields
  <2>3. Tail(events) \in Seq(Event)  BY <1>1, <2>2
  <2>4. s \in Handling  BY <2>1, <2>3, HereFields DEF Handling
  <2>5. s.active = active /\ s.waiting = waiting /\ s.size = size /\ s.ent = ent
    BY DEF Here
  <2> HIDE DEF s
  <2> QED  BY <2>1, <2>4, <2>5, HereFields DEF Good, GoodBut, Lists, Entries, Listed
<1>3. Owners(v) # {} => x \in Supp /\ k \in ent[x].kmps
  <2> SUFFICES ASSUME Owners(v) # {} PROVE x \in Supp /\ k \in ent[x].kmps  OBVIOUS
  <2>1. x \in Owners(v)  OBVIOUS
  <2> HIDE DEF x
  <2>2. x \in Supp /\ \E j \in ent[x].kmps : j.id = v.id  BY <2>1 DEF Owners
  <2> QED  BY <2>2
<1> HIDE DEF s, v, x, k
<1>4. Good(s1) /\ s1.active = active /\ s1.waiting = waiting
  <2>1. CASE Owners(v) = {}
    <3>1. s1 = s  BY <2>1
    <3> HIDE DEF s1
    <3> QED  BY <1>2, <3>1
  <2>2. CASE Owners(v) # {}
    <3>1. s1 = d  BY <2>2
    <3>2. Good(d) /\ d.active = s.active /\ d.waiting = s.waiting
      BY <1>2, <1>3, <2>2, DispatchedFacts
    <3> HIDE DEF s1, d
    <3> QED  BY <1>2, <3>1, <3>2
  <2> QED  BY <2>1, <2>2
<1> HIDE DEF s1
<1>5. round' \in RoundType
  <2>1. CASE s1.events = <<>>  BY <1>1, <2>1 DEF Calm, RoundType
  <2>2. CASE s1.events # <<>>
    <3>1. round' = [round EXCEPT !.dispatching = TRUE]  BY <1>1, <2>2
    <3> QED  BY <3>1 DEF Inv, RoundType
  <2> QED  BY <2>1, <2>2
<1>6. Inv'  BY <1>1, <1>4, <1>5, BecomeGood DEF Inv
<1>7. SameLists(Here, s1)  BY <1>4, HereFields DEF SameLists
<1> QED  BY <1>1, <1>6, <1>7, SamePool

LEMMA UseAfterFreeStep ==
    ASSUME Inv, UseAfterFree
    PROVE  Inv' /\ PoolStep
<1> DEFINE e == [y \in Supp |-> NoEntry]
           s == [active |-> <<>>, waiting |-> <<>>, size |-> 0, ent |-> e, events |-> <<>>,
                 running |-> FALSE]
<1>1. Become(s)  BY DEF UseAfterFree, Become
<1>2. Good(s)
  <2>1. e \in [Supp -> FiniteEntry] /\ \A y \in Supp : e[y] = NoEntry /\ Single(e[y])
    BY NoEntryType
  <2>2. s \in Handling
    <3>1. <<>> \in Seq(Supp) /\ <<>> \in Seq(Event)  OBVIOUS
    <3> HIDE DEF e
    <3> QED  BY <2>1, <3>1 DEF Handling
  <2> HIDE DEF e
  <2>3. Range(<<>>) = {}  BY DEF Range
  <2>4. IsInjective(<<>>) /\ Len(<<>>) = 0  BY DEF IsInjective
  <2>5. Lists(s)  BY <2>3, <2>4, Assumed DEF Lists
  <2>6. Entries(s, {})  BY <2>1 DEF Entries
  <2> QED  BY <2>2, <2>5, <2>6 DEF Good, GoodBut
<1>3. Inv'
  <2>1. round' = Calm /\ msgs' = msgs  BY DEF UseAfterFree
  <2>2. round' \in RoundType  BY <2>1 DEF Calm, RoundType
  <2> HIDE DEF s
  <2> QED  BY <1>1, <1>2, <2>1, <2>2, BecomeGood DEF Inv
<1>4. PoolStep
  <2>1. Range(<<>>) = {}  BY DEF Range
  <2>2. Pool!Restart  BY <2>1 DEF UseAfterFree, Pool!Restart
  <2> QED  BY <2>2 DEF PoolStep, Pool!Next
<1> QED  BY <1>3, <1>4

LEMMA TickStep ==
    ASSUME Inv, NEW chances, FastTimer(chances)
    PROVE  Inv' /\ PoolStep
<1> DEFINE s1 == ActiveTick(Here, active, chances)
           s2 == WaitingTick(s1, s1.waiting)
           keep == \/ \E x \in Range(active) : KeepsRunning(ent[x])
                   \/ \E x \in Range(s1.waiting) : KeepsRunning(s1.ent[x])
           t == [s2 EXCEPT !.running = @ /\ keep]
<1>1. Become(t) /\ round' = RoundTimed(t) /\ msgs' = msgs  BY DEF FastTimer, Timed
<1>2. Good(Here)  BY DEF Inv
<1>3. ActiveLoop(Here, s1, Len(Here.active))
  <2>1. Here.active = active  BY HereFields
  <2>2. ActiveLoop(Here, ActiveTick(Here, Here.active, chances), Len(Here.active))
    BY <1>2, ActiveTickFacts
  <2> QED  BY <2>1, <2>2
<1> HIDE DEF s1
<1>4. WaitingLoop(s1, s2, Len(s1.waiting))
  <2>1. Good(s1)  BY <1>3 DEF ActiveLoop
  <2> QED  BY <2>1, WaitingTickFacts
<1> HIDE DEF s2, keep
<1>5. Good(s2) /\ Swept(Here, s2)  BY <1>2, <1>3, <1>4, SweptFacts
<1>6. /\ t.active = s2.active /\ t.waiting = s2.waiting /\ t.size = s2.size
      /\ t.ent = s2.ent /\ t \in Handling
  <2>1. s2 \in Handling  BY <1>5 DEF Good, GoodBut
  <2>2. (s2.running /\ keep) \in BOOLEAN  OBVIOUS
  <2>3. t = [s2 EXCEPT !.running = (s2.running /\ keep)]  OBVIOUS
  <2> QED  BY <2>1, <2>2, <2>3 DEF Handling
<1> HIDE DEF t
<1>7. Good(t)  BY <1>5, <1>6 DEF Good, GoodBut, Lists, Entries, Listed
<1>8. Swept(Here, t)  BY <1>5, <1>6 DEF Swept
<1>9. round' \in RoundType  BY <1>1 DEF RoundTimed, Calm, RoundType
<1>10. Inv'  BY <1>1, <1>7, <1>9, BecomeGood DEF Inv
<1> QED  BY <1>1, <1>8, <1>10, SweptPool

LEMMA InitInv ==
    ASSUME Init
    PROVE  Inv
<1> DEFINE e == [y \in Supp |-> NoEntry]
<1>1. /\ Here.active = <<>> /\ Here.waiting = <<>> /\ Here.size = 0 /\ Here.ent = e
      /\ Here.events = <<>> /\ Here.running = FALSE
  BY DEF Init, Here
<1>2. e \in [Supp -> FiniteEntry] /\ \A y \in Supp : e[y] = NoEntry /\ Single(e[y])
  BY NoEntryType
<1>3. <<>> \in Seq(Supp) /\ <<>> \in Seq(Event)  OBVIOUS
<1>4. Here \in Handling
  <2>3. active = <<>> /\ waiting = <<>> /\ size = 0 /\ events = <<>> /\ ~running /\ ent = e
    BY DEF Init
  <2>4. running \in BOOLEAN  BY DEF Init
  <2>1. /\ active \in Seq(Supp) /\ waiting \in Seq(Supp) /\ size \in Int /\ ent = e
        /\ events \in Seq(Event) /\ running \in BOOLEAN
    <3> HIDE DEF e
    <3> QED  BY <1>3, <2>3, <2>4
  <2> HIDE DEF e
  <2>2. ent \in [Supp -> FiniteEntry]  BY <1>2, <2>1
  <2> QED  BY <2>1, <2>2 DEF Here, Handling
<1> HIDE DEF e
<1>5. Range(<<>>) = {}  BY DEF Range
<1>6. IsInjective(<<>>) /\ Len(<<>>) = 0  BY DEF IsInjective
<1>7. Lists(Here)  BY <1>1, <1>5, <1>6, Assumed DEF Lists
<1>8. Entries(Here, {})  BY <1>1, <1>2 DEF Entries
<1>9. round \in RoundType /\ msgs \in 0..MaxMsgs  BY Assumed DEF Init, Calm, RoundType
<1> QED  BY <1>4, <1>7, <1>8, <1>9 DEF Inv, Good, GoodBut

LEMMA NextInv ==
    ASSUME Inv, Next
    PROVE  Inv' /\ PoolStep
<1>1. CASE \E x \in Supp, need \in Needs, chance \in BOOLEAN : InitialKey(x, need, chance)
  BY <1>1, InitialKeyStep
<1>2. CASE \E x \in Supp, need \in Needs : \E k \in ent[x].kmps : LastMessage(x, k, need)
  BY <1>2, LastMessageStep
<1>3. CASE \E x \in Supp, type \in {"MKA", "4WH", "GKH"}, chance \in BOOLEAN :
              OtherMessage(x, type, chance)
  BY <1>3, OtherMessageStep
<1>4. CASE Dispatch  BY <1>4, DispatchStep
<1>5. CASE UseAfterFree  BY <1>5, UseAfterFreeStep
<1>6. CASE Tick  BY <1>6, TickStep DEF Tick
<1> QED  BY <1>1, <1>2, <1>3, <1>4, <1>5, <1>6 DEF Next

LEMMA StutterInv ==
    ASSUME Inv, UNCHANGED vars
    PROVE  Inv' /\ PoolStep
<1>1. Inv'
  <2>1. Become(Here)  BY HereFields DEF Become, vars
  <2>2. Good(Here)'  BY <2>1, BecomeGood DEF Inv
  <2> QED  BY <2>2 DEF Inv, vars
<1>2. PoolStep  BY DEF PoolStep, Pool!vars, vars
<1> QED  BY <1>1, <1>2

-----------------------------------------------------------------------------
(***************************************************************************)
(* KeyHeard.  Until the second datagram, or the dispatch, the owner of a    *)
(* KEY event is active or the newest that waits; then its instance can no   *)
(* longer be deleted before the event is dispatched.                        *)
(***************************************************************************)
HasKey(s, v, x) == \E k \in s.ent[x].kmps : k.id = v.id /\ IsPostedKey(k)

Heard(s, v, settled) == \E x \in Supp : HasKey(s, v, x) /\ (settled => Safe(s, x))

AllHeard(s, settled) == \A v \in Range(s.events) : v.type = "KEY" => Heard(s, v, settled)

Settled == ~round.dispatching /\ round.datagrams < 2

KeyInv ==
    /\ Distinct(Here) /\ AllHeard(Here, Settled)
    /\ events # <<>> => round.datagrams >= 1

LEMMA BecomeKeys ==
    ASSUME NEW s, Become(s), Distinct(s), AllHeard(s, Settled'),
           s.events # <<>> => round'.datagrams >= 1
    PROVE  KeyInv'
<1>1. /\ Here'.active = s.active /\ Here'.waiting = s.waiting /\ Here'.ent = s.ent
      /\ Here'.events = s.events
  BY DEF Become, Here
<1>2. Distinct(Here)'  BY <1>1 DEF Distinct
<1>3. AllHeard(Here, Settled)'  BY <1>1 DEF AllHeard, Heard, HasKey, Safe
<1>4. events' = s.events  BY DEF Become
<1> QED  BY <1>2, <1>3, <1>4 DEF KeyInv

\* What a datagram leaves: the instances of those that keep their place.
Spares(s, t) == \A y \in Supp : Safe(s, y) => Kept(s, t, y)

LEMMA KeptKey ==
    ASSUME NEW s, NEW t, NEW x, NEW v, HasKey(s, v, x), Kept(s, t, x)
    PROVE  HasKey(t, v, x)
BY DEF HasKey, Kept

\* A datagram's own event is heard; with an earlier event at hand it is the
\* second datagram.
LEMMA DatagramKeys ==
    ASSUME Inv, KeyInv, NEW t, Datagram(t), Distinct(t), Spares(Here, t),
           \A v \in Range(t.events) : v.type = "KEY" => v \in Range(events) \/ Heard(t, v, TRUE)
    PROVE  KeyInv'
<1>1. Become(t) /\ Settled  BY DEF Datagram, Settled
<1>2. round.datagrams \in 0..2  BY DEF Inv, RoundType
<1>3. t.events # <<>> => round'.datagrams = round.datagrams + 1
  BY DEF Datagram, Inv, RoundType
<1>4. t.events # <<>> => round'.datagrams >= 1  BY <1>2, <1>3
<1>5. AllHeard(t, Settled')
  <2> SUFFICES ASSUME NEW v \in Range(t.events), v.type = "KEY" PROVE Heard(t, v, Settled')
    BY DEF AllHeard
  <2>1. CASE Heard(t, v, TRUE)  BY <2>1 DEF Heard
  <2>2. CASE v \in Range(events)
    <3>1. PICK x \in Supp : HasKey(Here, v, x) /\ Safe(Here, x)
      BY <1>1, <2>2, HereFields DEF KeyInv, AllHeard, Heard
    <3>2. HasKey(t, v, x)  BY <3>1, KeptKey DEF Spares
    <3>3. events # <<>> /\ t.events # <<>>
      <4>1. Range(<<>>) = {}  BY DEF Range
      <4> QED  BY <2>2, <4>1
    <3>4. ~Settled'  BY <1>2, <1>3, <3>3 DEF KeyInv, Settled
    <3> QED  BY <3>2, <3>4 DEF Heard
  <2> QED  BY <2>1, <2>2
<1> QED  BY <1>1, <1>4, <1>5, BecomeKeys

LEMMA InitialKeyKeys ==
    ASSUME Inv, KeyInv, NEW x \in Supp, NEW need \in Needs, NEW chance \in BOOLEAN,
           InitialKey(x, need, chance)
    PROVE  KeyInv'
<1> DEFINE s1 == Placed(Here, x, chance)
           wiped == IF OfType(s1, x, "MKA") = {} THEN {}
                    ELSE OfType(s1, x, "MKA") \cup OfType(s1, x, "TLS")
           d == [s1 EXCEPT !.ent[x].need = need]
           s2 == Delete(d, x, wiped)
           key == "KEY"
           t == CreateAndPost(s2, x, key)
           v == [id |-> NewId(s2), type |-> key]
<1>1. Datagram(t)  BY DEF InitialKey
<1>2. Good(s1) /\ x \in Listed(s1)  BY PlacedFacts DEF Inv
<1>3. /\ s1.events = Here.events /\ Safe(s1, x)
      /\ \A y \in Supp : Safe(Here, y) => s1.ent[y].kmps = Here.ent[y].kmps
  BY PlacedKept DEF Inv
<1>4. \A k \in wiped : k.type # "KEY"  BY DEF OfType
<1>5. key \in Types /\ key = "KEY"  BY DEF Types
<1> HIDE DEF s1, wiped, key
<1>6. /\ d \in Handling /\ OnlyEntry(s1, d, x) /\ d.ent[x].kmps = s1.ent[x].kmps
      /\ d.events = s1.events
  BY <1>2, SetNeed
<1> HIDE DEF d
<1>7. s2 \in Handling /\ OnlyEntry(d, s2, x)  BY <1>6, DeleteFacts
<1>8. Kept(d, s2, x) /\ s2.events = d.events  BY <1>4, <1>6, DeleteKept
<1> HIDE DEF s2
<1>9. OnlyEntry(s2, t, x)  BY <1>5, <1>7, CreateAndPostFacts
<1>10. /\ Kept(s2, t, x) /\ (Distinct(s2) => Distinct(t))
       /\ Range(t.events) = Range(s2.events) \cup {v}
       /\ \E k \in t.ent[x].kmps : k.id = v.id /\ k.type = key /\ k.st = "posted"
  BY <1>5, <1>7, CreateAndPostKept
<1> HIDE DEF t, v
<1>11. Distinct(t)  BY <1>3, <1>6, <1>8, <1>10 DEF KeyInv, Distinct
<1>12. Safe(t, x)  BY <1>3, <1>6, <1>7, <1>9 DEF Safe, OnlyEntry
<1>13. HasKey(t, v, x)  BY <1>5, <1>10 DEF HasKey, IsPostedKey
<1>14. Heard(t, v, TRUE)  BY <1>12, <1>13 DEF Heard
<1>15. Kept(d, t, x)  BY <1>8, <1>10, KeptTrans
<1>16. \A y \in Supp \ {x} : t.ent[y] = s1.ent[y]  BY <1>6, <1>7, <1>9 DEF OnlyEntry
<1>17. Spares(Here, t)
  <2> SUFFICES ASSUME NEW y \in Supp, Safe(Here, y) PROVE Kept(Here, t, y)  BY DEF Spares
  <2>1. s1.ent[y].kmps = Here.ent[y].kmps  BY <1>3
  <2>2. CASE y = x  BY <1>6, <1>15, <2>1, <2>2 DEF Kept
  <2>3. CASE y # x  BY <1>16, <2>1, <2>3 DEF Kept
  <2> QED  BY <2>2, <2>3
<1>18. Range(t.events) = Range(events) \cup {v}  BY <1>3, <1>6, <1>8, <1>10, HereFields
<1>19. \A w \in Range(t.events) : w.type = "KEY" => w \in Range(events) \/ Heard(t, w, TRUE)
  BY <1>14, <1>18
<1> QED  BY <1>1, <1>11, <1>17, <1>19, DatagramKeys

LEMMA LastMessageKeys ==
    ASSUME Inv, KeyInv, NEW x \in Supp, NEW need \in Needs, NEW k \in ent[x].kmps,
           LastMessage(x, k, need)
    PROVE  KeyInv'
<1> DEFINE b == FALSE
           s1 == Placed(Here, x, b)
           half == IF k.type = "MKA" THEN OfType(s1, x, "TLS") ELSE {}
           ks == {k} \cup half
           d == [s1 EXCEPT !.ent[x].need = need]
           t == Finished(d, x, ks)
<1>1. Datagram(t) /\ k.type # "KEY"  BY DEF LastMessage
<1>2. b \in BOOLEAN  OBVIOUS
<1> HIDE DEF b
<1>3. Good(s1) /\ x \in Listed(s1) /\ s1.ent[x].kmps = ent[x].kmps
  BY <1>2, PlacedFacts, HereFields DEF Inv
<1>4. /\ s1.events = Here.events
      /\ \A y \in Supp : Safe(Here, y) => s1.ent[y].kmps = Here.ent[y].kmps
  BY <1>2, PlacedKept DEF Inv
<1> HIDE DEF s1
<1>5. ks \in SUBSET s1.ent[x].kmps /\ \A j \in ks : j.type # "KEY"  BY <1>1, <1>3 DEF OfType
<1> HIDE DEF ks
<1>6. /\ Good(d) /\ Listed(d) = Listed(s1) /\ d.ent[x].kmps = s1.ent[x].kmps
      /\ OnlyEntry(s1, d, x) /\ d.events = s1.events
  BY <1>3, SetNeed
<1> HIDE DEF d
<1>7. KeptBut(d, t, x, ks) /\ Posts(d, t) /\ \A y \in Supp \ {x} : t.ent[y] = d.ent[y]
  <2>1. x \in Listed(d) /\ ks \in SUBSET d.ent[x].kmps  BY <1>3, <1>5, <1>6
  <2> QED  BY <1>6, <2>1, FinishedKept
<1> HIDE DEF t
<1>8. Kept(d, t, x)  BY <1>5, <1>7 DEF KeptBut, Kept, IsPostedKey
<1>9. Spares(Here, t)
  <2> SUFFICES ASSUME NEW y \in Supp, Safe(Here, y) PROVE Kept(Here, t, y)  BY DEF Spares
  <2>1. s1.ent[y].kmps = Here.ent[y].kmps  BY <1>4
  <2>2. CASE y = x  BY <1>6, <1>8, <2>1, <2>2 DEF Kept
  <2>3. CASE y # x  BY <1>6, <1>7, <2>1, <2>3 DEF Kept, OnlyEntry
  <2> QED  BY <2>2, <2>3
<1>10. d.events = events  BY <1>4, <1>6, HereFields
<1>11. Distinct(t)  BY <1>7, <1>10, HereFields DEF KeyInv, Distinct, Posts
<1>12. \A w \in Range(t.events) : w.type = "KEY" => w \in Range(events)
  BY <1>7, <1>10 DEF Posts
<1> QED  BY <1>1, <1>9, <1>11, <1>12, DatagramKeys

LEMMA OtherMessageKeys ==
    ASSUME Inv, KeyInv, NEW x \in Supp, NEW type, NEW chance \in BOOLEAN,
           OtherMessage(x, type, chance)
    PROVE  KeyInv'
<1> DEFINE s1 == Placed(Here, x, chance)
           r == [s1 EXCEPT !.running = TRUE]
           t == IF OfType(s1, x, type) = {} /\ type # "4WH" THEN r ELSE s1
<1>1. Datagram(t)  BY DEF OtherMessage
<1>2. s1 \in Handling
  <2>1. Good(s1)  BY PlacedFacts DEF Inv
  <2> QED  BY <2>1 DEF Good, GoodBut
<1>3. /\ s1.events = Here.events
      /\ \A y \in Supp : Safe(Here, y) => s1.ent[y].kmps = Here.ent[y].kmps
  BY PlacedKept DEF Inv
<1> HIDE DEF s1
<1>4. r.ent = s1.ent /\ r.events = s1.events  BY <1>2 DEF Handling
<1> HIDE DEF r
<1>5. t = r \/ t = s1  OBVIOUS
<1> HIDE DEF t
<1>6. t.ent = s1.ent /\ t.events = events  BY <1>3, <1>4, <1>5, HereFields
<1>7. Spares(Here, t)  BY <1>3, <1>6 DEF Spares, Kept
<1>8. Distinct(t)  BY <1>6, HereFields DEF KeyInv, Distinct
<1> QED  BY <1>1, <1>6, <1>7, <1>8, DatagramKeys

LEMMA TailEvents ==
    ASSUME NEW q \in Seq(Event), q # <<>>,
           \A i, j \in 1..Len(q) : q[i].id = q[j].id => i = j
    PROVE  LET r == Tail(q)
           IN  /\ \A i, j \in 1..Len(r) : r[i].id = r[j].id => i = j
               /\ \A v \in Range(r) : v \in Range(q) /\ v.id # Head(q).id
<1> DEFINE r == Tail(q)
           n == Len(q)
<1>1. n \in Nat /\ n >= 1 /\ r \in Seq(Event) /\ Len(r) = n - 1 /\ Head(q) = q[1]  OBVIOUS
<1>2. \A i \in 1..Len(r) : r[i] = q[i + 1]  OBVIOUS
<1>3. DOMAIN r = 1..Len(r) /\ DOMAIN q = 1..n  OBVIOUS
<1>4. \A i \in 1..(n - 1) : i + 1 \in 1..n /\ i + 1 # 1  BY <1>1
<1>5. 1 \in 1..n  BY <1>1
<1> HIDE DEF r, n
<1>6. \A i, j \in 1..Len(r) : r[i].id = r[j].id => i = j
  <2> SUFFICES ASSUME NEW i \in 1..(n - 1), NEW j \in 1..(n - 1), r[i].id = r[j].id PROVE i = j
    BY <1>1
  <2>1. q[i + 1].id = q[j + 1].id /\ i + 1 \in 1..n /\ j + 1 \in 1..n  BY <1>1, <1>2, <1>4
  <2>2. i + 1 = j + 1  BY <2>1 DEF n
  <2> QED  BY <1>1, <2>2
<1>7. ASSUME NEW v \in Range(r) PROVE v \in Range(q) /\ v.id # Head(q).id
  <2>1. PICK i \in 1..(n - 1) : v = r[i]  BY <1>1, <1>3 DEF Range
  <2>2. v = q[i + 1] /\ i + 1 \in 1..n /\ i + 1 # 1  BY <1>1, <1>2, <1>4, <2>1
  <2>3. v \in Range(q)  BY <1>3, <2>2 DEF Range
  <2>4. v.id # q[1].id  BY <1>5, <2>2 DEF n
  <2> QED  BY <1>1, <2>3, <2>4
<1> QED  BY <1>6, <1>7 DEF r

LEMMA DispatchKeys ==
    ASSUME Inv, KeyInv, Dispatch
    PROVE  KeyInv'
<1> DEFINE s == [Here EXCEPT !.events = Tail(@)]
           v == Head(events)
           x == CHOOSE x \in Owners(v) : TRUE
           k == CHOOSE k \in ent[x].kmps : k.id = v.id
           d == Dispatched(s, x, k)
           s1 == IF Owners(v) = {} THEN s ELSE d
<1>1. /\ events # <<>> /\ Become(s1)
      /\ round' = IF s1.events = <<>> THEN Calm ELSE [round EXCEPT !.dispatching = TRUE]
  BY DEF Dispatch
<1>2. events \in Seq(Event) /\ Here \in Handling
  <2>1. Here \in Handling  BY DEF Inv, Good, GoodBut
  <2> QED  BY <2>1, HandlingFields, HereFields
<1>3. Good(s) /\ s.ent = ent /\ s.events = Tail(events)
  <2>1. Here \in Handling /\ Lists(Here) /\ Entries(Here, {})  BY DEF Inv, Good, GoodBut
  <2>3. Tail(events) \in Seq(Event)  BY <1>1, <1>2
  <2>4. s \in Handling  BY <2>1, <2>3, HereFields DEF Handling
  <2>5. /\ s.active = active /\ s.waiting = waiting /\ s.size = size /\ s.ent = ent
        /\ s.events = Tail(events)
    BY DEF Here
  <2> HIDE DEF s
  <2> QED  BY <2>1, <2>4, <2>5, HereFields DEF Good, GoodBut, Lists, Entries, Listed
<1>4. Owners(v) # {} => x \in Supp /\ k \in ent[x].kmps /\ k.id = v.id
  <2> SUFFICES ASSUME Owners(v) # {} PROVE x \in Supp /\ k \in ent[x].kmps /\ k.id = v.id
    OBVIOUS
  <2>1. x \in Owners(v)  OBVIOUS
  <2> HIDE DEF x
  <2>2. x \in Supp /\ \E j \in ent[x].kmps : j.id = v.id  BY <2>1 DEF Owners
  <2> QED  BY <2>2
<1>5. Distinct(s) /\ \A w \in Range(s.events) : w \in Range(events) /\ w.id # v.id
  <2>1. \A i, j \in 1..Len(events) : events[i].id = events[j].id => i = j
    BY HereFields DEF KeyInv, Distinct
  <2>2. LET r == Tail(events)
        IN  /\ \A i, j \in 1..Len(r) : r[i].id = r[j].id => i = j
            /\ \A w \in Range(r) : w \in Range(events) /\ w.id # v.id
    BY <1>1, <1>2, <2>1, TailEvents
  <2> HIDE DEF s, v
  <2> QED  BY <1>3, <2>2 DEF Distinct
<1> HIDE DEF s, v, x, k
<1>6. \A w \in Range(s.events) : w.type = "KEY" => Heard(s, w, FALSE)
  <2> SUFFICES ASSUME NEW w \in Range(s.events), w.type = "KEY" PROVE Heard(s, w, FALSE)
    OBVIOUS
  <2>1. PICK y \in Supp : HasKey(Here, w, y)
    BY <1>5, HereFields DEF KeyInv, AllHeard, Heard
  <2>2. HasKey(s, w, y)  BY <1>3, <2>1, HereFields DEF HasKey
  <2> QED  BY <2>2 DEF Heard
<1>7. Distinct(s1) /\ AllHeard(s1, FALSE)
  <2>1. CASE Owners(v) = {}
    <3>1. s1 = s  BY <2>1
    <3> HIDE DEF s1
    <3> QED  BY <1>5, <1>6, <3>1 DEF AllHeard
  <2>2. CASE Owners(v) # {}
    <3>1. s1 = d  BY <2>2
    <3>2. x \in Supp /\ k \in s.ent[x].kmps /\ k.id = v.id  BY <1>3, <1>4, <2>2
    <3>3. KeptBut(s, d, x, {k}) /\ Posts(s, d) /\ \A y \in Supp \ {x} : d.ent[y] = s.ent[y]
      BY <1>3, <3>2, DispatchedKept
    <3> HIDE DEF s1, d
    <3>4. AllHeard(d, FALSE)
      <4> SUFFICES ASSUME NEW w \in Range(d.events), w.type = "KEY" PROVE Heard(d, w, FALSE)
        BY DEF AllHeard
      <4>1. w \in Range(s.events)  BY <3>3 DEF Posts
      <4>2. PICK y \in Supp : HasKey(s, w, y)  BY <1>6, <4>1 DEF Heard
      <4>3. PICK j \in s.ent[y].kmps : j.id = w.id /\ IsPostedKey(j)  BY <4>2 DEF HasKey
      <4>4. j # k  BY <1>5, <3>2, <4>1, <4>3
      <4>5. j \in d.ent[y].kmps
        <5>1. CASE y = x  BY <3>3, <4>3, <4>4, <5>1 DEF KeptBut
        <5>2. CASE y # x  BY <3>3, <4>3, <5>2
        <5> QED  BY <5>1, <5>2
      <4> QED  BY <4>3, <4>5 DEF Heard, HasKey
    <3> QED  BY <1>5, <3>1, <3>3, <3>4 DEF Posts
  <2> QED  BY <2>1, <2>2
<1> HIDE DEF s1
<1>8. CASE s1.events = <<>>
  <2>1. Range(<<>>) = {}  BY DEF Range
  <2>2. AllHeard(s1, Settled')  BY <1>8, <2>1 DEF AllHeard
  <2> QED  BY <1>1, <1>7, <1>8, <2>2, BecomeKeys
<1>9. CASE s1.events # <<>>
  <2>1. round' = [round EXCEPT !.dispatching = TRUE]  BY <1>1, <1>9
  <2>2. round'.dispatching /\ round'.datagrams = round.datagrams
    BY <2>1 DEF Inv, RoundType
  <2>3. ~Settled'  BY <2>2 DEF Settled
  <2>4. AllHeard(s1, Settled')  BY <1>7, <2>3 DEF AllHeard, Heard
  <2>5. round'.datagrams >= 1  BY <1>1, <2>2 DEF KeyInv
  <2> QED  BY <1>1, <1>7, <2>4, <2>5, BecomeKeys
<1> QED  BY <1>8, <1>9

\* No event, nothing to be heard.
LEMMA NoEventKeys ==
    ASSUME events = <<>>
    PROVE  KeyInv
<1>1. Range(<<>>) = {} /\ Len(<<>>) = 0  BY DEF Range
<1>2. Here.events = <<>>  BY HereFields
<1>3. AllHeard(Here, Settled)  BY <1>1, <1>2 DEF AllHeard
<1>4. Distinct(Here)  BY <1>1, <1>2 DEF Distinct
<1> QED  BY <1>3, <1>4 DEF KeyInv

LEMMA TickKeys ==
    ASSUME Inv, KeyInv, NEW chances, FastTimer(chances)
    PROVE  KeyInv'
<1> DEFINE s1 == ActiveTick(Here, active, chances)
           s2 == WaitingTick(s1, s1.waiting)
           keep == \/ \E x \in Range(active) : KeepsRunning(ent[x])
                   \/ \E x \in Range(s1.waiting) : KeepsRunning(s1.ent[x])
           t == [s2 EXCEPT !.running = @ /\ keep]
<1>1. Become(t) /\ round' = RoundTimed(t) /\ Settled  BY DEF FastTimer, Timed, Settled
<1>2. Good(Here)  BY DEF Inv
<1>3. ActiveLoop(Here, s1, Len(Here.active))
  <2>1. Here.active = active  BY HereFields
  <2>2. ActiveLoop(Here, ActiveTick(Here, Here.active, chances), Len(Here.active))
    BY <1>2, ActiveTickFacts
  <2> QED  BY <2>1, <2>2
<1> HIDE DEF s1
<1>4. WaitingLoop(s1, s2, Len(s1.waiting))
  <2>1. Good(s1)  BY <1>3 DEF ActiveLoop
  <2> QED  BY <2>1, WaitingTickFacts
<1> HIDE DEF s2, keep
<1>5. Good(s2) /\ Held(Here, s2)  BY <1>2, <1>3, <1>4, SweptFacts
<1>6. t.active = s2.active /\ t.waiting = s2.waiting /\ t.ent = s2.ent /\ t.events = s2.events
  <2>1. s2 \in Handling  BY <1>5 DEF Good, GoodBut
  <2>2. t = [s2 EXCEPT !.running = (s2.running /\ keep)]  OBVIOUS
  <2> QED  BY <2>1, <2>2 DEF Handling
<1> HIDE DEF t
<1>7. Distinct(t)  BY <1>5, <1>6 DEF Held, Posts, Distinct, KeyInv
<1>8. AllHeard(t, TRUE)
  <2> SUFFICES ASSUME NEW w \in Range(t.events), w.type = "KEY" PROVE Heard(t, w, TRUE)
    BY DEF AllHeard
  <2>1. w \in Range(Here.events)  BY <1>5, <1>6 DEF Held, Posts
  <2>2. PICK y \in Supp : HasKey(Here, w, y) /\ Safe(Here, y)
    BY <1>1, <2>1 DEF KeyInv, AllHeard, Heard
  <2>3. PICK j \in Here.ent[y].kmps : j.id = w.id /\ IsPostedKey(j)  BY <2>2 DEF HasKey
  <2>4. j \in s2.ent[y].kmps /\ Safe(s2, y)  BY <1>5, <2>2, <2>3 DEF Held
  <2>5. HasKey(t, w, y) /\ Safe(t, y)  BY <1>6, <2>3, <2>4 DEF HasKey, Safe
  <2> QED  BY <2>5 DEF Heard
<1>9. AllHeard(t, Settled')  BY <1>8 DEF AllHeard, Heard
<1>10. t.events # <<>> => round'.datagrams >= 1  BY <1>1 DEF RoundTimed
<1> QED  BY <1>1, <1>7, <1>9, <1>10, BecomeKeys

LEMMA NextKeys ==
    ASSUME Inv, KeyInv, [Next]_vars
    PROVE  KeyInv'
<1>1. CASE \E x \in Supp, need \in Needs, chance \in BOOLEAN : InitialKey(x, need, chance)
  BY <1>1, InitialKeyKeys
<1>2. CASE \E x \in Supp, need \in Needs : \E k \in ent[x].kmps : LastMessage(x, k, need)
  BY <1>2, LastMessageKeys
<1>3. CASE \E x \in Supp, type \in {"MKA", "4WH", "GKH"}, chance \in BOOLEAN :
              OtherMessage(x, type, chance)
  BY <1>3, OtherMessageKeys
<1>4. CASE Dispatch  BY <1>4, DispatchKeys
<1>5. CASE UseAfterFree
  <2> DEFINE s == Here'
  <2>1. Become(s) /\ s.events = <<>>  BY <1>5 DEF UseAfterFree, Become, Here
  <2>2. Range(<<>>) = {} /\ Len(<<>>) = 0  BY DEF Range
  <2> HIDE DEF s
  <2>3. Distinct(s) /\ AllHeard(s, Settled')  BY <2>1, <2>2 DEF Distinct, AllHeard
  <2> QED  BY <2>1, <2>3, BecomeKeys
<1>6. CASE Tick  BY <1>6, TickKeys DEF Tick
<1>7. CASE UNCHANGED vars
  <2>1. Become(Here)  BY <1>7, HereFields DEF Become, vars
  <2>2. round' = round  BY <1>7 DEF vars
  <2>3. Settled' = Settled  BY <2>2 DEF Settled
  <2>4. AllHeard(Here, Settled')  BY <2>3 DEF KeyInv
  <2> QED  BY <2>1, <2>2, <2>4, BecomeKeys, HereFields DEF KeyInv
<1> QED  BY <1>1, <1>2, <1>3, <1>4, <1>5, <1>6, <1>7 DEF Next

\* The invariant says what TypeOK says,
LEMMA InvTypes ==
    ASSUME Inv
    PROVE  TypeOK
<1>1. Here \in Handling /\ Lists(Here) /\ Entries(Here, {})  BY DEF Inv, Good, GoodBut
<1>2. /\ active \in Seq(Supp) /\ waiting \in Seq(Supp) /\ events \in Seq(Event)
      /\ running \in BOOLEAN /\ ent \in [Supp -> FiniteEntry]
  BY <1>1, HandlingFields, HereFields
<1>3. ent \in [Supp -> Entry]  BY <1>2 DEF FiniteEntry
<1>4. /\ IsInjective(active) /\ IsInjective(waiting) /\ Range(active) \cap Range(waiting) = {}
      /\ size = Len(waiting) /\ size <= WaitMax
  BY <1>1, HereFields DEF Lists
<1>5. \A x \in Supp \ (Range(active) \cup Range(waiting)) : ent[x] = NoEntry
  BY <1>1, HereFields DEF Entries, Listed
<1> QED  BY <1>2, <1>3, <1>4, <1>5 DEF TypeOK, Inv, RoundType

\* and that no negotiation is doubled.
LEMMA InvOneNegotiation ==
    ASSUME Inv
    PROVE  OneNegotiation
<1> SUFFICES ASSUME NEW x \in Supp, NEW type \in {"MKA", "TLS", "4WH"}
             PROVE  Cardinality({k \in ent[x].kmps : k.type = type}) <= 1
  BY DEF OneNegotiation
<1> DEFINE T == {k \in ent[x].kmps : k.type = type}
<1>1. Single(ent[x])  BY HereFields DEF Inv, Good, GoodBut, Entries
<1>2. \A j, k \in T : j = k  BY <1>1 DEF Single, Once
<1> HIDE DEF T
<1>3. CASE T = {}
  <2>1. Cardinality({}) = 0  BY FS_EmptySet
  <2> QED  BY <1>3, <2>1 DEF T
<1>4. CASE T # {}
  <2>1. PICK k \in T : T = {k}  BY <1>2, <1>4
  <2>2. Cardinality({k}) = 1  BY FS_Singleton
  <2>3. Cardinality(T) <= 1  BY <2>1, <2>2
  <2> QED  BY <2>3 DEF T
<1> QED  BY <1>3, <1>4

LEMMA Invariance == Spec => []Inv
<1>1. Init => Inv  BY InitInv
<1>2. Inv /\ [Next]_vars => Inv'  BY NextInv, StutterInv
<1> QED  BY <1>1, <1>2, PTL DEF Spec

(***************************************************************************)
(* An entry is on one list at most, the counter kept at five places is the  *)
(* length of the waiting list, and a supplicant on no list has no KMP,      *)
(* whatever handlers, events and timers do in between.                      *)
(***************************************************************************)
THEOREM SupplicantTypes == Spec => []TypeOK
<1>1. Inv => TypeOK  BY InvTypes
<1> QED  BY <1>1, Invariance, PTL

(***************************************************************************)
(* ws_pae_auth.c: "only one ongoing negotiation at the same time", for      *)
(* EAP-TLS, both its halves, and for the 4WH.                               *)
(***************************************************************************)
THEOREM NegotiationsSingle == Spec => []OneNegotiation
<1>1. Inv => OneNegotiation  BY InvOneNegotiation
<1> QED  BY <1>1, Invariance, PTL

(***************************************************************************)
(* The lists of ws_pae_auth.c implement the pool: every handler and every   *)
(* run of the timer, with all the removals and promotions it makes, is one  *)
(* step of SuppPool or changes neither list.                                *)
(***************************************************************************)
THEOREM ImplementsPool == Spec => PoolSpec
<1>1. Init => Pool!Init
  <2>1. Range(<<>>) = {}  BY DEF Range
  <2> QED  BY <2>1 DEF Init, Pool!Init
<1>2. Inv /\ [Next]_vars => [Pool!Next]_(Pool!vars)  BY NextInv, StutterInv DEF PoolStep
<1> QED  BY <1>1, <1>2, Invariance, PTL DEF Spec, PoolSpec, Pool!Spec

(***************************************************************************)
(* The event of an initial EAPOL-Key message always finds its KMP: between  *)
(* the post and the dispatch come one more datagram and one timer at most,  *)
(* the timer takes the newest waiting entry only to make it active, and the *)
(* datagram gives up the oldest, which WAITING_SUPPLICANT_LIST_MAX_SIZE > 1 *)
(* keeps apart from the newest.                                             *)
(***************************************************************************)
THEOREM KeyMessagesHeard == Spec => []KeyHeard
<1>1. Init => Inv /\ KeyInv  BY InitInv, NoEventKeys DEF Init
<1>2. Inv /\ KeyInv /\ [Next]_vars => (Inv /\ KeyInv)'
  BY NextInv, StutterInv, NextKeys
<1>3. KeyInv => KeyHeard
  BY HereFields DEF KeyInv, KeyHeard, AllHeard, Heard, HasKey, Owners
<1> QED  BY <1>1, <1>2, <1>3, PTL DEF Spec
===============================================================================
