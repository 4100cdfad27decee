------------------------- MODULE FrameCountersProofs -------------------------
(***************************************************************************)
(* Proofs about the frame counters: for any number of slots, keys, any      *)
(* counter width, intervals and number of restarts, a key that frames are   *)
(* sent with has an entry of its own in the file (StoredBeforeUse), and     *)
(* neither the RCP's counter of the active key nor what the file promises   *)
(* for a key goes back (CountersForward).                                   *)
(*                                                                         *)
(* A handler threads a record through its calls of Insert and Store, so the *)
(* proofs go call by call: what Store does to the record is said once       *)
(* (StoreFacts), and the invariant's parts are predicates on the record     *)
(* that each call keeps.                                                    *)
(***************************************************************************)
EXTENDS FrameCounters, NatInductionLemmas

Key == Keys \cup {NoKey}
File == [exists : BOOLEAN, counters : PerSlot(CounterEntry)]
Indices == {f \in [Kinds -> Int] : \A k \in Kinds : f[k] \in SlotsOf(k) \cup {None}}

\* What a handler threads through its calls.
Handling == [counters : PerSlot(CounterEntry), activeIdx : Indices, rcp : PerSlot(Counter),
             answers : Seq(Counter), file : File, force : 0..ForceInterval]

\* Slot i of kind k has an entry of its own for the key it holds.
Covered(cs, k, i, keys) == cs[k][i].set /\ cs[k][i].key = keys[k][i]

\* Nothing the file f promised is forgotten: the counter kept for the same
\* key is not lower, the counter of a key still in its slot is kept, and what
\* is in the file now is not lower either.
Kept(f, s, keys) ==
    \A k \in Kinds : \A i \in SlotsOf(k) :
        LET old == f.counters[k][i]
            c == s.counters[k][i]
            new == s.file.counters[k][i]
        IN  old.set =>
              /\ c.set /\ c.key = old.key => c.count >= old.count
              /\ old.key = keys[k][i] /\ old.key # NoKey => c.set /\ c.key = old.key
              /\ new.set /\ new.key = old.key => new.count >= old.count

(***************************************************************************)
(* The inductive invariant.                                                 *)
(***************************************************************************)
Typed == TypeOK /\ active \in Indices /\ activeIdx \in Indices

\* Frames are sent with a key, and a file that was not written promises nothing.
Formed ==
    /\ \A k \in Kinds : InUse(k) # NoKey
    /\ ~file.exists => \A k \in Kinds : \A i \in SlotsOf(k) : ~file.counters[k][i].set

\* While the daemon runs, the controller knows which key is active and keeps
\* an entry for it, in memory and in the file; otherwise it knows of none.
Ready ==
    \A k \in Kinds :
        IF mode = "run"
        THEN /\ activeIdx[k] = active[k]
             /\ Covered(counters, k, active[k], table)
             /\ Covered(file.counters, k, active[k], table)
        ELSE activeIdx[k] = None

FileKept == mode = "run" => Kept(file, Here, table)

Inv == Typed /\ Formed /\ Ready /\ FileKept

-----------------------------------------------------------------------------
(***************************************************************************)
(* The requests to the RCP.                                                 *)
(***************************************************************************)
LEMMA SlotCount ==
    ASSUME NEW k \in Kinds
    PROVE  /\ NumOf(k) \in Nat \ {0}
           /\ SlotsOf(k) \subseteq Nat
           /\ \A n \in SlotsOf(k) : n + 1 \in 1..NumOf(k)
           /\ \A n \in 1..NumOf(k) : n - 1 \in SlotsOf(k)
BY SlotsAssumption DEF Kinds, NumOf, SlotsOf

LEMMA AnsweredType ==
    ASSUME NEW q \in Seq(Counter), NEW v \in Counter
    PROVE  Answered(q, v) \in Seq(Counter)
BY DEF Answered

\* Asking for counters changes nothing but the answers under way.
LEMMA AskedFacts ==
    ASSUME NEW s \in Handling, NEW k \in Kinds, NEW S
    PROVE  LET t == Asked(s, k, S)
           IN  /\ t \in Handling
               /\ t.counters = s.counters /\ t.activeIdx = s.activeIdx /\ t.rcp = s.rcp
               /\ t.file = s.file /\ t.force = s.force
<1> DEFINE N == NumOf(k)
           Sq == Seq(Counter)
           base == s.answers
           r == s.rcp[k]
           step == [n \in 1..N |-> [q \in Sq |-> IF n - 1 \in S THEN Answered(q, r[n - 1]) ELSE q]]
           Eq(f) == f = [n \in 0..N |-> IF n = 0 THEN s.answers
                         ELSE IF n - 1 \in S THEN Answered(f[n - 1], s.rcp[k][n - 1])
                         ELSE f[n - 1]]
           after == CHOOSE f : Eq(f)
<1>1. N \in Nat /\ \A n \in 1..N : r[n - 1] \in Counter
  BY SlotCount DEF Handling, PerSlot
<1>2. base \in Sq  BY DEF Handling
<1>3. step \in [1..N -> [Sq -> Sq]]
  <2> SUFFICES ASSUME NEW n \in 1..N, NEW q \in Sq
               PROVE (IF n - 1 \in S THEN Answered(q, r[n - 1]) ELSE q) \in Sq
    OBVIOUS
  <2> QED  BY <1>1, AnsweredType
<1>4. PICK g \in [0..N -> Sq] : g[0] = base /\ \A n \in 1..N : g[n] = step[n][g[n - 1]]
  <2>1. N \in Nat  BY <1>1
  <2> HIDE DEF N, Sq, base, step, r, after, Eq
  <2>2. \A b \in Sq : \A f \in [1..N -> [Sq -> Sq]] :
           \E g \in [0..N -> Sq] : Solved(g, N, b, f)
    BY <2>1, BoundedRecursion
  <2>3. \E g \in [0..N -> Sq] : Solved(g, N, base, step)  BY <2>2, <1>2, <1>3
  <2> QED  BY <2>3 DEF Solved
<1>5. Eq(g)
  <2>1. ASSUME NEW n \in 0..N
        PROVE g[n] = IF n = 0 THEN s.answers
                     ELSE IF n - 1 \in S THEN Answered(g[n - 1], s.rcp[k][n - 1])
                     ELSE g[n - 1]
    <3>1. CASE n = 0  BY <1>4, <3>1
    <3>2. CASE n # 0
      <4>1. n \in 1..N /\ n - 1 \in 0..N  BY <3>2, <1>1
      <4>2. g[n - 1] \in Sq  BY <4>1
      <4>3. g[n] = step[n][g[n - 1]]
        <5> HIDE DEF step, N, Sq, base
        <5> QED  BY <1>4, <4>1
      <4>4. step[n][g[n - 1]] = IF n - 1 \in S THEN Answered(g[n - 1], r[n - 1]) ELSE g[n - 1]
        BY <4>1, <4>2
      <4> QED  BY <3>2, <4>3, <4>4
    <3> QED  BY <3>1, <3>2
  <2> HIDE DEF N, Sq
  <2> QED  BY <2>1
<1>6. Eq(after)  
  <2> HIDE DEF Eq
  <2> QED  BY <1>5
<1>7. \A n \in 0..N : after[n] \in Sq
  <2> DEFINE P == {n \in Nat : n <= N => after[n] \in Sq}
  <2> HIDE DEF after
  <2>1. 0 \in P  BY <1>6, <1>2, <1>1
  <2>2. ASSUME NEW n \in Nat, n \in P PROVE n + 1 \in P
    <3> SUFFICES ASSUME n + 1 <= N PROVE after[n + 1] \in Sq  OBVIOUS
    <3>1. after[n + 1] = IF n \in S THEN Answered(after[n], r[n]) ELSE after[n]
      <4>1. n + 1 \in 0..N /\ n + 1 # 0 /\ (n + 1) - 1 = n  BY <1>1
      <4> HIDE DEF N
      <4> QED  BY <4>1, <1>6
    <3>2. r[n] \in Counter
      <4>1. n + 1 \in 1..N /\ (n + 1) - 1 = n  BY <1>1
      <4> HIDE DEF N, r
      <4> QED  BY <4>1, <1>1
    <3>3. after[n] \in Sq  BY <1>1, <2>2
    <3> QED  BY <3>1, <3>2, <3>3, AnsweredType
  <2> HIDE DEF P
  <2>3. Nat \subseteq P  BY <2>1, <2>2, NatInd
  <2> USE DEF P
  <2> QED  BY <2>3, <1>1
<1>8. Asked(s, k, S) = [s EXCEPT !.answers = after[N]]
  BY DEF Asked
<1>9. after[N] \in Sq  BY <1>1, <1>7
<1> HIDE DEF after, N
<1> QED  BY <1>8, <1>9 DEF Handling

-----------------------------------------------------------------------------
(***************************************************************************)
(* ws_pae_controller_frame_counter_store().                                 *)
(***************************************************************************)
LEMMA ReadCountFacts ==
    ASSUME NEW c \in CounterEntry, NEW key, NEW read \in Counter
    PROVE  /\ ReadCount(c, key, read) \in Counter
           /\ c.set /\ c.key = key => ReadCount(c, key, read) >= c.count
BY CountersAssumption DEF ReadCount, Larger, CounterEntry, Counter

LEMMA FileOfFacts ==
    ASSUME NEW cs \in PerSlot(CounterEntry)
    PROVE  /\ FileOf(cs) \in File
           /\ FileOf(cs).exists
           /\ \A k \in Kinds : \A i \in SlotsOf(k) :
                 LET f == FileOf(cs).counters[k][i]
                 IN  f.set = cs[k][i].set /\ f.key = cs[k][i].key /\ f.count = cs[k][i].count
<1> DEFINE E(k, i) == [cs[k][i] EXCEPT !.stored = 0]
           G == [k \in Kinds |-> [i \in SlotsOf(k) |-> E(k, i)]]
<1>1. ASSUME NEW k \in Kinds, NEW i \in SlotsOf(k)
      PROVE /\ E(k, i) \in CounterEntry
            /\ E(k, i).set = cs[k][i].set /\ E(k, i).key = cs[k][i].key
            /\ E(k, i).count = cs[k][i].count
  <2>1. cs[k][i] \in CounterEntry  BY DEF PerSlot
  <2>2. 0 \in Counter  BY CountersAssumption DEF Counter
  <2> QED  BY <2>1, <2>2 DEF CounterEntry
<1>2. FileOf(cs) = [exists |-> TRUE, counters |-> G]  BY DEF FileOf
<1> HIDE DEF E
<1>3. G \in PerSlot(CounterEntry)
  <2>1. \A k \in Kinds : [i \in SlotsOf(k) |-> E(k, i)] \in [SlotsOf(k) -> CounterEntry]
    BY <1>1
  <2> HIDE DEF E
  <2> QED  BY <2>1 DEF PerSlot, Kinds
<1>4. \A k \in Kinds : \A i \in SlotsOf(k) : G[k][i] = E(k, i)  OBVIOUS
<1> HIDE DEF G
<1> QED  BY <1>1, <1>2, <1>3, <1>4 DEF File

LEMMA StoreFacts ==
    ASSUME NEW s \in Handling, NEW k \in Kinds, NEW u \in BOOLEAN, NEW keys \in PerSlot(Key),
           NEW index \in SlotsOf(k), NEW read \in Counter
    PROVE  LET t == Store(s, k, u, keys, index, read)
           IN  /\ t \in Handling /\ t.force = s.force
               /\ \A q \in Kinds \ {k} : /\ t.counters[q] = s.counters[q]
                                         /\ t.rcp[q] = s.rcp[q]
                                         /\ t.activeIdx[q] = s.activeIdx[q]
               /\ \A i \in SlotsOf(k) :
                    /\ keys[k][i] # NoKey => Covered(t.counters, k, i, keys)
                    /\ keys[k][i] # NoKey /\ Known(s, k, i, keys)
                          => t.counters[k][i].count >= s.counters[k][i].count
                    /\ keys[k][i] = NoKey => t.counters[k][i] = s.counters[k][i]
                    /\ ~Activated(s, k, index, keys) => t.rcp[k][i] = s.rcp[k][i]
                    /\ i # index => t.rcp[k][i] = s.rcp[k][i]
               /\ t.activeIdx[k] = IF Activated(s, k, index, keys) THEN index ELSE s.activeIdx[k]
               /\ t.file = s.file \/ t.file = FileOf(t.counters)
               /\ Activated(s, k, index, keys) => t.file = FileOf(t.counters)
<1> DEFINE installed == {i \in SlotsOf(k) : keys[k][i] # NoKey}
           asked == Asked(s, k, installed)
           count(i) == ReadCount(s.counters[k][i], keys[k][i], read)
           due == {i \in installed : Known(s, k, i, keys)
                                     /\ Due(s.counters[k][i], count(i), u)}
           stored(i) == IF Known(s, k, i, keys) /\ i \notin due
                        THEN s.counters[k][i].stored ELSE count(i)
           entry(i) == IF i \in installed
                       THEN [set |-> TRUE, key |-> keys[k][i], count |-> count(i), stored |-> stored(i)]
                       ELSE s.counters[k][i]
           row == [i \in SlotsOf(k) |-> entry(i)]
           new == [s.counters EXCEPT ![k] = row]
           activated == Activated(s, k, index, keys)
           needed == UpdateNeeded(activated, due)
           sent == [i \in SlotsOf(k) |-> IF activated /\ i = index THEN count(i) ELSE s.rcp[k][i]]
           newFile == IF needed \/ s.force = 0 THEN FileOf(new) ELSE s.file
           newIdx == IF activated THEN index ELSE s.activeIdx[k]
           t == Store(s, k, u, keys, index, read)
<1>1. /\ asked \in Handling
      /\ asked.counters = s.counters /\ asked.activeIdx = s.activeIdx /\ asked.rcp = s.rcp
      /\ asked.file = s.file /\ asked.force = s.force
  BY AskedFacts
<1>2. t = [asked EXCEPT !.counters = new, !.activeIdx[k] = IF activated THEN index ELSE @,
                        !.rcp[k] = sent,
                        !.file = IF needed \/ s.force = 0 THEN FileOf(new) ELSE @]
  BY DEF Store
<1>3. ASSUME NEW i \in SlotsOf(k)
      PROVE  /\ s.counters[k][i] \in CounterEntry /\ s.rcp[k][i] \in Counter
             /\ keys[k][i] \in Key
             /\ count(i) \in Counter /\ stored(i) \in Counter
             /\ Known(s, k, i, keys) => count(i) >= s.counters[k][i].count
  <2>1. s.counters \in PerSlot(CounterEntry) /\ s.rcp \in PerSlot(Counter)  BY DEF Handling
  <2>2. s.counters[k][i] \in CounterEntry /\ s.rcp[k][i] \in Counter /\ keys[k][i] \in Key
    BY <2>1 DEF PerSlot
  <2>3. /\ count(i) \in Counter
        /\ s.counters[k][i].set /\ s.counters[k][i].key = keys[k][i] => count(i) >= s.counters[k][i].count
    BY <2>2, ReadCountFacts
  <2> HIDE DEF count
  <2>4. s.counters[k][i].stored \in Counter  BY <2>2 DEF CounterEntry
  <2> HIDE DEF due
  <2> QED  BY <2>2, <2>3, <2>4 DEF Known
<1>4. ASSUME NEW i \in SlotsOf(k)
      PROVE  /\ entry(i) \in CounterEntry
             /\ keys[k][i] # NoKey => entry(i).set /\ entry(i).key = keys[k][i] /\ entry(i).count = count(i)
             /\ keys[k][i] = NoKey => entry(i) = s.counters[k][i]
  <2> HIDE DEF count, stored
  <2> QED  BY <1>3 DEF CounterEntry, Key
<1>5. row \in [SlotsOf(k) -> CounterEntry]
  <2> HIDE DEF entry
  <2> QED  BY <1>4
<1>6. /\ new \in PerSlot(CounterEntry)
      /\ new[k] = row /\ \A q \in Kinds \ {k} : new[q] = s.counters[q]
  <2>1. s.counters \in PerSlot(CounterEntry)  BY DEF Handling
  <2> HIDE DEF row
  <2> QED  BY <1>5, <2>1 DEF PerSlot, Kinds
<1>7. sent \in [SlotsOf(k) -> Counter]
  <2> HIDE DEF count
  <2> QED  BY <1>3
<1>8. FileOf(new) \in File  BY <1>6, FileOfFacts
<1>9. /\ [s.rcp EXCEPT ![k] = sent] \in PerSlot(Counter)
      /\ \A q \in Kinds \ {k} : [s.rcp EXCEPT ![k] = sent][q] = s.rcp[q]
      /\ [s.rcp EXCEPT ![k] = sent][k] = sent
  <2>1. s.rcp \in PerSlot(Counter)  BY DEF Handling
  <2> HIDE DEF sent
  <2> QED  BY <1>7, <2>1 DEF PerSlot, Kinds
<1>10. /\ [s.activeIdx EXCEPT ![k] = newIdx] \in Indices
       /\ \A q \in Kinds \ {k} : [s.activeIdx EXCEPT ![k] = newIdx][q] = s.activeIdx[q]
       /\ [s.activeIdx EXCEPT ![k] = newIdx][k] = newIdx
  <2>1. s.activeIdx \in Indices  BY DEF Handling
  <2> HIDE DEF activated
  <2>2. newIdx \in SlotsOf(k) \cup {None} /\ newIdx \in Int
    BY <2>1, SlotCount DEF Indices
  <2> HIDE DEF newIdx
  <2> QED  BY <2>1, <2>2 DEF Indices
<1>11. /\ t.counters = new /\ t.force = s.force
       /\ t.activeIdx = [s.activeIdx EXCEPT ![k] = newIdx]
       /\ t.rcp = [s.rcp EXCEPT ![k] = sent]
       /\ t.file = newFile
       /\ t \in Handling
  <2> HIDE DEF new, activated, sent, needed, asked, t
  <2>1. newFile \in File  BY <1>8 DEF Handling
  <2>2. /\ t.counters = new /\ t.force = s.force
        /\ t.activeIdx = [s.activeIdx EXCEPT ![k] = newIdx]
        /\ t.rcp = [s.rcp EXCEPT ![k] = sent]
        /\ t.file = newFile /\ t.answers = asked.answers
    BY <1>1, <1>2 DEF Handling, Indices, PerSlot
  <2>3. t = [counters |-> t.counters, activeIdx |-> t.activeIdx, rcp |-> t.rcp,
             answers |-> t.answers, file |-> t.file, force |-> t.force]
    BY <1>1, <1>2 DEF Handling
  <2> HIDE DEF newFile, newIdx
  <2>4. asked.answers \in Seq(Counter) /\ s.force \in 0..ForceInterval  BY <1>1 DEF Handling
  <2> QED  BY <2>1, <2>2, <2>3, <2>4, <1>6, <1>9, <1>10 DEF Handling
<1>12. ASSUME NEW i \in SlotsOf(k)
       PROVE /\ t.counters[k][i] = entry(i)
             /\ (~activated \/ i # index) => t.rcp[k][i] = s.rcp[k][i]
  <2> HIDE DEF entry, count, t, new, activated
  <2>1. t.counters[k] = row /\ t.rcp[k] = sent  BY <1>6, <1>9, <1>11
  <2> QED  BY <2>1
<1>13. /\ \A q \in Kinds \ {k} : /\ t.counters[q] = s.counters[q]
                                 /\ t.rcp[q] = s.rcp[q]
                                 /\ t.activeIdx[q] = s.activeIdx[q]
       /\ t.activeIdx[k] = newIdx
  <2> HIDE DEF t, new, sent, newIdx
  <2> QED  BY <1>6, <1>9, <1>10, <1>11
<1>14. /\ t.file = s.file \/ t.file = FileOf(t.counters)
       /\ activated => t.file = FileOf(t.counters)
  <2> HIDE DEF t, new, activated, due
  <2> QED  BY <1>11 DEF UpdateNeeded
<1>15. ASSUME NEW i \in SlotsOf(k)
       PROVE /\ keys[k][i] # NoKey => Covered(t.counters, k, i, keys)
             /\ keys[k][i] # NoKey /\ Known(s, k, i, keys)
                    => t.counters[k][i].count >= s.counters[k][i].count
             /\ keys[k][i] = NoKey => t.counters[k][i] = s.counters[k][i]
  <2> HIDE DEF t, entry, count
  <2> QED  BY <1>3, <1>4, <1>12 DEF Covered
<1> HIDE DEF count, entry, new, newFile, sent
<1> QED  BY <1>11, <1>12, <1>13, <1>14, <1>15

\* The file is forward of itself after a store, and of any file it was
\* forward of before.
LEMMA StoreKeeps ==
    ASSUME NEW s \in Handling, NEW k \in Kinds, NEW u \in BOOLEAN, NEW keys \in PerSlot(Key),
           NEW index \in SlotsOf(k), NEW read \in Counter, NEW f \in File,
           Kept(f, s, keys), Kept(s.file, s, keys)
    PROVE  LET t == Store(s, k, u, keys, index, read)
           IN  Kept(f, t, keys) /\ Kept(t.file, t, keys)
<1> DEFINE t == Store(s, k, u, keys, index, read)
<1>1. /\ t \in Handling
      /\ \A q \in Kinds \ {k} : t.counters[q] = s.counters[q]
      /\ \A i \in SlotsOf(k) :
            /\ keys[k][i] # NoKey => Covered(t.counters, k, i, keys)
            /\ keys[k][i] # NoKey /\ Known(s, k, i, keys)
                  => t.counters[k][i].count >= s.counters[k][i].count
            /\ keys[k][i] = NoKey => t.counters[k][i] = s.counters[k][i]
      /\ t.file = s.file \/ t.file = FileOf(t.counters)
  BY StoreFacts
<1> HIDE DEF t
<1>2. ASSUME NEW q \in Kinds, NEW i \in SlotsOf(q)
      PROVE  /\ s.counters[q][i] \in CounterEntry /\ t.counters[q][i] \in CounterEntry
             /\ s.file.counters[q][i] \in CounterEntry /\ keys[q][i] \in Key
  BY <1>1 DEF Handling, PerSlot, File
<1>3. ASSUME NEW q \in Kinds, NEW i \in SlotsOf(q)
      PROVE  LET c == s.counters[q][i]
                 d == t.counters[q][i]
             IN  \/ d = c
                 \/ /\ keys[q][i] # NoKey /\ d.set /\ d.key = keys[q][i]
                    /\ c.set /\ c.key = keys[q][i] => d.count >= c.count
  BY <1>1 DEF Covered, Known
<1>4. t.file = FileOf(t.counters) =>
        \A q \in Kinds : \A i \in SlotsOf(q) :
            LET e == t.file.counters[q][i]
                d == t.counters[q][i]
            IN  e.set = d.set /\ e.key = d.key /\ e.count = d.count
  <2>1. t.counters \in PerSlot(CounterEntry)  BY <1>1 DEF Handling
  <2> QED  BY <2>1, FileOfFacts
<1>5. ASSUME NEW g \in File, Kept(g, s, keys) PROVE Kept(g, t, keys)
  <2> SUFFICES ASSUME NEW q \in Kinds, NEW i \in SlotsOf(q), g.counters[q][i].set
               PROVE  LET old == g.counters[q][i]
                          c == t.counters[q][i]
                          new == t.file.counters[q][i]
                      IN  /\ c.set /\ c.key = old.key => c.count >= old.count
                          /\ old.key = keys[q][i] /\ old.key # NoKey => c.set /\ c.key = old.key
                          /\ new.set /\ new.key = old.key => new.count >= old.count
    BY DEF Kept
  <2> DEFINE old == g.counters[q][i]
             c == s.counters[q][i]
             d == t.counters[q][i]
             e == t.file.counters[q][i]
  <2>1. old \in CounterEntry  BY DEF File, PerSlot
  <2>2. /\ c.set /\ c.key = old.key => c.count >= old.count
        /\ old.key = keys[q][i] /\ old.key # NoKey => c.set /\ c.key = old.key
        /\ s.file.counters[q][i].set /\ s.file.counters[q][i].key = old.key
               => s.file.counters[q][i].count >= old.count
    BY <1>5 DEF Kept
  <2>3. c \in CounterEntry /\ d \in CounterEntry  BY <1>2
  <2>4. \/ d = c
        \/ /\ keys[q][i] # NoKey /\ d.set /\ d.key = keys[q][i]
           /\ c.set /\ c.key = keys[q][i] => d.count >= c.count
    BY <1>3
  <2>5. e = s.file.counters[q][i] \/ (e.set = d.set /\ e.key = d.key /\ e.count = d.count)
    BY <1>1, <1>4
  <2>6. c.count \in Int /\ d.count \in Int /\ old.count \in Int
    BY <2>1, <2>3, CountersAssumption DEF CounterEntry, Counter
  <2> HIDE DEF old, c, d, e
  <2>7. d.set /\ d.key = old.key => d.count >= old.count
    BY <2>2, <2>4, <2>6
  <2>8. old.key = keys[q][i] /\ old.key # NoKey => d.set /\ d.key = old.key
    BY <2>2, <2>4
  <2>9. e.set /\ e.key = old.key => e.count >= old.count
    BY <2>2, <2>5, <2>7
  <2> QED  BY <2>7, <2>8, <2>9 DEF old, d, e
<1>6. Kept(t.file, t, keys)
  <2>1. CASE t.file = s.file
    <3>1. s.file \in File  BY DEF Handling
    <3> QED  BY <2>1, <3>1, <1>5
  <2>2. CASE t.file = FileOf(t.counters)
    <3>1. \A q \in Kinds : \A i \in SlotsOf(q) : t.counters[q][i].count \in Int
      BY <1>2, CountersAssumption DEF CounterEntry, Counter
    <3> QED  BY <2>2, <3>1, <1>4 DEF Kept
  <2> QED  BY <2>1, <2>2, <1>1
<1>7. Kept(f, t, keys)  BY <1>5
<1> QED  BY <1>6, <1>7 DEF t

\* The controller knows of the active key of kind k, slot j.
Knows(s, k, j, keys) ==
    /\ s.activeIdx[k] = j
    /\ Covered(s.counters, k, j, keys)
    /\ Covered(s.file.counters, k, j, keys)

\* A store makes the controller know the key of the slot it is told of, or
\* goes on knowing it, and forgets nothing of the other kind.
LEMMA StoreKnows ==
    ASSUME NEW s \in Handling, NEW k \in Kinds, NEW u \in BOOLEAN, NEW keys \in PerSlot(Key),
           NEW index \in SlotsOf(k), NEW read \in Counter, keys[k][index] # NoKey
    PROVE  LET t == Store(s, k, u, keys, index, read)
           IN  /\ s.activeIdx[k] # index \/ Knows(s, k, index, keys) => Knows(t, k, index, keys)
               /\ \A q \in Kinds \ {k} : \A j \in SlotsOf(q) :
                     Knows(s, q, j, keys) => Knows(t, q, j, keys)
<1> DEFINE t == Store(s, k, u, keys, index, read)
           act == Activated(s, k, index, keys)
<1>1. /\ t \in Handling
      /\ \A q \in Kinds \ {k} : t.counters[q] = s.counters[q] /\ t.activeIdx[q] = s.activeIdx[q]
      /\ \A i \in SlotsOf(k) : keys[k][i] # NoKey => Covered(t.counters, k, i, keys)
      /\ t.activeIdx[k] = IF act THEN index ELSE s.activeIdx[k]
      /\ t.file = s.file \/ t.file = FileOf(t.counters)
      /\ act => t.file = FileOf(t.counters)
  BY StoreFacts
<1>2. act <=> s.activeIdx[k] # index  BY DEF Activated
<1> HIDE DEF t, act
<1>3. ASSUME t.file = FileOf(t.counters), NEW q \in Kinds, NEW j \in SlotsOf(q),
             Covered(t.counters, q, j, keys)
      PROVE  Covered(t.file.counters, q, j, keys)
  <2>1. t.counters \in PerSlot(CounterEntry)  BY <1>1 DEF Handling
  <2> QED  BY <2>1, <1>3, FileOfFacts DEF Covered
<1>4. ASSUME s.activeIdx[k] # index \/ Knows(s, k, index, keys)
      PROVE  Knows(t, k, index, keys)
  <2>1. t.activeIdx[k] = index /\ Covered(t.counters, k, index, keys)
    BY <1>1, <1>2, <1>4 DEF Knows
  <2>2. Covered(t.file.counters, k, index, keys)
    <3>1. CASE t.file = FileOf(t.counters)  BY <3>1, <2>1, <1>3
    <3>2. CASE ~(t.file = FileOf(t.counters))
      <4>1. t.file = s.file /\ Knows(s, k, index, keys)  BY <3>2, <1>1, <1>2, <1>4
      <4> QED  BY <4>1 DEF Knows
    <3> QED  BY <3>1, <3>2
  <2> QED  BY <2>1, <2>2 DEF Knows
<1>5. ASSUME NEW q \in Kinds \ {k}, NEW j \in SlotsOf(q), Knows(s, q, j, keys)
      PROVE  Knows(t, q, j, keys)
  <2>1. t.activeIdx[q] = j /\ Covered(t.counters, q, j, keys)
    BY <1>1, <1>5 DEF Knows, Covered
  <2>2. Covered(t.file.counters, q, j, keys)
    <3>1. CASE t.file = FileOf(t.counters)  BY <3>1, <2>1, <1>3
    <3>2. CASE t.file = s.file  BY <3>2, <1>5 DEF Knows
    <3> QED  BY <3>1, <3>2, <1>1
  <2> QED  BY <2>1, <2>2 DEF Knows
<1> QED  BY <1>4, <1>5 DEF t

-----------------------------------------------------------------------------
(***************************************************************************)
(* ws_pae_controller_nw_key_check_and_insert().                             *)
(***************************************************************************)
LEMMA InsertFacts ==
    ASSUME NEW s \in Handling, NEW k \in Kinds, NEW old \in PerSlot(Key), NEW keys \in PerSlot(Key),
           NEW read \in Counter
    PROVE  LET t == Insert(s, k, old, keys, read)
           IN  /\ t \in Handling
               /\ t.counters = s.counters /\ t.activeIdx = s.activeIdx
               /\ t.file = s.file /\ t.force = s.force
               /\ \A q \in Kinds \ {k} : t.rcp[q] = s.rcp[q]
               /\ \A i \in SlotsOf(k) : keys[k][i] # NoKey /\ keys[k][i] = old[k][i]
                                           => t.rcp[k][i] = s.rcp[k][i]
<1> DEFINE fresh == {i \in SlotsOf(k) : keys[k][i] # NoKey /\ keys[k][i] # old[k][i]}
           known == {i \in fresh : Known(s, k, i, keys)}
           zeroed == [i \in SlotsOf(k) |-> IF i \in fresh \/ keys[k][i] = NoKey THEN 0
                                           ELSE s.rcp[k][i]]
           reset == [s EXCEPT !.rcp[k] = zeroed]
           asked == Asked(reset, k, known)
           set == [i \in SlotsOf(k) |-> IF i \in known /\ s.counters[k][i].count > read
                                        THEN s.counters[k][i].count ELSE asked.rcp[k][i]]
           t == Insert(s, k, old, keys, read)
<1>1. s.rcp \in PerSlot(Counter) /\ s.counters \in PerSlot(CounterEntry) /\ 0 \in Counter
  BY CountersAssumption DEF Handling, Counter
<1>2. zeroed \in [SlotsOf(k) -> Counter]
  <2>1. \A i \in SlotsOf(k) : s.rcp[k][i] \in Counter  BY <1>1 DEF PerSlot
  <2> HIDE DEF fresh
  <2> QED  BY <2>1, <1>1
<1>3. /\ [s.rcp EXCEPT ![k] = zeroed] \in PerSlot(Counter)
      /\ [s.rcp EXCEPT ![k] = zeroed][k] = zeroed
      /\ \A q \in Kinds \ {k} : [s.rcp EXCEPT ![k] = zeroed][q] = s.rcp[q]
  <2> HIDE DEF zeroed
  <2> QED  BY <1>1, <1>2 DEF PerSlot, Kinds
<1>4. /\ reset \in Handling
      /\ reset.counters = s.counters /\ reset.activeIdx = s.activeIdx
      /\ reset.file = s.file /\ reset.force = s.force
      /\ reset.rcp = [s.rcp EXCEPT ![k] = zeroed]
  <2> HIDE DEF zeroed
  <2> QED  BY <1>3 DEF Handling
<1>5. /\ asked \in Handling
      /\ asked.counters = s.counters /\ asked.activeIdx = s.activeIdx
      /\ asked.file = s.file /\ asked.force = s.force
      /\ asked.rcp = [s.rcp EXCEPT ![k] = zeroed]
  <2> HIDE DEF reset, zeroed, known
  <2> QED  BY <1>4, AskedFacts
<1>6. t = [asked EXCEPT !.rcp[k] = [i \in SlotsOf(k) |->
              IF i \in known /\ s.counters[k][i].count > read
              THEN s.counters[k][i].count ELSE @[i]]]
  BY DEF Insert
<1>7. set \in [SlotsOf(k) -> Counter]
  <2>1. \A i \in SlotsOf(k) : asked.rcp[k][i] \in Counter
    <3> HIDE DEF asked, zeroed
    <3> QED  BY <1>2, <1>3, <1>5
  <2>2. \A i \in SlotsOf(k) : s.counters[k][i].count \in Counter
    BY <1>1 DEF PerSlot, CounterEntry
  <2> HIDE DEF asked, known
  <2> QED  BY <2>1, <2>2
<1>8. /\ [asked.rcp EXCEPT ![k] = set] \in PerSlot(Counter)
      /\ [asked.rcp EXCEPT ![k] = set][k] = set
      /\ \A q \in Kinds \ {k} : [asked.rcp EXCEPT ![k] = set][q] = s.rcp[q]
  <2> HIDE DEF asked, set, zeroed
  <2>1. asked.rcp \in PerSlot(Counter) /\ \A q \in Kinds \ {k} : asked.rcp[q] = s.rcp[q]
    BY <1>3, <1>5
  <2> QED  BY <2>1, <1>7 DEF PerSlot, Kinds
<1>9. /\ t \in Handling
      /\ t.counters = s.counters /\ t.activeIdx = s.activeIdx
      /\ t.file = s.file /\ t.force = s.force
      /\ t.rcp = [asked.rcp EXCEPT ![k] = set]
  <2>1. t = [asked EXCEPT !.rcp = [asked.rcp EXCEPT ![k] = set]]
    <3> HIDE DEF asked, known
    <3> QED  BY <1>6
  <2> HIDE DEF asked, set, t
  <2> QED  BY <1>5, <1>8, <2>1 DEF Handling
<1>10. ASSUME NEW i \in SlotsOf(k), keys[k][i] # NoKey, keys[k][i] = old[k][i]
       PROVE  t.rcp[k][i] = s.rcp[k][i]
  <2>1. i \notin fresh /\ zeroed[i] = s.rcp[k][i]  BY <1>10
  <2>2. t.rcp[k][i] = asked.rcp[k][i]
    <3>1. t.rcp[k] = set
      <4> HIDE DEF asked, set, t
      <4> QED  BY <1>8, <1>9
    <3>2. i \notin known  BY <2>1
    <3> HIDE DEF asked, known, t
    <3> QED  BY <3>1, <3>2
  <2>3. asked.rcp[k][i] = zeroed[i]
    <3> HIDE DEF asked, zeroed
    <3> QED  BY <1>3, <1>5
  <2> QED  BY <2>1, <2>2, <2>3
<1>11. \A q \in Kinds \ {k} : t.rcp[q] = s.rcp[q]
  <2> HIDE DEF asked, set, t
  <2> QED  BY <1>8, <1>9
<1> HIDE DEF asked, set
<1> QED  BY <1>9, <1>10, <1>11

-----------------------------------------------------------------------------
(***************************************************************************)
(* Both kinds are stored, one after the other.                              *)
(***************************************************************************)
\* The controller is in order: it knows of the active keys, and nothing the
\* file f or its own file promises is forgotten.
InOrder(f, s, keys, act) ==
    /\ Kept(f, s, keys) /\ Kept(s.file, s, keys)
    /\ \A k \in Kinds : Knows(s, k, act[k], keys)

Both(s, u, keys, act, read) ==
    Store(Store(s, "gtk", u, keys, act["gtk"], read), "lgtk", u, keys, act["lgtk"], read)

LEMMA BothFacts ==
    ASSUME NEW s \in Handling, NEW u \in BOOLEAN, NEW keys \in PerSlot(Key),
           NEW act, \A k \in Kinds : act[k] \in SlotsOf(k) /\ keys[k][act[k]] # NoKey,
           NEW read \in Counter, NEW f \in File,
           Kept(f, s, keys), Kept(s.file, s, keys),
           \A k \in Kinds : s.activeIdx[k] # act[k] \/ Knows(s, k, act[k], keys)
    PROVE  LET t == Both(s, u, keys, act, read)
           IN  /\ t \in Handling /\ t.force = s.force
               /\ InOrder(f, t, keys, act)
               /\ t.file = s.file \/ t.file.exists
               /\ (\A k \in Kinds : Knows(s, k, act[k], keys)) => t.rcp = s.rcp
<1> DEFINE m == Store(s, "gtk", u, keys, act["gtk"], read)
           t == Store(m, "lgtk", u, keys, act["lgtk"], read)
<1>1. "gtk" \in Kinds /\ "lgtk" \in Kinds /\ Kinds = {"gtk", "lgtk"}  BY DEF Kinds
<1>2. m \in Handling /\ m.force = s.force /\ m.activeIdx["lgtk"] = s.activeIdx["lgtk"]
      /\ (m.file = s.file \/ m.file = FileOf(m.counters))
  BY <1>1, StoreFacts
<1>3. Kept(f, m, keys) /\ Kept(m.file, m, keys)
  BY <1>1, StoreKeeps
<1>4. /\ Knows(m, "gtk", act["gtk"], keys)
      /\ Knows(s, "lgtk", act["lgtk"], keys) => Knows(m, "lgtk", act["lgtk"], keys)
  BY <1>1, StoreKnows
<1>5. /\ \A k \in Kinds : Knows(s, k, act[k], keys) => m.rcp[k] = s.rcp[k]
      /\ m.rcp["lgtk"] = s.rcp["lgtk"]
  <2>1. \A q \in Kinds \ {"gtk"} : m.rcp[q] = s.rcp[q]  BY <1>1, StoreFacts
  <2>2. ASSUME Knows(s, "gtk", act["gtk"], keys) PROVE m.rcp["gtk"] = s.rcp["gtk"]
    <3>1. ~Activated(s, "gtk", act["gtk"], keys)  BY <2>2 DEF Knows, Activated
    <3>2. \A i \in SlotsOf("gtk") : m.rcp["gtk"][i] = s.rcp["gtk"][i]
      BY <1>1, <3>1, StoreFacts
    <3>3. m.rcp["gtk"] \in [SlotsOf("gtk") -> Counter] /\ s.rcp["gtk"] \in [SlotsOf("gtk") -> Counter]
      <4> HIDE DEF m
      <4> QED  BY <1>1, <1>2 DEF Handling, PerSlot
    <3> HIDE DEF m
    <3> QED  BY <3>2, <3>3
  <2> HIDE DEF m
  <2> QED  BY <1>1, <2>1, <2>2
<1> HIDE DEF m
<1>6. t \in Handling /\ t.force = m.force /\ (t.file = m.file \/ t.file = FileOf(t.counters))
  BY <1>1, <1>2, StoreFacts
<1>7. Kept(f, t, keys) /\ Kept(t.file, t, keys)
  BY <1>1, <1>2, <1>3, StoreKeeps
<1>8. /\ Knows(t, "lgtk", act["lgtk"], keys)
      /\ Knows(t, "gtk", act["gtk"], keys)
  BY <1>1, <1>2, <1>4, StoreKnows
<1>9. (\A k \in Kinds : Knows(s, k, act[k], keys)) => t.rcp = s.rcp
  <2> SUFFICES ASSUME \A k \in Kinds : Knows(s, k, act[k], keys) PROVE t.rcp = s.rcp  OBVIOUS
  <2>1. \A q \in Kinds \ {"lgtk"} : t.rcp[q] = m.rcp[q]  BY <1>1, <1>2, StoreFacts
  <2>2. Knows(m, "lgtk", act["lgtk"], keys)  BY <1>1, <1>4
  <2>3. ~Activated(m, "lgtk", act["lgtk"], keys)  BY <2>2 DEF Knows, Activated
  <2>4. \A i \in SlotsOf("lgtk") : t.rcp["lgtk"][i] = m.rcp["lgtk"][i]
    BY <1>1, <1>2, <2>3, StoreFacts
  <2> HIDE DEF t
  <2>5. t.rcp \in PerSlot(Counter) /\ m.rcp \in PerSlot(Counter) /\ s.rcp \in PerSlot(Counter)
    BY <1>2, <1>6 DEF Handling
  <2>6. t.rcp["lgtk"] = m.rcp["lgtk"]  BY <1>1, <2>4, <2>5 DEF PerSlot
  <2>7. \A k \in Kinds : t.rcp[k] = s.rcp[k]  BY <1>1, <1>5, <2>1, <2>6
  <2> QED  BY <2>5, <2>7 DEF PerSlot
<1> HIDE DEF t
<1>10. t.file = s.file \/ t.file.exists
  <2>1. m.counters \in PerSlot(CounterEntry) /\ t.counters \in PerSlot(CounterEntry)
    BY <1>2, <1>6 DEF Handling
  <2> QED  BY <2>1, <1>2, <1>6, FileOfFacts
<1>11. InOrder(f, t, keys, act)
  BY <1>1, <1>7, <1>8 DEF InOrder
<1>12. Both(s, u, keys, act, read) = t  BY DEF Both, t, m
<1> QED  BY <1>2, <1>6, <1>9, <1>10, <1>11, <1>12

-----------------------------------------------------------------------------
(***************************************************************************)
(* The state and the record a handler starts from.                          *)
(***************************************************************************)
LEMMA HereFacts ==
    ASSUME Typed
    PROVE  /\ Here \in Handling
           /\ Here.counters = counters /\ Here.activeIdx = activeIdx /\ Here.rcp = rcp
           /\ Here.answers = answers /\ Here.file = file /\ Here.force = forceTimer
           /\ file \in File /\ mailbox \in Counter /\ table \in PerSlot(Key)
           /\ \A k \in Kinds : active[k] \in SlotsOf(k)
BY DEF Typed, TypeOK, Here, Handling, File, Key

\* A running daemon is in order.
LEMMA RunningInOrder ==
    ASSUME Inv, mode = "run"
    PROVE  InOrder(file, Here, table, active)
<1>1. Kept(file, Here, table)  BY DEF Inv, FileKept
<1>2. \A k \in Kinds : Knows(Here, k, active[k], table)
  BY HereFacts DEF Inv, Ready, Knows
<1>3. Here.file = file  BY HereFacts DEF Inv
<1> QED  BY <1>1, <1>2, <1>3 DEF InOrder

\* A step to a running daemon that is in order keeps the invariant and what
\* the file promised.
LEMMA RunningStep ==
    ASSUME Inv, NEW s \in Handling, Become(s), mode' = "run", mailbox' \in Counter,
           table' \in PerSlot(Key), active' \in Indices,
           \A k \in Kinds : active'[k] \in SlotsOf(k) /\ table'[k][active'[k]] # NoKey,
           InOrder(file, s, table', active'), s.file = file \/ s.file.exists,
           storeTimer' \in 1..StoreInterval, top' \in [Keys -> Counter], restarts' = restarts
    PROVE  Inv' /\ FileForward
<1>1. /\ counters' = s.counters /\ activeIdx' = s.activeIdx /\ rcp' = s.rcp
      /\ answers' = s.answers /\ file' = s.file /\ forceTimer' = s.force
  BY DEF Become
<1>2. TypeOK'
  BY <1>1 DEF TypeOK, Handling, File, Indices, Key, Inv, Typed
<1>3. Typed'  BY <1>1, <1>2 DEF Typed, Handling
<1>4. Formed'
  <2>1. ~s.file.exists => s.file = file  OBVIOUS
  <2> QED  BY <1>1, <2>1 DEF Formed, InUse, Inv
<1>5. Ready'  BY <1>1 DEF Ready, InOrder, Knows
<1>6. FileKept'
  <2>1. Kept(s.file, s, table')  BY DEF InOrder
  <2>2. Here'.counters = s.counters /\ Here'.file = s.file  BY <1>1 DEF Here
  <2> QED  BY <1>1, <2>1, <2>2 DEF FileKept, Kept
<1>7. FileForward
  <2>1. Kept(file, s, table')  BY DEF InOrder
  <2> QED  BY <1>1, <2>1 DEF FileForward, Kept
<1> QED  BY <1>3, <1>4, <1>5, <1>6, <1>7 DEF Inv

-----------------------------------------------------------------------------
(***************************************************************************)
(* The actions.                                                             *)
(***************************************************************************)
\* A read of the file raises counters and forgets none.
LEMMA ReadFacts ==
    ASSUME NEW f \in File,
           ~f.exists => \A k \in Kinds : \A i \in SlotsOf(k) : ~f.counters[k][i].set
    PROVE  /\ FrameCounterRead(f) \in PerSlot(CounterEntry)
           /\ \A k \in Kinds : \A i \in SlotsOf(k) :
                LET old == f.counters[k][i]
                    c == FrameCounterRead(f)[k][i]
                IN  old.set => c.set /\ c.key = old.key /\ c.count >= old.count
<1> DEFINE E(k, i) == IF ~f.exists THEN NoCounter
                      ELSE IF k = "gtk" THEN Raised(f.counters[k][i])
                      ELSE f.counters[k][i]
           G == [k \in Kinds |-> [i \in SlotsOf(k) |-> E(k, i)]]
<1>1. ASSUME NEW c \in CounterEntry
      PROVE  /\ Raised(c) \in CounterEntry
             /\ c.set => Raised(c).set /\ Raised(c).key = c.key /\ Raised(c).count >= c.count
  <2> DEFINE n == IF c.count < MaxCounter - Increment * 2 THEN c.count + Increment ELSE MaxCounter
  <2>1. c.count \in 0..MaxCounter  BY DEF CounterEntry, Counter
  <2>2. n \in 0..MaxCounter /\ n >= c.count
    <3>1. CASE c.count < MaxCounter - Increment * 2  BY <2>1, <3>1, CountersAssumption
    <3>2. CASE ~(c.count < MaxCounter - Increment * 2)  BY <2>1, <3>2, CountersAssumption
    <3> QED  BY <3>1, <3>2
  <2>3. Raised(c) = IF c.set THEN [c EXCEPT !.count = n, !.stored = n] ELSE c
    BY DEF Raised
  <2> HIDE DEF n
  <2> QED  BY <2>2, <2>3 DEF CounterEntry, Counter
<1>2. NoCounter \in CounterEntry
  BY CountersAssumption DEF NoCounter, CounterEntry, Counter
<1>3. ASSUME NEW k \in Kinds, NEW i \in SlotsOf(k)
      PROVE  /\ E(k, i) \in CounterEntry
             /\ f.counters[k][i].set => /\ E(k, i).set /\ E(k, i).key = f.counters[k][i].key
                                        /\ E(k, i).count >= f.counters[k][i].count
  <2>1. f.counters[k][i] \in CounterEntry  BY DEF File, PerSlot
  <2>2. f.counters[k][i].count \in Int  BY <2>1, CountersAssumption DEF CounterEntry, Counter
  <2> QED  BY <1>1, <1>2, <2>1, <2>2
<1>4. FrameCounterRead(f) = G  BY DEF FrameCounterRead
<1> HIDE DEF E
<1>5. G \in PerSlot(CounterEntry)
  <2>1. \A k \in Kinds : [i \in SlotsOf(k) |-> E(k, i)] \in [SlotsOf(k) -> CounterEntry]
    BY <1>3
  <2> QED  BY <2>1 DEF PerSlot, Kinds
<1>6. \A k \in Kinds : \A i \in SlotsOf(k) : G[k][i] = E(k, i)  OBVIOUS
<1> HIDE DEF G
<1> QED  BY <1>3, <1>4, <1>5, <1>6

LEMMA InitInv == Init => Inv
<1> SUFFICES ASSUME Init PROVE Inv  OBVIOUS
<1>1. 0 \in Counter  BY CountersAssumption DEF Counter
<1>2. NoCounter \in CounterEntry /\ ~NoCounter.set
  BY <1>1 DEF NoCounter, CounterEntry
<1>3. NoCounters \in PerSlot(CounterEntry) /\ Zero \in PerSlot(Counter) /\ NoKeys \in PerSlot(Key)
  BY <1>1, <1>2 DEF NoCounters, Zero, NoKeys, PerSlot, Kinds, Key
<1>4. \A k \in Kinds : 0 \in SlotsOf(k)  BY SlotsAssumption DEF SlotsOf, NumOf
<1>5. active \in Indices /\ activeIdx \in Indices /\ \A k \in Kinds : active[k] \in SlotsOf(k)
  BY <1>4 DEF Init, Indices, None
<1>6. table \in PerSlot(Key) /\ \A k \in Kinds : InUse(k) \in Keys
  <2>1. PICK g, l \in Keys : table = [NoKeys EXCEPT !["gtk"][active["gtk"]] = g,
                                                    !["lgtk"][active["lgtk"]] = l]
    BY DEF Init
  <2>2. /\ NoKeys["gtk"] \in [SlotsOf("gtk") -> Key] /\ NoKeys["lgtk"] \in [SlotsOf("lgtk") -> Key]
        /\ DOMAIN NoKeys = Kinds
    BY DEF NoKeys, Kinds, Key
  <2>3. /\ table["gtk"] = [NoKeys["gtk"] EXCEPT ![active["gtk"]] = g]
        /\ table["lgtk"] = [NoKeys["lgtk"] EXCEPT ![active["lgtk"]] = l]
        /\ table = [k \in Kinds |-> table[k]]
    BY <2>1, <2>2 DEF Kinds
  <2>4. /\ table["gtk"] \in [SlotsOf("gtk") -> Key] /\ table["lgtk"] \in [SlotsOf("lgtk") -> Key]
        /\ table["gtk"][active["gtk"]] = g /\ table["lgtk"][active["lgtk"]] = l
    BY <1>5, <2>2, <2>3 DEF Kinds, Key
  <2>5. table \in PerSlot(Key)  BY <2>3, <2>4 DEF PerSlot, Kinds
  <2> QED  BY <2>4, <2>5 DEF InUse, Kinds
<1>7. \A k \in Kinds : \A i \in SlotsOf(k) : NoCounters[k][i] = NoCounter  BY DEF NoCounters
<1>8. TypeOK
  <2>1. file \in [exists : BOOLEAN, counters : PerSlot(CounterEntry)]  BY <1>3 DEF Init
  <2>2. storeTimer \in 1..StoreInterval /\ forceTimer \in 0..ForceInterval /\ restarts \in 0..MaxRestarts
    BY CountersAssumption DEF Init
  <2>3. top \in [Keys -> Counter] /\ answers \in Seq(Counter)  BY <1>1 DEF Init
  <2> QED  BY <1>1, <1>3, <1>5, <1>6, <2>1, <2>2, <2>3 DEF TypeOK, Init, Key, Indices
<1>9. Formed
  BY <1>2, <1>6, <1>7, KeysAssumption DEF Formed, Init
<1>10. Ready /\ FileKept  BY DEF Ready, FileKept, Init
<1> QED  BY <1>5, <1>8, <1>9, <1>10 DEF Inv, Typed

\* The part of the record Kept and Knows depend on.
LEMMA SameEntries ==
    ASSUME NEW s, NEW t, t.counters = s.counters, t.activeIdx = s.activeIdx, t.file = s.file,
           NEW f, NEW keys
    PROVE  /\ Kept(f, s, keys) => Kept(f, t, keys)
           /\ \A k, j : Knows(s, k, j, keys) => Knows(t, k, j, keys)
BY DEF Kept, Knows

LEMMA StartStep == Inv /\ Start => Inv' /\ FileForward /\ RcpForward
<1> SUFFICES ASSUME Inv, Start PROVE Inv' /\ FileForward /\ RcpForward  OBVIOUS
<1> DEFINE read == IF mode = "down" THEN 0 ELSE mailbox
           s0 == [Here EXCEPT !.counters = FrameCounterRead(file),
                              !.answers = IF mode = "down" THEN <<>> ELSE @]
           sg == Insert(s0, "gtk", NoKeys, table, read)
           s1 == Insert(sg, "lgtk", NoKeys, table, read)
           s2 == Both(s1, TRUE, table, active, read)
<1>1. Typed  BY DEF Inv
<1>2. /\ "gtk" \in Kinds /\ "lgtk" \in Kinds /\ NoKeys \in PerSlot(Key)
  BY DEF Kinds, NoKeys, PerSlot, Key
<1>3. read \in Counter  BY <1>1, HereFacts, CountersAssumption DEF Counter
<1>4. /\ FrameCounterRead(file) \in PerSlot(CounterEntry)
      /\ \A k \in Kinds : \A i \in SlotsOf(k) :
            LET old == file.counters[k][i]
                c == FrameCounterRead(file)[k][i]
            IN  old.set => c.set /\ c.key = old.key /\ c.count >= old.count
  BY <1>1, HereFacts, ReadFacts DEF Inv, Formed
<1>5. /\ s0 \in Handling /\ s0.counters = FrameCounterRead(file)
      /\ s0.activeIdx = activeIdx /\ s0.file = file
  <2> DEFINE a == IF mode = "down" THEN <<>> ELSE Here.answers
  <2>1. Here \in Handling /\ Here.activeIdx = activeIdx /\ Here.file = file  BY <1>1, HereFacts
  <2>2. a \in Seq(Counter)  BY <2>1 DEF Handling
  <2>3. s0 = [Here EXCEPT !.counters = FrameCounterRead(file), !.answers = a]
    BY <2>1 DEF Handling
  <2> HIDE DEF a, s0
  <2> QED  BY <1>4, <2>1, <2>2, <2>3 DEF Handling
<1>6. Kept(file, s0, table)
  <2>1. \A k \in Kinds : \A i \in SlotsOf(k) : file.counters[k][i].count \in Int
    BY <1>1, HereFacts, CountersAssumption DEF File, PerSlot, CounterEntry, Counter
  <2> HIDE DEF s0
  <2> QED  BY <1>4, <1>5, <2>1 DEF Kept
<1> HIDE DEF s0, read
<1>7. /\ sg \in Handling
      /\ sg.counters = s0.counters /\ sg.activeIdx = s0.activeIdx /\ sg.file = s0.file
  BY <1>1, <1>2, <1>3, <1>5, HereFacts, InsertFacts
<1> HIDE DEF sg
<1>8. /\ s1 \in Handling
      /\ s1.counters = s0.counters /\ s1.activeIdx = s0.activeIdx /\ s1.file = s0.file
  BY <1>1, <1>2, <1>3, <1>7, HereFacts, InsertFacts
<1> HIDE DEF s1
<1>9. Kept(file, s1, table) /\ Kept(s1.file, s1, table)
  <2>1. Kept(file, s1, table)  BY <1>6, <1>8, SameEntries
  <2> QED  BY <2>1, <1>5, <1>8
<1>10. \A k \in Kinds : s1.activeIdx[k] # active[k]
  <2>1. \A k \in Kinds : activeIdx[k] = None /\ active[k] \in SlotsOf(k)
    BY <1>1, HereFacts DEF Inv, Ready, Start
  <2>2. \A k \in Kinds : None \notin SlotsOf(k)  BY DEF None, SlotsOf
  <2> QED  BY <1>5, <1>8, <2>1, <2>2
<1>11. /\ file \in File /\ table \in PerSlot(Key)
       /\ \A k \in Kinds : active[k] \in SlotsOf(k) /\ table[k][active[k]] # NoKey
  BY <1>1, HereFacts DEF Inv, Formed, InUse
<1>12. /\ s2 \in Handling /\ InOrder(file, s2, table, active)
       /\ s2.file = file \/ s2.file.exists
  <2>1. s1.file = file  BY <1>5, <1>8
  <2>2. \A k \in Kinds : s1.activeIdx[k] # active[k] \/ Knows(s1, k, active[k], table)  BY <1>10
  <2> QED  BY <2>1, <2>2, <1>3, <1>8, <1>9, <1>11, BothFacts
<1>13. /\ Become(s2) /\ mode' = "run" /\ mailbox' = read
       /\ table' = table /\ active' = active /\ storeTimer' = storeTimer
       /\ top' = top /\ restarts' = restarts
  BY DEF Start, Both, s1, sg, s0, read
<1> HIDE DEF s2
<1>14. Inv' /\ FileForward
  <2>1. /\ mailbox' \in Counter /\ table' \in PerSlot(Key) /\ active' \in Indices
        /\ storeTimer' \in 1..StoreInterval /\ top' \in [Keys -> Counter]
    BY <1>1, <1>3, <1>11, <1>13 DEF Typed, TypeOK
  <2>2. /\ \A k \in Kinds : active'[k] \in SlotsOf(k) /\ table'[k][active'[k]] # NoKey
        /\ InOrder(file, s2, table', active')
    BY <1>11, <1>12, <1>13
  <2> QED  BY <1>12, <1>13, <2>1, <2>2, RunningStep
<1>15. RcpForward  BY DEF RcpForward, Start
<1> QED  BY <1>14, <1>15

LEMMA AnswerStep == Inv /\ Answer => Inv' /\ FileForward /\ RcpForward
<1> SUFFICES ASSUME Inv, Answer PROVE Inv' /\ FileForward /\ RcpForward  OBVIOUS
<1>1. TypeOK  BY DEF Inv, Typed
<1>2. mailbox' \in Counter /\ answers' \in Seq(Counter)
  <2>1. answers \in Seq(Counter) /\ answers # <<>>  BY <1>1 DEF TypeOK, Answer
  <2> QED  BY <2>1 DEF Answer
<1>3. TypeOK'  BY <1>1, <1>2 DEF TypeOK, Answer
<1>4. Typed' /\ Formed' /\ Ready'
  BY <1>3 DEF Inv, Typed, Formed, Ready, InUse, Answer
<1>5. FileKept'
  BY DEF Inv, FileKept, Kept, Here, Answer
<1>6. FileForward
  <2>1. \A k \in Kinds : \A i \in SlotsOf(k) : file.counters[k][i].count \in Int
    BY <1>1, CountersAssumption DEF TypeOK, PerSlot, CounterEntry, Counter
  <2> QED  BY <2>1 DEF FileForward, Answer
<1>7. RcpForward
  <2>1. \A k \in Kinds : rcp[k][active[k]] \in Int
    BY <1>1, CountersAssumption DEF TypeOK, PerSlot, Counter
  <2> QED  BY <2>1 DEF RcpForward, Answer
<1> QED  BY <1>4, <1>5, <1>6, <1>7 DEF Inv

LEMMA ChangeKeyStep ==
    ASSUME Inv, NEW k \in Kinds, NEW i \in SlotsOf(k), NEW key \in NewKeys \cup {NoKey},
           ChangeKey(k, i, key)
    PROVE  Inv' /\ FileForward /\ RcpForward
<1> DEFINE keys == [table EXCEPT ![k][i] = key]
           s == Insert(Here, k, table, keys, mailbox)
<1>1. Typed /\ mode = "run"  BY DEF Inv, ChangeKey
<1>2. InOrder(file, Here, table, active)  BY <1>1, RunningInOrder
<1>3. /\ keys \in PerSlot(Key) /\ keys[k][i] = key
      /\ \A q \in Kinds : \A j \in SlotsOf(q) : (q # k \/ j # i) => keys[q][j] = table[q][j]
  <2>1. key \in Key  BY DEF NewKeys, Key
  <2>2. table \in PerSlot(Key)  BY <1>1, HereFacts
  <2>3. [table[k] EXCEPT ![i] = key] \in [SlotsOf(k) -> Key]  BY <2>1, <2>2 DEF PerSlot
  <2>4. keys[k] = [table[k] EXCEPT ![i] = key] /\ \A q \in Kinds \ {k} : keys[q] = table[q]
    BY <2>2 DEF PerSlot
  <2>5. keys \in PerSlot(Key)  BY <2>2, <2>3, <2>4 DEF PerSlot, Kinds
  <2> HIDE DEF keys
  <2> QED  BY <2>2, <2>3, <2>4, <2>5 DEF PerSlot
<1>4. /\ Become(s) /\ mode' = "run" /\ table' = keys /\ active' = active /\ mailbox' = mailbox
      /\ storeTimer' = storeTimer /\ top' = top /\ restarts' = restarts /\ i # active[k]
  BY DEF ChangeKey
<1> HIDE DEF keys
<1>5. /\ s \in Handling
      /\ s.counters = counters /\ s.activeIdx = activeIdx /\ s.file = file
      /\ \A q \in Kinds \ {k} : s.rcp[q] = rcp[q]
      /\ \A j \in SlotsOf(k) : keys[k][j] # NoKey /\ keys[k][j] = table[k][j]
                                  => s.rcp[k][j] = rcp[k][j]
  BY <1>1, <1>3, HereFacts, InsertFacts
<1> HIDE DEF s
<1>6. \A q \in Kinds : /\ active[q] \in SlotsOf(q) /\ keys[q][active[q]] = table[q][active[q]]
                       /\ keys[q][active[q]] # NoKey
  BY <1>1, <1>3, <1>4, HereFacts DEF Inv, Formed, InUse
<1>7. InOrder(file, s, keys, active)
  <2>1. Kept(file, Here, table) /\ \A q \in Kinds : Knows(Here, q, active[q], table)
    BY <1>2 DEF InOrder
  <2>2. key = NoKey \/ \A q \in Kinds : \A j \in SlotsOf(q) : key # file.counters[q][j].key
    BY DEF NewKeys
  <2>3. Here.counters = counters /\ Here.file = file /\ Here.activeIdx = activeIdx
    BY <1>1, HereFacts
  <2>4. ASSUME NEW q \in Kinds, NEW j \in SlotsOf(q), file.counters[q][j].key # NoKey,
               file.counters[q][j].key = keys[q][j]
        PROVE  file.counters[q][j].key = table[q][j]
    BY <1>3, <2>2, <2>4
  <2>5. Kept(file, s, keys)
    BY <1>5, <2>1, <2>3, <2>4 DEF Kept
  <2>6. \A q \in Kinds : Knows(s, q, active[q], keys)
    BY <1>5, <1>6, <2>1, <2>3 DEF Knows, Covered
  <2> QED  BY <1>5, <2>5, <2>6 DEF InOrder
<1>8. Inv' /\ FileForward
  <2>1. /\ mailbox' \in Counter /\ table' \in PerSlot(Key) /\ active' \in Indices
        /\ storeTimer' \in 1..StoreInterval /\ top' \in [Keys -> Counter]
    BY <1>1, <1>3, <1>4 DEF Typed, TypeOK
  <2>2. /\ \A q \in Kinds : active'[q] \in SlotsOf(q) /\ table'[q][active'[q]] # NoKey
        /\ InOrder(file, s, table', active')
    BY <1>4, <1>6, <1>7
  <2> QED  BY <1>4, <1>5, <2>1, <2>2, RunningStep
<1>9. RcpForward
  <2>1. \A q \in Kinds : rcp'[q][active[q]] = rcp[q][active[q]]
    BY <1>4, <1>5, <1>6 DEF Become
  <2>2. \A q \in Kinds : rcp[q][active[q]] \in Int
    BY <1>1, <1>6, CountersAssumption DEF Typed, TypeOK, PerSlot, Counter
  <2> QED  BY <2>1, <2>2 DEF RcpForward
<1> QED  BY <1>8, <1>9

LEMMA ActivateStep ==
    ASSUME Inv, NEW k \in Kinds, NEW i \in SlotsOf(k), Activate(k, i)
    PROVE  Inv' /\ FileForward /\ RcpForward
<1> DEFINE act == [active EXCEPT ![k] = i]
           s == Store(Here, k, TRUE, table, i, mailbox)
<1>1. Typed /\ mode = "run"  BY DEF Inv, Activate
<1>2. InOrder(file, Here, table, active)  BY <1>1, RunningInOrder
<1>3. /\ Become(s) /\ mode' = "run" /\ table' = table /\ active' = act /\ mailbox' = mailbox
      /\ storeTimer' = storeTimer /\ top' = top /\ restarts' = restarts
      /\ i # active[k] /\ table[k][i] # NoKey
  BY DEF Activate
<1>4. /\ Here \in Handling /\ Here.counters = counters /\ Here.activeIdx = activeIdx
      /\ Here.file = file /\ Here.rcp = rcp
      /\ file \in File /\ mailbox \in Counter /\ table \in PerSlot(Key)
      /\ \A q \in Kinds : active[q] \in SlotsOf(q)
  BY <1>1, HereFacts
<1>5. /\ act \in Indices /\ act[k] = i /\ \A q \in Kinds \ {k} : act[q] = active[q]
      /\ \A q \in Kinds : act[q] \in SlotsOf(q)
  <2>1. active \in Indices  BY <1>1 DEF Typed
  <2>2. i \in Int  BY SlotCount
  <2> QED  BY <1>4, <2>1, <2>2 DEF Indices
<1>6. \A q \in Kinds : table[q][act[q]] # NoKey
  BY <1>3, <1>5 DEF Inv, Formed, InUse
<1> HIDE DEF act
<1>8. /\ s \in Handling /\ (s.file = file \/ s.file = FileOf(s.counters))
      /\ \A q \in Kinds \ {k} : s.rcp[q] = rcp[q]
      /\ \A j \in SlotsOf(k) : j # i => s.rcp[k][j] = rcp[k][j]
  <2>1. /\ s \in Handling /\ (s.file = Here.file \/ s.file = FileOf(s.counters))
        /\ \A q \in Kinds \ {k} : s.rcp[q] = Here.rcp[q]
        /\ \A j \in SlotsOf(k) : j # i => s.rcp[k][j] = Here.rcp[k][j]
    <3> DEFINE u == TRUE
    <3>1. u \in BOOLEAN /\ s = Store(Here, k, u, table, i, mailbox)  OBVIOUS
    <3> HIDE DEF u, s
    <3> QED  BY <1>4, <3>1, StoreFacts
  <2> QED  BY <1>4, <2>1
<1>9. Kept(file, s, table) /\ Kept(s.file, s, table)
  <2>1. Kept(file, Here, table) /\ Kept(Here.file, Here, table)  BY <1>2 DEF InOrder
  <2> QED  BY <1>4, <2>1, StoreKeeps
<1>10. \A q \in Kinds : Knows(s, q, act[q], table)
  <2>1. \A q \in Kinds : Knows(Here, q, active[q], table)  BY <1>2 DEF InOrder
  <2>2. Here.activeIdx[k] # i  BY <1>3, <2>1 DEF Knows
  <2>3. Knows(s, k, i, table)
    BY <1>3, <1>4, <2>2, StoreKnows
  <2>4. \A q \in Kinds \ {k} : Knows(s, q, active[q], table)
    BY <1>3, <1>4, <2>1, StoreKnows
  <2> QED  BY <1>5, <2>3, <2>4
<1> HIDE DEF s
<1>11. Inv' /\ FileForward
  <2>1. /\ mailbox' \in Counter /\ table' \in PerSlot(Key) /\ active' \in Indices
        /\ storeTimer' \in 1..StoreInterval /\ top' \in [Keys -> Counter]
    BY <1>1, <1>3, <1>4, <1>5 DEF Typed, TypeOK
  <2>2. /\ \A q \in Kinds : active'[q] \in SlotsOf(q) /\ table'[q][active'[q]] # NoKey
        /\ InOrder(file, s, table', active')
    BY <1>3, <1>5, <1>6, <1>9, <1>10 DEF InOrder
  <2>3. s.file = file \/ s.file.exists
    <3>1. s.counters \in PerSlot(CounterEntry)  BY <1>8 DEF Handling
    <3> QED  BY <1>8, <3>1, FileOfFacts
  <2> QED  BY <1>3, <1>8, <2>1, <2>2, <2>3, RunningStep
<1>12. RcpForward
  <2>1. \A q \in Kinds : rcp'[q][active[q]] = rcp[q][active[q]]
    BY <1>3, <1>4, <1>8 DEF Become
  <2>2. \A q \in Kinds : rcp[q][active[q]] \in Int
    BY <1>1, <1>4, CountersAssumption DEF Typed, TypeOK, PerSlot, Counter
  <2> QED  BY <2>1, <2>2 DEF RcpForward
<1> QED  BY <1>11, <1>12

LEMMA SlowTimerStep ==
    ASSUME Inv, NEW frames \in [Kinds -> 0..Rate], SlowTimer(frames)
    PROVE  Inv' /\ FileForward /\ RcpForward
<1> DEFINE sent == [k \in Kinds |-> [rcp[k] EXCEPT ![active[k]] = @ + frames[k]]]
           s0 == [Here EXCEPT !.rcp = sent]
           s1 == IF storeTimer > 1 THEN s0 ELSE StoreBoth(s0)
           lower == [s1 EXCEPT !.force = @ - 1]
           zero == [s1 EXCEPT !.force = 0]
           s2 == IF forceTimer > 1 THEN lower ELSE StoreBoth(zero)
           Ok(s) == s \in Handling /\ InOrder(file, s, table, active) /\ s.rcp = sent
                    /\ (s.file = file \/ s.file.exists)
<1>1. Typed /\ mode = "run"  BY DEF Inv, SlowTimer
<1>2. InOrder(file, Here, table, active)  BY <1>1, RunningInOrder
<1>3. /\ Become(s2) /\ mode' = "run" /\ table' = table /\ active' = active /\ mailbox' = mailbox
      /\ storeTimer' = (IF storeTimer > 1 THEN storeTimer - 1 ELSE StoreInterval)
      /\ restarts' = restarts /\ \A k \in Kinds : sent[k][active[k]] <= MaxCounter
      /\ top' = [key \in Keys |->
                    IF \E k \in Kinds : key = table[k][active[k]] /\ frames[k] > 0
                    THEN LET k == CHOOSE k \in Kinds : key = table[k][active[k]] /\ frames[k] > 0
                         IN  Larger(top[key], sent[k][active[k]])
                    ELSE top[key]]
  BY <1>1 DEF SlowTimer, StoreBoth
<1>4. /\ Here \in Handling /\ Here.counters = counters /\ Here.activeIdx = activeIdx
      /\ Here.file = file /\ Here.force = forceTimer
      /\ file \in File /\ mailbox \in Counter /\ table \in PerSlot(Key)
      /\ \A q \in Kinds : active[q] \in SlotsOf(q)
  BY <1>1, HereFacts
<1>5. \A q \in Kinds : table[q][active[q]] # NoKey  BY DEF Inv, Formed, InUse
<1>6. \A k \in Kinds : /\ sent[k] \in [SlotsOf(k) -> Counter]
                       /\ sent[k][active[k]] >= rcp[k][active[k]]
                       /\ sent[k][active[k]] \in Counter
  <2> SUFFICES ASSUME NEW k \in Kinds
               PROVE  /\ sent[k] \in [SlotsOf(k) -> Counter]
                      /\ sent[k][active[k]] >= rcp[k][active[k]]
                      /\ sent[k][active[k]] \in Counter
    OBVIOUS
  <2>1. rcp[k] \in [SlotsOf(k) -> Counter]  BY <1>1 DEF Typed, TypeOK, PerSlot
  <2>2. rcp[k][active[k]] \in Nat /\ frames[k] \in Nat
    BY <1>4, <2>1, CountersAssumption DEF Counter
  <2>3. sent[k] = [rcp[k] EXCEPT ![active[k]] = rcp[k][active[k]] + frames[k]]  OBVIOUS
  <2>4. sent[k][active[k]] = rcp[k][active[k]] + frames[k]  BY <1>4, <2>1, <2>3
  <2>5. rcp[k][active[k]] + frames[k] \in Counter
    BY <1>3, <2>2, <2>4, CountersAssumption DEF Counter
  <2> HIDE DEF sent
  <2> QED  BY <1>4, <2>1, <2>2, <2>3, <2>4, <2>5
<1>7. sent \in PerSlot(Counter)
  <2>1. DOMAIN sent = Kinds /\ sent = [k \in Kinds |-> sent[k]]  OBVIOUS
  <2> HIDE DEF sent
  <2> QED  BY <1>6, <2>1 DEF PerSlot, Kinds
<1> HIDE DEF sent
<1>8. Ok(s0)
  <2>1. /\ s0 \in Handling /\ s0.rcp = sent /\ s0.counters = Here.counters
        /\ s0.activeIdx = Here.activeIdx /\ s0.file = Here.file
    BY <1>4, <1>7 DEF Handling
  <2> HIDE DEF s0
  <2>2. InOrder(file, s0, table, active)
    BY <1>2, <2>1, SameEntries DEF InOrder
  <2> QED  BY <1>4, <2>1, <2>2
<1>9. ASSUME NEW s, Ok(s) PROVE Ok(StoreBoth(s)) /\ StoreBoth(s).force = s.force
  <2>1. StoreBoth(s) = Both(s, TRUE, table, active, mailbox)  BY DEF StoreBoth, Both
  <2>2. /\ Kept(file, s, table) /\ Kept(s.file, s, table)
        /\ \A k \in Kinds : Knows(s, k, active[k], table)
    BY <1>9 DEF InOrder
  <2>3. \A k \in Kinds : s.activeIdx[k] # active[k] \/ Knows(s, k, active[k], table)
    BY <2>2
  <2> DEFINE t == Both(s, TRUE, table, active, mailbox)
  <2>4. /\ t \in Handling /\ t.force = s.force
        /\ InOrder(file, t, table, active)
        /\ t.file = s.file \/ t.file.exists
        /\ (\A k \in Kinds : Knows(s, k, active[k], table)) => t.rcp = s.rcp
    <3>1. s \in Handling  BY <1>9
    <3>2. \A k \in Kinds : active[k] \in SlotsOf(k) /\ table[k][active[k]] # NoKey  BY <1>4, <1>5
    <3> DEFINE u == TRUE
    <3>3. u \in BOOLEAN /\ t = Both(s, u, table, active, mailbox)  OBVIOUS
    <3> HIDE DEF Ok, u, t
    <3> QED  BY <1>4, <2>2, <2>3, <3>1, <3>2, <3>3, BothFacts
  <2> HIDE DEF t
  <2> QED  BY <1>9, <2>1, <2>2, <2>4 DEF t
<1>10. Ok(s1) /\ s1.force = forceTimer
  <2>1. s0.force = forceTimer  BY <1>4 DEF Handling
  <2> HIDE DEF s0, Ok
  <2> QED  BY <1>8, <1>9, <2>1
<1>11. ASSUME NEW n \in 0..ForceInterval PROVE Ok([s1 EXCEPT !.force = n])
  <2> DEFINE t == [s1 EXCEPT !.force = n]
  <2> HIDE DEF s1
  <2>1. /\ t \in Handling /\ t.rcp = s1.rcp /\ t.counters = s1.counters
        /\ t.activeIdx = s1.activeIdx /\ t.file = s1.file
    BY <1>10 DEF Handling
  <2> HIDE DEF t
  <2>2. InOrder(file, t, table, active)
    BY <1>10, <2>1, SameEntries DEF InOrder
  <2> QED  BY <1>10, <2>1, <2>2 DEF t
<1>12. Ok(s2)
  <2>1. forceTimer \in 0..ForceInterval /\ ForceInterval \in Nat
    BY <1>1, CountersAssumption DEF Typed, TypeOK
  <2>2. CASE forceTimer > 1
    <3>1. forceTimer - 1 \in 0..ForceInterval  BY <2>1, <2>2
    <3>2. lower = [s1 EXCEPT !.force = forceTimer - 1]
      <4> HIDE DEF s1
      <4> QED  BY <1>10 DEF Handling
    <3> HIDE DEF Ok, s1
    <3>3. Ok(lower)
      <4> HIDE DEF lower
      <4> QED  BY <1>11, <3>1, <3>2
    <3> QED  BY <2>2, <3>3
  <2>3. CASE ~(forceTimer > 1)
    <3>1. 0 \in 0..ForceInterval  BY <2>1
    <3> HIDE DEF Ok, s1
    <3>2. Ok(zero)  BY <1>11, <3>1
    <3> HIDE DEF zero
    <3> QED  BY <1>9, <2>3, <3>2
  <2> QED  BY <2>2, <2>3
<1> HIDE DEF s2
<1>13. top' \in [Keys -> Counter]
  <2> SUFFICES ASSUME NEW key \in Keys PROVE top'[key] \in Counter
    BY <1>3
  <2>1. top[key] \in Counter  BY <1>1 DEF Typed, TypeOK
  <2>2. CASE \E k \in Kinds : key = table[k][active[k]] /\ frames[k] > 0
    <3> DEFINE k == CHOOSE k \in Kinds : key = table[k][active[k]] /\ frames[k] > 0
    <3>1. k \in Kinds  BY <2>2
    <3>2. top'[key] = Larger(top[key], sent[k][active[k]])  BY <1>3, <2>2
    <3> HIDE DEF k
    <3> QED  BY <1>6, <2>1, <3>1, <3>2 DEF Larger
  <2>3. CASE ~(\E k \in Kinds : key = table[k][active[k]] /\ frames[k] > 0)
    BY <1>3, <2>1, <2>3
  <2> QED  BY <2>2, <2>3
<1>14. storeTimer' \in 1..StoreInterval
  <2>1. storeTimer \in 1..StoreInterval  BY <1>1 DEF Typed, TypeOK
  <2>2. storeTimer' = IF storeTimer > 1 THEN storeTimer - 1 ELSE StoreInterval  BY <1>3
  <2> QED  BY <2>1, <2>2, CountersAssumption
<1>15. Inv' /\ FileForward
  <2>1. mailbox' \in Counter /\ table' \in PerSlot(Key) /\ active' \in Indices
    BY <1>1, <1>3, <1>4 DEF Typed
  <2>2. /\ \A q \in Kinds : active'[q] \in SlotsOf(q) /\ table'[q][active'[q]] # NoKey
        /\ InOrder(file, s2, table', active')
    BY <1>3, <1>4, <1>5, <1>12
  <2>3. /\ s2 \in Handling /\ Become(s2) /\ mode' = "run" /\ restarts' = restarts
        /\ s2.file = file \/ s2.file.exists
    BY <1>3, <1>12
  <2> QED  BY <1>13, <1>14, <2>1, <2>2, <2>3, RunningStep
<1>16. RcpForward
  <2>1. rcp' = sent  BY <1>3, <1>12 DEF Become
  <2> QED  BY <1>6, <2>1 DEF RcpForward
<1> QED  BY <1>15, <1>16

\* What the daemon leaves when it goes down.
LEMMA DownFacts ==
    ASSUME Inv, NEW m \in {"down", "stopped"}, NEW f \in File, Down(m, f),
           mailbox' \in Counter, answers' \in Seq(Counter), f = file \/ f.exists
    PROVE  Inv'
<1>1. Typed  BY DEF Inv
<1>2. 0 \in Counter  BY CountersAssumption DEF Counter
<1>3. NoCounter \in CounterEntry  BY <1>2 DEF NoCounter, CounterEntry
<1>4. NoCounters \in PerSlot(CounterEntry) /\ Zero \in PerSlot(Counter)
  BY <1>2, <1>3 DEF NoCounters, Zero, PerSlot, Kinds
<1>5. /\ counters' = NoCounters /\ rcp' = Zero /\ file' = f /\ mode' = m
      /\ table' = table /\ active' = active /\ top' = top
      /\ activeIdx' = [k \in Kinds |-> None]
  BY DEF Down
<1>6. storeTimer' \in 1..StoreInterval /\ forceTimer' \in 0..ForceInterval
  BY CountersAssumption DEF Down
<1>7. restarts' \in 0..MaxRestarts
  BY <1>1, CountersAssumption DEF Down, Typed, TypeOK
<1>8. TypeOK'
  BY <1>1, <1>4, <1>5, <1>6, <1>7 DEF TypeOK, Typed, File
<1>9. Typed'
  <2>1. activeIdx' \in Indices  BY <1>5 DEF Indices, None
  <2> QED  BY <1>1, <1>5, <1>8, <2>1 DEF Typed
<1>10. Formed'
  <2>1. ~f.exists => f = file  OBVIOUS
  <2> QED  BY <1>5, <2>1 DEF Formed, InUse, Inv
<1>11. Ready' /\ FileKept'
  BY <1>5 DEF Ready, FileKept
<1> QED  BY <1>9, <1>10, <1>11 DEF Inv

LEMMA StopStep == Inv /\ Stop => Inv' /\ FileForward /\ RcpForward
<1> SUFFICES ASSUME Inv, Stop PROVE Inv' /\ FileForward /\ RcpForward  OBVIOUS
<1> DEFINE s == Both(Here, FALSE, table, active, mailbox)
<1>1. Typed /\ mode = "run"  BY DEF Inv, Stop
<1>2. InOrder(file, Here, table, active)  BY <1>1, RunningInOrder
<1>3. /\ Here \in Handling /\ Here.file = file
      /\ file \in File /\ mailbox \in Counter /\ table \in PerSlot(Key)
      /\ \A q \in Kinds : active[q] \in SlotsOf(q) /\ table[q][active[q]] # NoKey
  BY <1>1, HereFacts DEF Inv, Formed, InUse
<1>4. /\ Kept(file, Here, table) /\ Kept(Here.file, Here, table)
      /\ \A k \in Kinds : Here.activeIdx[k] # active[k] \/ Knows(Here, k, active[k], table)
  BY <1>2 DEF InOrder
<1>5. /\ s \in Handling /\ InOrder(file, s, table, active)
      /\ s.file = Here.file \/ s.file.exists
  BY <1>3, <1>4, BothFacts
<1>6. Down("stopped", s.file) /\ answers' = s.answers /\ mailbox' = mailbox
  BY DEF Stop, Both
<1> HIDE DEF s
<1>7. s.file \in File /\ answers' \in Seq(Counter)  BY <1>5, <1>6 DEF Handling
<1>8. Inv'
  <2>1. s.file = file \/ s.file.exists  BY <1>3, <1>5
  <2>2. "stopped" \in {"down", "stopped"} /\ mailbox' \in Counter  BY <1>3, <1>6
  <2> QED  BY <1>6, <1>7, <2>1, <2>2, DownFacts
<1>9. FileForward
  <2>1. Kept(file, s, table)  BY <1>5 DEF InOrder
  <2> QED  BY <1>6, <2>1 DEF FileForward, Kept, Down
<1>10. RcpForward  BY <1>6 DEF RcpForward, Down
<1> QED  BY <1>8, <1>9, <1>10

LEMMA CrashStep == Inv /\ Crash => Inv' /\ FileForward /\ RcpForward
<1> SUFFICES ASSUME Inv, Crash PROVE Inv' /\ FileForward /\ RcpForward  OBVIOUS
<1>1. Typed  BY DEF Inv
<1>2. file \in File  BY <1>1, HereFacts
<1>3. Down("down", file) /\ mailbox' \in Counter /\ answers' \in Seq(Counter)
  BY CountersAssumption DEF Crash, Counter
<1>4. Inv'
  <2>1. "down" \in {"down", "stopped"}  OBVIOUS
  <2> QED  BY <1>2, <1>3, <2>1, DownFacts
<1>5. FileForward
  <2>1. \A k \in Kinds : \A i \in SlotsOf(k) : file.counters[k][i].count \in Int
    BY <1>2, CountersAssumption DEF File, PerSlot, CounterEntry, Counter
  <2> QED  BY <1>3, <2>1 DEF FileForward, Down
<1>6. RcpForward  BY <1>3 DEF RcpForward, Down
<1> QED  BY <1>4, <1>5, <1>6

LEMMA NextStep == Inv /\ Next => Inv' /\ RcpForward /\ FileForward
<1> SUFFICES ASSUME Inv, Next PROVE Inv' /\ RcpForward /\ FileForward  OBVIOUS
<1>1. CASE Start  BY <1>1, StartStep
<1>2. CASE Answer  BY <1>2, AnswerStep
<1>3. CASE \E k \in Kinds : \E i \in SlotsOf(k), key \in NewKeys \cup {NoKey} : ChangeKey(k, i, key)
  BY <1>3, ChangeKeyStep
<1>4. CASE \E k \in Kinds : \E i \in SlotsOf(k) : Activate(k, i)  BY <1>4, ActivateStep
<1>5. CASE \E frames \in [Kinds -> 0..Rate] : SlowTimer(frames)  BY <1>5, SlowTimerStep
<1>6. CASE Stop  BY <1>6, StopStep
<1>7. CASE Crash  BY <1>7, CrashStep
<1> QED  BY <1>1, <1>2, <1>3, <1>4, <1>5, <1>6, <1>7 DEF Next

LEMMA StutterInv == Inv /\ UNCHANGED vars => Inv'
<1> SUFFICES ASSUME Inv, UNCHANGED vars PROVE Inv'  OBVIOUS
<1>1. Typed'  BY DEF Inv, Typed, TypeOK, vars
<1>2. Formed'  BY DEF Inv, Formed, InUse, vars
<1>3. Ready'  BY DEF Inv, Ready, vars
<1>4. FileKept'  BY DEF Inv, FileKept, Kept, Here, vars
<1> QED  BY <1>1, <1>2, <1>3, <1>4 DEF Inv

LEMMA InvHolds == Spec => []Inv
<1>1. Init => Inv  BY InitInv
<1>2. Inv /\ [Next]_vars => Inv'  BY NextStep, StutterInv
<1> QED  BY <1>1, <1>2, PTL DEF Spec

-----------------------------------------------------------------------------
(***************************************************************************)
(* The theorems.                                                            *)
(***************************************************************************)
\* Indices, counters and timers stay in range, and a counter that is raised
\* when the file is read never wraps (ws_pae_controller_frame_counter_read).
THEOREM CounterTypes == Spec => []TypeOK
<1>1. Inv => TypeOK  BY DEF Inv, Typed
<1> QED  BY <1>1, InvHolds, PTL

\* "this is the last check that stored counters are in sync before activating
\* key" (ws_pae_controller_nw_key_index_check_and_set): while the daemon
\* runs, every key that frames are sent with has its own entry in the file.
THEOREM StoredBeforeActivated == Spec => []StoredBeforeUse
<1>1. Inv => StoredBeforeUse
  BY DEF Inv, Ready, StoredBeforeUse, Covered, InUse
<1> QED  BY <1>1, InvHolds, PTL

\* ws_pae_controller_frame_counter_store() takes whatever answer came last
\* for any key; still neither the counter of the active key in the RCP nor
\* the file's counter of a key goes back, across stops and crashes.
THEOREM CountersNeverBack == Spec => CountersForward
<1>1. Inv /\ [Next]_vars => [RcpForward /\ FileForward]_vars  BY NextStep
<1> QED  BY <1>1, InvHolds, PTL DEF Spec, CountersForward
=============================================================================
