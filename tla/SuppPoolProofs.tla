--------------------------- MODULE SuppPoolProofs ---------------------------
(***************************************************************************)
(* What the abstract pool of supplicants guarantees for every set of        *)
(* supplicants and every limit.  PaeAuthSupplicants implements the pool.    *)
(***************************************************************************)
EXTENDS SuppPool, FiniteSetTheorems, TLAPS

\* Both limits hold and nobody is in two places.
Bounded ==
    /\ IsFiniteSet(active) /\ IsFiniteSet(waiting)
    /\ active \cap waiting = {}
    /\ Cardinality(active) <= MaxActive
    /\ Cardinality(waiting) <= WaitMax

\* A supplicant that gets a place of its own leaves room within the limit.
LEMMA AdmitBounded ==
    ASSUME MaxActive \in Nat, WaitMax \in Nat, Bounded, NEW x, Admit(x)
    PROVE  Bounded'
<1>1. /\ IsFiniteSet(active') /\ Cardinality(active') = Cardinality(active) + 1
      /\ Cardinality(active) \in Nat
    BY FS_AddElement, FS_CardinalityType DEF Bounded, Admit
<1>2. /\ IsFiniteSet(waiting') /\ Cardinality(waiting') <= Cardinality(waiting)
      /\ Cardinality(waiting) \in Nat /\ Cardinality(waiting') \in Nat
    <2>1. waiting' \in SUBSET waiting  BY DEF Admit
    <2> QED  BY <2>1, FS_Subset, FS_CardinalityType DEF Bounded
<1>3. active' \cap waiting' = {}  BY DEF Bounded, Admit
<1>4. Cardinality(active') <= MaxActive
    <2>1. Cardinality(active) < MaxActive  BY DEF Admit
    <2> QED  BY <1>1, <2>1
<1>5. Cardinality(waiting') <= WaitMax
    <2>1. Cardinality(waiting) <= WaitMax  BY DEF Bounded
    <2> QED  BY <1>2, <2>1
<1> QED  BY <1>1, <1>2, <1>3, <1>4, <1>5 DEF Bounded

\* One that has to wait takes a free place, or the place of exactly one other.
LEMMA ParkBounded ==
    ASSUME MaxActive \in Nat, WaitMax \in Nat, Bounded, NEW x, Park(x)
    PROVE  Bounded'
<1> DEFINE others == waiting \ {x}
<1>1. PICK given \in SUBSET others :
         /\ Cardinality(given) = IF Cardinality(others) < WaitMax THEN 0 ELSE 1
         /\ waiting' = (others \ given) \cup {x}
    BY DEF Park
<1>2. /\ IsFiniteSet(others) /\ Cardinality(others) \in Nat
      /\ Cardinality(others) <= WaitMax
    <2>1. others \in SUBSET waiting  OBVIOUS
    <2>2. IsFiniteSet(others) /\ Cardinality(others) <= Cardinality(waiting)
        BY <2>1, FS_Subset DEF Bounded
    <2>3. Cardinality(waiting) \in Nat /\ Cardinality(others) \in Nat
        BY <2>2, FS_CardinalityType DEF Bounded
    <2>4. Cardinality(waiting) <= WaitMax  BY DEF Bounded
    <2> QED  BY <2>2, <2>3, <2>4
<1>3. /\ IsFiniteSet(others \ given)
      /\ Cardinality(others \ given) = Cardinality(others) - Cardinality(given)
    <2>1. others \cap given = given  BY <1>1
    <2> QED  BY <1>2, <2>1, FS_Difference
<1>4. IsFiniteSet(waiting') /\ Cardinality(waiting') = Cardinality(others \ given) + 1
    <2>1. x \notin others \ given  OBVIOUS
    <2> HIDE DEF others
    <2> QED  BY <1>1, <1>3, <2>1, FS_AddElement
<1>5. Cardinality(waiting') <= WaitMax
    <2> HIDE DEF others
    <2> QED  BY <1>1, <1>2, <1>3, <1>4
<1>6. active' = active /\ active \cap waiting' = {}
    BY <1>1 DEF Park, Bounded
<1> QED  BY <1>4, <1>5, <1>6 DEF Bounded

\* No more are promoted than active ones have left.
LEMMA LeaveBounded ==
    ASSUME MaxActive \in Nat, WaitMax \in Nat, Bounded, NEW done, NEW promoted,
           Leave(done, promoted)
    PROVE  Bounded'
<1>1. /\ IsFiniteSet(active \ done)
      /\ Cardinality(active \ done) = Cardinality(active) - Cardinality(active \cap done)
    BY FS_Difference DEF Bounded
<1>2. /\ IsFiniteSet(active \cap done) /\ Cardinality(active \cap done) \in Nat
      /\ Cardinality(active) \in Nat /\ Cardinality(waiting) \in Nat
    BY FS_Intersection, FS_CardinalityType DEF Bounded
<1>3. IsFiniteSet(promoted) /\ Cardinality(promoted) \in Nat
    <2>1. promoted \in SUBSET waiting  BY DEF Leave
    <2> QED  BY <2>1, FS_Subset, FS_CardinalityType DEF Bounded
<1>4. Cardinality(promoted) <= Cardinality(active \cap done)
    <2>1. done \cap active = active \cap done  OBVIOUS
    <2> QED  BY <2>1 DEF Leave
<1>5. /\ IsFiniteSet((active \ done) \cup promoted)
      /\ Cardinality((active \ done) \cup promoted)
            = Cardinality(active \ done) + Cardinality(promoted)
              - Cardinality((active \ done) \cap promoted)
    BY <1>1, <1>3, FS_Union
<1>6. Cardinality((active \ done) \cap promoted) \in Nat
    BY <1>1, FS_Intersection, FS_CardinalityType
<1>7. IsFiniteSet(active') /\ Cardinality(active') <= MaxActive
    <2>1. active' = (active \ done) \cup promoted  BY DEF Leave
    <2>2. Cardinality(active) <= MaxActive  BY DEF Bounded
    <2>3. Cardinality(active') <= MaxActive  BY <1>1, <1>2, <1>3, <1>4, <1>5, <1>6, <2>1, <2>2
    <2> QED  BY <1>5, <2>1, <2>3
<1>8. IsFiniteSet(waiting') /\ Cardinality(waiting') <= WaitMax
    <2>1. waiting' \in SUBSET waiting  BY DEF Leave
    <2>2. IsFiniteSet(waiting') /\ Cardinality(waiting') <= Cardinality(waiting)
        BY <2>1, FS_Subset DEF Bounded
    <2>3. Cardinality(waiting') \in Nat  BY <2>2, FS_CardinalityType
    <2>4. Cardinality(waiting) <= WaitMax  BY DEF Bounded
    <2> QED  BY <1>2, <2>2, <2>3, <2>4
<1>9. active' \cap waiting' = {}  BY DEF Leave, Bounded
<1> QED  BY <1>7, <1>8, <1>9 DEF Bounded

\* At most MaxActive supplicants are authenticated and at most WaitMax wait, and
\* none does both, whoever comes, leaves or is given up: what the congestion
\* limits of ws_pae_auth.c are for.
THEOREM PoolBounded ==
    ASSUME MaxActive \in Nat, WaitMax \in Nat
    PROVE  Spec => []Bounded
<1>1. Init => Bounded
    BY FS_EmptySet DEF Init, Bounded
<1>2. Bounded /\ [Next]_vars => Bounded'
    <2> SUFFICES ASSUME Bounded, [Next]_vars PROVE Bounded'  OBVIOUS
    <2>1. ASSUME NEW x \in Supp, Admit(x) PROVE Bounded'  BY <2>1, AdmitBounded
    <2>2. ASSUME NEW x \in Supp, Park(x) PROVE Bounded'  BY <2>2, ParkBounded
    <2>3. ASSUME NEW done \in SUBSET (active \cup waiting),
                 NEW promoted \in SUBSET (active \cup waiting), Leave(done, promoted)
          PROVE  Bounded'
        BY <2>3, LeaveBounded
    <2>4. CASE Restart  BY <2>4, FS_EmptySet DEF Restart, Bounded
    <2>5. CASE UNCHANGED vars  BY <2>5 DEF vars, Bounded
    <2> QED  BY <2>1, <2>2, <2>3, <2>4, <2>5 DEF Next
<1> QED  BY <1>1, <1>2, PTL DEF Spec
=============================================================================
