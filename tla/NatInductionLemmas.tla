------------------------- MODULE NatInductionLemmas -------------------------
(***************************************************************************)
(* Induction over the natural numbers in a form the SMT backend can use:    *)
(* the property is a set and not an operator.                               *)
(***************************************************************************)
EXTENDS Integers, WellFoundedInduction, TLAPS

\* A set of naturals that is not empty has a least element.
LEMMA LeastNat ==
    ASSUME NEW T, T \subseteq Nat, T # {}
    PROVE  \E x \in T : \A y \in T : x <= y
<1> DEFINE R == OpToRel(<, Nat)
<1>1. IsWellFoundedOn(R, Nat)  BY NatLessThanWellFounded
<1>2. \A x, y \in Nat : <<y, x>> \in R <=> y < x  BY DEF OpToRel
<1> HIDE DEF R
<1>3. PICK x \in T : \A y \in T : ~(<<y, x>> \in R)  BY <1>1, WFMin
<1>4. \A y \in T : ~(y < x)  BY <1>2, <1>3
<1> QED  BY <1>4

\* What holds of 0 and of n + 1 whenever it holds of n holds of every natural.
LEMMA NatInd ==
    ASSUME NEW S, 0 \in S, \A n \in Nat : n \in S => n + 1 \in S
    PROVE  Nat \subseteq S
<1> DEFINE T == Nat \ S
<1>1. SUFFICES ASSUME T # {} PROVE FALSE  OBVIOUS
<1>2. PICK x \in T : \A y \in T : x <= y  BY <1>1, LeastNat
<1>3. x # 0  OBVIOUS
<1>4. x - 1 \in Nat /\ x - 1 \notin T  BY <1>2, <1>3
<1> QED  BY <1>4

\* A recursion over 0..N that stays in S has a solution in S.
Solved(g, N, base, step) == g[0] = base /\ \A n \in 1..N : g[n] = step[n][g[n - 1]]

LEMMA BoundedRecursion ==
    ASSUME NEW N \in Nat, NEW S, NEW base \in S, NEW step \in [1..N -> [S -> S]]
    PROVE  \E g \in [0..N -> S] : Solved(g, N, base, step)
<1> DEFINE Solves(g, m) == g[0] = base /\ \A n \in 1..m : g[n] = step[n][g[n - 1]]
           P == {m \in Nat : m <= N => \E g \in [0..m -> S] : Solves(g, m)}
<1>1. 0 \in P
  <2> DEFINE g == [n \in 0..0 |-> base]
  <2>1. g \in [0..0 -> S] /\ Solves(g, 0)  OBVIOUS
  <2> QED  BY <2>1
<1>2. ASSUME NEW m \in Nat, m \in P PROVE m + 1 \in P
  <2> SUFFICES ASSUME m + 1 <= N PROVE \E g \in [0..(m + 1) -> S] : Solves(g, m + 1)
    OBVIOUS
  <2>1. PICK g \in [0..m -> S] : Solves(g, m)  BY <1>2
  <2> DEFINE h == [n \in 0..(m + 1) |-> IF n = m + 1 THEN step[m + 1][g[m]] ELSE g[n]]
  <2>2. step[m + 1] \in [S -> S] /\ g[m] \in S  OBVIOUS
  <2>3. h \in [0..(m + 1) -> S]  BY <2>2
  <2>4. h[0] = base  BY <2>1
  <2>5. ASSUME NEW n \in 1..(m + 1) PROVE h[n] = step[n][h[n - 1]]
    <3>1. CASE n = m + 1
      <4>1. h[n - 1] = g[m]  BY <3>1
      <4> QED  BY <3>1, <4>1
    <3>2. CASE n # m + 1
      <4>1. n \in 1..m /\ h[n] = g[n] /\ h[n - 1] = g[n - 1]  BY <3>2
      <4> QED  BY <4>1, <2>1
    <3> QED  BY <3>1, <3>2
  <2>6. Solves(h, m + 1)  BY <2>4, <2>5
  <2> QED  BY <2>3, <2>6
<1> HIDE DEF P
<1>3. N \in P  BY <1>1, <1>2, NatInd
<1> USE DEF P
<1>4. PICK g \in [0..N -> S] : Solves(g, N)  BY <1>3
<1> QED  BY <1>4 DEF Solved

\* A loop whose n-th round takes the states of I[n - 1] to those of I[n].
Rounds(step, I, N) == \A n \in 1..N : step[n] \in [I[n - 1] -> I[n]]

LoopRun(g, N, base, step, I) ==
    /\ g = [n \in 0..N |-> g[n]] /\ g[0] = base
    /\ \A n \in 1..N : g[n] = step[n][g[n - 1]]
    /\ \A n \in 0..N : g[n] \in I[n]

LEMMA LoopInvariant ==
    ASSUME NEW N \in Nat, NEW I, NEW base \in I[0], NEW step, Rounds(step, I, N)
    PROVE  \E g : LoopRun(g, N, base, step, I)
<1> DEFINE S == UNION {I[n] : n \in 0..N}
           round == [n \in 1..N |-> [t \in S |-> IF t \in I[n - 1] THEN step[n][t] ELSE t]]
<1>1. base \in S
  <2>1. 0 \in 0..N  OBVIOUS
  <2> QED  BY <2>1
<1>2. \A n \in 0..N : I[n] \subseteq S  OBVIOUS
<1>3. round \in [1..N -> [S -> S]]
  <2> SUFFICES ASSUME NEW n \in 1..N, NEW t \in S
               PROVE (IF t \in I[n - 1] THEN step[n][t] ELSE t) \in S
    OBVIOUS
  <2>1. CASE t \in I[n - 1]
    <3>1. step[n][t] \in I[n]  BY <2>1 DEF Rounds
    <3>2. n \in 0..N  OBVIOUS
    <3> HIDE DEF S
    <3> QED  BY <1>2, <2>1, <3>1, <3>2
  <2>2. CASE t \notin I[n - 1]  BY <2>2
  <2> QED  BY <2>1, <2>2
<1> HIDE DEF S
<1>4. PICK g \in [0..N -> S] : g[0] = base /\ \A n \in 1..N : g[n] = round[n][g[n - 1]]
  <2> HIDE DEF round
  <2>1. \E g \in [0..N -> S] : Solved(g, N, base, round)  BY <1>1, <1>3, BoundedRecursion
  <2> QED  BY <2>1 DEF Solved
<1> DEFINE P == {n \in Nat : n <= N => g[n] \in I[n]}
<1>5. ASSUME NEW n \in 1..N, g[n - 1] \in I[n - 1]
      PROVE  g[n] = step[n][g[n - 1]] /\ g[n] \in I[n]
  <2>1. n - 1 \in 0..N /\ g[n - 1] \in S  OBVIOUS
  <2>2. g[n] = step[n][g[n - 1]]  BY <1>4, <1>5, <2>1
  <2> QED  BY <1>5, <2>2 DEF Rounds
<1>6. 0 \in P  BY <1>4
<1>7. ASSUME NEW n \in Nat, n \in P PROVE n + 1 \in P
  <2> SUFFICES ASSUME n + 1 <= N PROVE g[n + 1] \in I[n + 1]  OBVIOUS
  <2>1. n + 1 \in 1..N /\ (n + 1) - 1 = n /\ g[n] \in I[n]  BY <1>7
  <2> QED  BY <1>5, <2>1
<1> HIDE DEF P
<1>8. Nat \subseteq P  BY <1>6, <1>7, NatInd
<1>9. \A n \in 0..N : g[n] \in I[n]  BY <1>8 DEF P
<1>10. \A n \in 1..N : g[n] = step[n][g[n - 1]]
  <2> SUFFICES ASSUME NEW n \in 1..N PROVE g[n] = step[n][g[n - 1]]  OBVIOUS
  <2>1. n - 1 \in 0..N  OBVIOUS
  <2> QED  BY <1>5, <1>9, <2>1
<1>11. g = [n \in 0..N |-> g[n]]  OBVIOUS
<1> QED  BY <1>4, <1>9, <1>10, <1>11 DEF LoopRun

\* The last of a row of states that starts in I[0] and goes from I[n - 1] to I[n].
LEMMA LoopEnd ==
    ASSUME NEW N \in Nat, NEW I, NEW f, f[0] \in I[0],
           \A n \in 1..N : f[n - 1] \in I[n - 1] => f[n] \in I[n]
    PROVE  f[N] \in I[N]
<1> DEFINE P == {n \in Nat : n <= N => f[n] \in I[n]}
<1>1. 0 \in P  OBVIOUS
<1>2. ASSUME NEW n \in Nat, n \in P PROVE n + 1 \in P
  <2> SUFFICES ASSUME n + 1 <= N PROVE f[n + 1] \in I[n + 1]  OBVIOUS
  <2>1. n + 1 \in 1..N /\ (n + 1) - 1 = n /\ f[n] \in I[n]  BY <1>2
  <2> QED  BY <2>1
<1> HIDE DEF P
<1>3. Nat \subseteq P  BY <1>1, <1>2, NatInd
<1> QED  BY <1>3 DEF P
=============================================================================
