----------------------------- MODULE LeastNumber -----------------------------
(***************************************************************************)
(* Induction over the naturals for a property given as a set, and the      *)
(* functions that a recursive equation defines.  The proofs about the      *)
(* loops of the reconcilers, the backoff, the walk of an order, the sums   *)
(* of the strategies and the drawdown rest on them.  They follow from the  *)
(* library's theorem that < is well founded on Nat.                        *)
(***************************************************************************)
EXTENDS Integers, WellFoundedInduction, TLAPS

\* A non-empty set of naturals has a least element.
LEMMA LeastNatural ==
  ASSUME NEW T \in SUBSET Nat, T # {}
  PROVE  \E m \in T : \A k \in T : m <= k
<1> DEFINE R == {ss \in Nat \X Nat : ss[1] < ss[2]}
<1>1. IsWellFoundedOn(R, Nat)
  <2>1. R = OpToRel(<, Nat)
    BY DEF OpToRel
  <2> QED BY <2>1, NatLessThanWellFounded
<1>2. PICK m \in T : \A k \in T : <<k, m>> \notin R
  <2> HIDE DEF R
  <2> QED BY <1>1, WFMin
<1>3. ASSUME NEW k \in T PROVE m <= k
  <2>1. <<k, m>> \notin R
    BY <1>2
  <2>2. k \in Nat /\ m \in Nat
    OBVIOUS
  <2>3. ~(k < m)
    BY <2>1, <2>2
  <2> QED BY <2>2, <2>3
<1> QED BY <1>3

\* Induction over the naturals, for a property given as a set.
LEMMA SetInduction ==
  ASSUME NEW S, 0 \in S, \A k \in Nat : k \in S => k + 1 \in S
  PROVE  Nat \subseteq S
<1> SUFFICES ASSUME Nat \ S # {} PROVE FALSE
  OBVIOUS
<1>1. PICK m \in Nat \ S : \A k \in Nat \ S : m <= k
  <2> DEFINE T == Nat \ S
  <2>1. T \in SUBSET Nat /\ T # {}
    OBVIOUS
  <2> HIDE DEF T
  <2>2. \E m \in T : \A k \in T : m <= k
    BY <2>1, LeastNatural
  <2> QED BY <2>2 DEF T
<1>2. m # 0
  BY <1>1
<1>3. m - 1 \in Nat /\ ~(m <= m - 1)
  BY <1>2
<1>4. m - 1 \in S
  BY <1>1, <1>3
<1>5. (m - 1) + 1 \in S
  BY <1>3, <1>4
<1> QED BY <1>1, <1>5

\* f starts at b and takes m steps.
StepsUpTo(f, m, T, b, step) ==
  /\ f \in [0..m -> T]
  /\ f[0] = b
  /\ \A k \in 0..(m - 1) : f[k + 1] = step[f[k]]

\* Any number of steps can be taken, in one way.
LEMMA StepsExist ==
  ASSUME NEW T, NEW b \in T, NEW step \in [T -> T], NEW m \in Nat
  PROVE  \E f : StepsUpTo(f, m, T, b, step)
<1> DEFINE S == {n \in Nat : \E f : StepsUpTo(f, n, T, b, step)}
<1>1. 0 \in S
  <2> DEFINE f == [k \in 0..0 |-> b]
  <2>1. StepsUpTo(f, 0, T, b, step)
    BY DEF StepsUpTo
  <2> QED BY <2>1
<1>2. ASSUME NEW n \in Nat, n \in S PROVE n + 1 \in S
  <2>1. PICK f : StepsUpTo(f, n, T, b, step)
    BY <1>2
  <2> DEFINE g == [k \in 0..(n + 1) |-> IF k \in 0..n THEN f[k] ELSE step[f[n]]]
  <2>2. g \in [0..(n + 1) -> T]
    BY <2>1 DEF StepsUpTo
  <2>3. g[0] = b
    BY <2>1 DEF StepsUpTo
  <2>4. ASSUME NEW k \in 0..n PROVE g[k + 1] = step[g[k]]
    <3>1. k \in 0..(n + 1) /\ k + 1 \in 0..(n + 1) /\ g[k] = f[k]
      OBVIOUS
    <3>2. CASE k \in 0..(n - 1)
      <4>1. k + 1 \in 0..n /\ f[k + 1] = step[f[k]]
        BY <2>1, <3>2 DEF StepsUpTo
      <4> QED BY <3>1, <4>1
    <3>3. CASE k = n
      BY <3>1, <3>3
    <3> QED BY <3>2, <3>3
  <2>5. StepsUpTo(g, n + 1, T, b, step)
    <3>1. (n + 1) - 1 = n
      OBVIOUS
    <3> QED BY <2>2, <2>3, <2>4, <3>1 DEF StepsUpTo
  <2>6. n + 1 \in Nat
    OBVIOUS
  <2> QED BY <2>5, <2>6
<1>3. m \in S
  <2> HIDE DEF S
  <2> QED BY <1>1, <1>2, SetInduction
<1> QED BY <1>3

LEMMA StepsAgree ==
  ASSUME NEW T, NEW b \in T, NEW step \in [T -> T], NEW m \in Nat, NEW n \in Nat,
         NEW f, StepsUpTo(f, m, T, b, step), NEW g, StepsUpTo(g, n, T, b, step),
         NEW i \in Nat, i <= m, i <= n
  PROVE  f[i] = g[i]
<1> DEFINE S == {k \in Nat : k <= m /\ k <= n => f[k] = g[k]}
<1>1. 0 \in S
  BY DEF StepsUpTo
<1>2. ASSUME NEW k \in Nat, k \in S PROVE k + 1 \in S
  <2> SUFFICES ASSUME k + 1 <= m, k + 1 <= n PROVE f[k + 1] = g[k + 1]
    OBVIOUS
  <2>1. k \in 0..(m - 1) /\ k \in 0..(n - 1) /\ k <= m /\ k <= n
    OBVIOUS
  <2>2. f[k] = g[k]
    BY <1>2, <2>1
  <2> QED BY <2>1, <2>2 DEF StepsUpTo
<1>3. Nat \subseteq S
  <2> HIDE DEF S
  <2> QED BY <1>1, <1>2, SetInduction
<1> QED BY <1>3

\* A function on a set can be iterated for ever from any member of the set.
LEMMA IterationExists ==
  ASSUME NEW T, NEW b \in T, NEW step \in [T -> T]
  PROVE  \E f \in [Nat -> T] : f[0] = b /\ \A n \in Nat : f[n + 1] = step[f[n]]
<1> DEFINE upto(m) == CHOOSE f : StepsUpTo(f, m, T, b, step)
           F == [n \in Nat |-> upto(n)[n]]
<1>1. ASSUME NEW m \in Nat PROVE StepsUpTo(upto(m), m, T, b, step)
  BY StepsExist
<1> HIDE DEF upto
<1>2. ASSUME NEW n \in Nat PROVE F[n] \in T
  <2>1. n \in 0..n
    OBVIOUS
  <2> QED BY <1>1, <2>1 DEF StepsUpTo
<1>3. F[0] = b
  BY <1>1 DEF StepsUpTo
<1>4. ASSUME NEW n \in Nat PROVE F[n + 1] = step[F[n]]
  <2>1. n + 1 \in Nat /\ n \in 0..((n + 1) - 1) /\ n <= n + 1 /\ n <= n
    OBVIOUS
  <2>2. upto(n + 1)[n + 1] = step[upto(n + 1)[n]]
    BY <1>1, <2>1 DEF StepsUpTo
  <2>3. upto(n + 1)[n] = upto(n)[n]
    BY <1>1, <2>1, StepsAgree
  <2> QED BY <2>1, <2>2, <2>3
<1>5. F \in [Nat -> T]
  BY <1>2
<1> QED BY <1>3, <1>4, <1>5


\* f is computed from a to N, each value from its number and the value before.
Computed(f, a, N, T, b, step) ==
  /\ f \in [a..N -> T]
  /\ f[a] = b
  /\ \A k \in (a + 1)..N : f[k] = step[<<k, f[k - 1]>>]

\* A value for every number from a to N can be computed.
LEMMA RecursionExists ==
  ASSUME NEW T, NEW b \in T, NEW a \in Nat, NEW N \in Nat, a <= N,
         NEW step \in [(a..N) \X T -> T]
  PROVE  \E f : Computed(f, a, N, T, b, step)
<1> DEFINE S == {n \in Nat : a + n <= N => \E f : Computed(f, a, a + n, T, b, step)}
<1>1. 0 \in S
  <2> DEFINE f == [k \in a..(a + 0) |-> b]
  <2>1. Computed(f, a, a + 0, T, b, step)
    BY DEF Computed
  <2> QED BY <2>1
<1>2. ASSUME NEW n \in Nat, n \in S PROVE n + 1 \in S
  <2> SUFFICES ASSUME a + (n + 1) <= N
               PROVE  \E f : Computed(f, a, a + (n + 1), T, b, step)
    BY DEF S
  <2>1. PICK f : Computed(f, a, a + n, T, b, step)
    BY <1>2
  <2> DEFINE m == a + (n + 1)
             g == [k \in a..m |-> IF k \in a..(a + n) THEN f[k]
                                  ELSE step[<<m, f[a + n]>>]]
  <2>2. m \in a..N /\ f[a + n] \in T /\ step[<<m, f[a + n]>>] \in T
    BY <2>1 DEF Computed
  <2>3. g \in [a..m -> T] /\ g[a] = b
    BY <2>1, <2>2 DEF Computed
  <2>4. ASSUME NEW k \in (a + 1)..m PROVE g[k] = step[<<k, g[k - 1]>>]
    <3>1. k - 1 \in a..(a + n) /\ g[k - 1] = f[k - 1] /\ k \in a..m
      OBVIOUS
    <3>2. CASE k \in (a + 1)..(a + n)
      <4>1. f[k] = step[<<k, f[k - 1]>>] /\ g[k] = f[k]
        BY <2>1, <3>2 DEF Computed
      <4> QED BY <3>1, <4>1
    <3>3. CASE k = m
      <4>1. k - 1 = a + n /\ k \notin a..(a + n)
        BY <3>3
      <4>2. g[k] = step[<<m, f[a + n]>>]
        BY <3>1, <4>1
      <4> QED BY <3>1, <3>3, <4>1, <4>2
    <3> QED BY <3>2, <3>3
  <2>5. Computed(g, a, m, T, b, step)
    BY <2>3, <2>4 DEF Computed
  <2> QED BY <2>5
<1>3. N - a \in S
  <2> HIDE DEF S
  <2>1. Nat \subseteq S
    BY <1>1, <1>2, SetInduction
  <2> QED BY <2>1
<1>4. a + (N - a) = N
  OBVIOUS
<1> QED BY <1>3, <1>4

\* Induction over the numbers from a to N.
LEMMA IntervalInduction ==
  ASSUME NEW a \in Nat, NEW N \in Nat, NEW S, a \in S,
         \A k \in (a + 1)..N : k - 1 \in S => k \in S
  PROVE  a..N \subseteq S
<1> DEFINE R == {n \in Nat : a + n <= N => a + n \in S}
<1>1. 0 \in R
  OBVIOUS
<1>2. ASSUME NEW n \in Nat, n \in R PROVE n + 1 \in R
  <2> SUFFICES ASSUME a + (n + 1) <= N PROVE a + (n + 1) \in S
    BY DEF R
  <2>1. a + (n + 1) \in (a + 1)..N /\ (a + (n + 1)) - 1 = a + n
    OBVIOUS
  <2>2. a + n \in S
    BY <1>2
  <2> QED BY <2>1, <2>2
<1>3. Nat \subseteq R
  <2> HIDE DEF R
  <2> QED BY <1>1, <1>2, SetInduction
<1>4. ASSUME NEW k \in a..N PROVE k \in S
  <2>1. k - a \in Nat /\ a + (k - a) = k /\ k <= N
    OBVIOUS
  <2> QED BY <1>3, <2>1
<1> QED BY <1>4
==============================================================================
