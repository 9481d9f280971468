--------------------------- MODULE CountingProofs ---------------------------
(***************************************************************************)
(* Counting arguments: a step that touches one place changes a count by    *)
(* what happens at that place.  Induction and recursion over the natural   *)
(* numbers, stated with sets and functions where the library's theorems    *)
(* have an operator, so that they can be cited.  Division.                 *)
(***************************************************************************)
EXTENDS Integers, FiniteSets, FiniteSetTheorems, WellFoundedInduction, TLAPS

Indicator(b) == IF b THEN 1 ELSE 0

\* Two sets that differ at most in x.
LEMMA CountStep ==
  ASSUME NEW A, IsFiniteSet(A), NEW B, NEW x,
         \A y : y # x => (y \in A <=> y \in B)
  PROVE  /\ Cardinality(A) \in Nat /\ Cardinality(B) \in Nat
         /\ Cardinality(B) = Cardinality(A) + Indicator(x \in B) - Indicator(x \in A)
  <1>0. Cardinality(A) \in Nat
    BY FS_CardinalityType
  <1>1. CASE x \in A /\ x \in B
    <2>1. A = B
      BY <1>1
    <2>2. QED
      BY <1>0, <1>1, <2>1 DEF Indicator
  <1>2. CASE x \notin A /\ x \notin B
    <2>1. A = B
      BY <1>2
    <2>2. QED
      BY <1>0, <1>2, <2>1 DEF Indicator
  <1>3. CASE x \in A /\ x \notin B
    <2>1. B = A \ {x}
      BY <1>3
    <2>2. Cardinality(A \ {x}) = Cardinality(A) - 1 /\ IsFiniteSet(A \ {x})
      BY <1>3, FS_RemoveElement
    <2>3. Cardinality(A \ {x}) \in Nat
      BY <2>2, FS_CardinalityType
    <2>4. QED
      BY <1>0, <1>3, <2>1, <2>2, <2>3 DEF Indicator
  <1>4. CASE x \notin A /\ x \in B
    <2>1. B = A \cup {x}
      BY <1>4
    <2>2. Cardinality(A \cup {x}) = Cardinality(A) + 1
      BY <1>4, FS_AddElement
    <2>3. QED
      BY <1>0, <1>4, <2>1, <2>2 DEF Indicator
  <1>5. QED
    BY <1>1, <1>2, <1>3, <1>4

\* Nothing is counted that is not there, and what is there is counted.
LEMMA CountPositive ==
  ASSUME NEW A, IsFiniteSet(A), NEW x \in A
  PROVE  Cardinality(A) \in Nat /\ Cardinality(A) >= 1
  <1>1. Cardinality(A \ {x}) = Cardinality(A) - 1 /\ IsFiniteSet(A \ {x})
    BY FS_RemoveElement
  <1>2. Cardinality(A \ {x}) \in Nat /\ Cardinality(A) \in Nat
    BY <1>1, FS_CardinalityType
  <1>3. QED
    BY <1>1, <1>2

LEMMA SingletonCount ==
  ASSUME NEW o, NEW S
  PROVE  Cardinality({o} \cap S) = Indicator(o \in S)
  <1>1. CASE o \in S
    <2>1. {o} \cap S = {o}
      BY <1>1
    <2>2. QED
      BY <1>1, <2>1, FS_Singleton DEF Indicator
  <1>2. CASE o \notin S
    <2>1. {o} \cap S = {}
      BY <1>2
    <2>2. QED
      BY <1>2, <2>1, FS_EmptySet DEF Indicator
  <1>3. QED
    BY <1>1, <1>2

-----------------------------------------------------------------------------
\* The natural numbers below each other, as a set of pairs.
Below == {ss \in Nat \X Nat : ss[1] < ss[2]}

LEMMA BelowWellFounded == IsWellFoundedOn(Below, Nat)
  <1>1. Below = OpToRel(<, Nat)
    BY DEF OpToRel, Below
  <1>2. IsWellFoundedOn(OpToRel(<, Nat), Nat)
    BY NatLessThanWellFounded
  <1>3. QED
    BY <1>1, <1>2, Zenon

\* A set of natural numbers that is not empty has a least element.
LEMMA LeastNat ==
  ASSUME NEW S \in SUBSET Nat, S # {}
  PROVE  \E m \in S : \A n \in S : m <= n
  <1>1. PICK x \in S : \A y \in S : ~(<<y, x>> \in Below)
    BY BelowWellFounded, WFMin
  <1>2. \A y \in S : ~(y < x)
    BY <1>1 DEF Below
  <1>3. QED
    BY <1>2

\* Induction, with a set in the place of the predicate.
LEMMA NatInductionSet ==
  ASSUME NEW S, 0 \in S, \A n \in Nat : n \in S => n + 1 \in S
  PROVE  Nat \subseteq S
  <1>1. SUFFICES ASSUME Nat \ S # {} PROVE FALSE
    OBVIOUS
  <1>2. PICK m \in Nat \ S : \A n \in Nat \ S : m <= n
    BY <1>1, LeastNat
  <1>3. m # 0 /\ m - 1 \in Nat /\ m - 1 \notin Nat \ S
    BY <1>2
  <1>4. QED
    BY <1>2, <1>3

\* The same up to a bound.
LEMMA UptoInductionSet ==
  ASSUME NEW N \in Nat, NEW S, 0 \in S, \A n \in 0 .. N - 1 : n \in S => n + 1 \in S
  PROVE  0 .. N \subseteq S
  <1>1. DEFINE T == {n \in Nat : n <= N => n \in S}
  <1>2. 0 \in T
    OBVIOUS
  <1>3. ASSUME NEW n \in Nat, n \in T PROVE n + 1 \in T
    BY <1>3
  <1>4. Nat \subseteq T
    BY <1>2, <1>3, NatInductionSet
  <1>5. QED
    BY <1>4

\* A first value and a step; the step is a function, so that every step of a
\* recursive definition can be an instance.
IsStep(A, a, h) == a \in A /\ h \in [Nat \X A -> A]
Iterates(A, a, h, f) ==
  f \in [Nat -> A] /\ f[0] = a /\ \A n \in Nat : f[n + 1] = h[<<n, f[n]>>]

\* A function on 0 .. n that follows the step h from the value a.
Follows(A, a, h, n, f) ==
  /\ f \in [0 .. n -> A]
  /\ f[0] = a
  /\ \A i \in 0 .. n - 1 : f[i + 1] = h[<<i, f[i]>>]

LEMMA FollowsExtend ==
  ASSUME NEW A, NEW a, NEW h, IsStep(A, a, h), NEW n \in Nat,
         NEW f, Follows(A, a, h, n, f)
  PROVE  \E g : Follows(A, a, h, n + 1, g)
  <1>1. DEFINE g == [i \in 0 .. n + 1 |-> IF i = n + 1 THEN h[<<n, f[n]>>] ELSE f[i]]
  <1>2. f \in [0 .. n -> A] /\ f[0] = a /\ \A i \in 0 .. n - 1 : f[i + 1] = h[<<i, f[i]>>]
    BY DEF Follows
  <1>3. f[n] \in A /\ <<n, f[n]>> \in Nat \X A
    BY <1>2
  <1>4. h[<<n, f[n]>>] \in A
    BY <1>3 DEF IsStep
  <1>5. g \in [0 .. n + 1 -> A]
    <2>1. ASSUME NEW i \in 0 .. n + 1, i # n + 1 PROVE f[i] \in A
      BY <1>2, <2>1
    <2>2. QED
      BY <1>4, <2>1
  <1>6. g[0] = a
    BY <1>2
  <1>7. ASSUME NEW i \in 0 .. n PROVE g[i + 1] = h[<<i, g[i]>>]
    <2>1. g[i] = f[i]
      OBVIOUS
    <2>2. CASE i = n
      <3>1. g[n + 1] = h[<<n, f[n]>>]
        OBVIOUS
      <3>2. QED
        BY <2>1, <2>2, <3>1
    <2>3. CASE i # n
      <3>1. i \in 0 .. n - 1 /\ i + 1 \in 0 .. n + 1 /\ i + 1 # n + 1
        BY <2>3
      <3>2. g[i + 1] = f[i + 1]
        BY <3>1
      <3>3. QED
        BY <1>2, <2>1, <3>1, <3>2
    <2>4. QED
      BY <2>2, <2>3
  <1>8. (n + 1) - 1 = n
    OBVIOUS
  <1>9. Follows(A, a, h, n + 1, g)
    <2>1. HIDE DEF g
    <2>2. QED
      BY <1>5, <1>6, <1>7, <1>8 DEF Follows
  <1>10. QED
    BY <1>9

LEMMA FollowsAgree ==
  ASSUME NEW A, NEW a, NEW h, IsStep(A, a, h), NEW n \in Nat, NEW m \in Nat,
         NEW f, NEW g, Follows(A, a, h, n, f), Follows(A, a, h, m, g), n <= m
  PROVE  \A i \in 0 .. n : f[i] = g[i]
  <1>1. DEFINE U == {i \in 0 .. n : f[i] = g[i]}
  <1>2. 0 \in U
    BY DEF Follows
  <1>3. ASSUME NEW i \in 0 .. n - 1, i \in U PROVE i + 1 \in U
    <2>1. i + 1 \in 0 .. n /\ i \in 0 .. m - 1
      OBVIOUS
    <2>2. f[i + 1] = h[<<i, f[i]>>] /\ g[i + 1] = h[<<i, g[i]>>]
      BY <2>1 DEF Follows
    <2>3. QED
      BY <1>3, <2>1, <2>2
  <1>4. 0 .. n \subseteq U
    <2>1. HIDE DEF U
    <2>2. QED
      BY <1>2, <1>3, UptoInductionSet
  <1>5. QED
    BY <1>4

\* A function with a given first value and a given step exists.
LEMMA Recursion ==
  ASSUME NEW A, NEW a, NEW h, IsStep(A, a, h)
  PROVE  \E f : Iterates(A, a, h, f)
  <1>1. DEFINE S == {n \in Nat : \E f : Follows(A, a, h, n, f)}
  <1>2. 0 \in S
    <2>1. Follows(A, a, h, 0, [i \in 0 .. 0 |-> a])
      BY DEF Follows, IsStep
    <2>2. QED
      BY <2>1
  <1>3. ASSUME NEW n \in Nat, n \in S PROVE n + 1 \in S
    BY <1>3, FollowsExtend
  <1>4. Nat \subseteq S
    <2>1. HIDE DEF S
    <2>2. QED
      BY <1>2, <1>3, NatInductionSet
  <1>5. DEFINE w == [n \in Nat |-> CHOOSE f : Follows(A, a, h, n, f)]
               r == [n \in Nat |-> w[n][n]]
  <1>6. \A n \in Nat : Follows(A, a, h, n, w[n])
    <2>1. SUFFICES ASSUME NEW n \in Nat PROVE Follows(A, a, h, n, w[n])
      OBVIOUS
    <2>2. \E f : Follows(A, a, h, n, f)
      BY <1>4
    <2>3. QED
      BY <2>2
  <1>7. HIDE DEF w
  <1>8. \A n \in Nat : w[n][n] \in A
    BY <1>6 DEF Follows
  <1>9. w[0][0] = a
    BY <1>6 DEF Follows
  <1>10. ASSUME NEW n \in Nat PROVE w[n + 1][n + 1] = h[<<n, w[n][n]>>]
    <2>1. Follows(A, a, h, n, w[n]) /\ Follows(A, a, h, n + 1, w[n + 1])
          /\ n + 1 \in Nat /\ n <= n + 1
      BY <1>6
    <2>2. \A i \in 0 .. n : w[n][i] = w[n + 1][i]
      <3>1. PICK m, f, g : m = n + 1 /\ f = w[n] /\ g = w[n + 1]
        OBVIOUS
      <3>2. m \in Nat /\ n <= m /\ Follows(A, a, h, n, f) /\ Follows(A, a, h, m, g)
        BY <2>1, <3>1
      <3>3. \A i \in 0 .. n : f[i] = g[i]
        BY <3>2, FollowsAgree
      <3>4. QED
        BY <3>1, <3>3
    <2>3. n \in 0 .. (n + 1) - 1 /\ n \in 0 .. n
      OBVIOUS
    <2>4. w[n + 1][n + 1] = h[<<n, w[n + 1][n]>>]
      BY <2>1, <2>3 DEF Follows
    <2>5. QED
      BY <2>2, <2>3, <2>4
  <1>11. Iterates(A, a, h, r)
    BY <1>8, <1>9, <1>10 DEF Iterates
  <1>12. QED
    BY <1>11

\* Course-of-values induction up to a bound.
LEMMA StrongInductionSet ==
  ASSUME NEW N \in Nat, NEW S,
         \A n \in 0 .. N : (\A m \in 0 .. n - 1 : m \in S) => n \in S
  PROVE  0 .. N \subseteq S
  <1>1. SUFFICES ASSUME (0 .. N) \ S # {} PROVE FALSE
    OBVIOUS
  <1>2. (0 .. N) \ S \in SUBSET Nat
    OBVIOUS
  <1>3. PICK m \in (0 .. N) \ S : \A n \in (0 .. N) \ S : m <= n
    BY <1>1, <1>2, LeastNat
  <1>4. \A n \in 0 .. m - 1 : n \in S
    BY <1>3
  <1>5. QED
    BY <1>3, <1>4

-----------------------------------------------------------------------------
\* Division by a positive number.
LEMMA DivMod ==
  ASSUME NEW n \in Nat, NEW d \in Nat \ {0}
  PROVE  n \div d \in Nat /\ n % d \in 0 .. d - 1 /\ n = d * (n \div d) + (n % d)
  <1>1. n \div d \in Int /\ n % d \in 0 .. d - 1 /\ n = d * (n \div d) + (n % d)
    BY Z3
  <1>2. PICK q \in Int, r \in 0 .. d - 1 : q = n \div d /\ r = n % d /\ n = d * q + r
    BY <1>1
  <1>3. q >= 0
    <2>1. SUFFICES ASSUME q <= -1 PROVE FALSE
      OBVIOUS
    <2>2. d * q <= -d
      BY <2>1, Z3
    <2>3. QED
      BY <1>2, <2>2
  <1>4. QED
    BY <1>1, <1>2, <1>3

LEMMA DivModUnique ==
  ASSUME NEW d \in Nat \ {0}, NEW q \in Nat, NEW r \in Nat, r < d
  PROVE  (d * q + r) \div d = q /\ (d * q + r) % d = r
  <1>1. PICK n \in Nat : n = d * q + r
    BY Z3
  <1>2. PICK p \in Nat, s \in 0 .. d - 1 : p = n \div d /\ s = n % d /\ n = d * p + s
    BY DivMod
  <1>3. d * q + r = d * p + s
    BY <1>1, <1>2
  <1>4. ~(q < p)
    <2>1. SUFFICES ASSUME q + 1 <= p PROVE FALSE
      OBVIOUS
    <2>2. d * (q + 1) <= d * p
      BY <2>1, Z3
    <2>3. d * (q + 1) = d * q + d
      BY Z3
    <2>4. QED
      BY <1>3, <2>2, <2>3, Z3
  <1>5. ~(p < q)
    <2>1. SUFFICES ASSUME p + 1 <= q PROVE FALSE
      OBVIOUS
    <2>2. d * (p + 1) <= d * q
      BY <2>1, Z3
    <2>3. d * (p + 1) = d * p + d
      BY Z3
    <2>4. QED
      BY <1>3, <2>2, <2>3, Z3
  <1>6. p = q
    BY <1>4, <1>5
  <1>7. s = r
    BY <1>3, <1>6, Z3
  <1>8. QED
    BY <1>1, <1>2, <1>6, <1>7
=============================================================================
