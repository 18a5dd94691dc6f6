------------------------------ MODULE BitsProof ------------------------------
(***************************************************************************)
(* What the other proofs need to know of recursion and of bits.  An        *)
(* induction is over a set instead of a predicate: the least element of    *)
(* the set of counterexamples is none.                                     *)
(***************************************************************************)
EXTENDS Bits, TLAPS, WellFoundedInduction

(* A set of numbers has a least element.                                   *)
THEOREM LeastNumber ==
  ASSUME NEW S, S \subseteq Nat, S # {}
  PROVE  \E m \in S : \A n \in S : m <= n
<1> DEFINE R == OpToRel(<, Nat)
<1>1. IsWellFoundedOn(R, Nat)
  BY NatLessThanWellFounded
<1>2. \A n, m \in Nat : n < m => <<n, m>> \in R
  BY DEF OpToRel
<1> HIDE DEF R
<1>3. PICK m \in S : \A n \in S : ~ (<<n, m>> \in R)
  BY <1>1, WFMin
<1>4. ASSUME NEW n \in S PROVE m <= n
  <2>1. n \in Nat /\ m \in Nat
    OBVIOUS
  <2>2. ~ (n < m)
    BY <1>2, <1>3, <2>1
  <2> QED BY <2>1, <2>2
<1> QED BY <1>4

(* Induction: a set with 0 that is closed under successors has all numbers.*)
THEOREM SetInduction ==
  ASSUME NEW S, 0 \in S, \A n \in Nat : n \in S => n + 1 \in S
  PROVE  \A n \in Nat : n \in S
<1> SUFFICES ASSUME NEW k \in Nat, k \notin S
             PROVE  FALSE
  OBVIOUS
<1> DEFINE T == {n \in Nat : n \notin S}
<1>1. PICK m \in T : \A n \in T : m <= n
  <2> T \subseteq Nat /\ T # {}
    OBVIOUS
  <2> HIDE DEF T
  <2> QED BY LeastNumber
<1>2. m # 0 /\ m - 1 \in Nat /\ m - 1 \in S
  BY <1>1
<1> QED BY <1>2, <1>1

(* Recursion: a function is defined by its first value and by what each    *)
(* step makes of the value before.                                         *)
Recurs(f, V, c, step) ==
  f \in [Nat -> V] /\ f[0] = c /\ \A n \in Nat : f[n + 1] = step[n][f[n]]

THEOREM Recursion ==
  ASSUME NEW V, NEW c \in V, NEW step \in [Nat -> [V -> V]]
  PROVE  \E f : Recurs(f, V, c, step)
<1> DEFINE Is(n, f) == /\ f \in [Nat -> V] /\ f[0] = c
                       /\ \A i \in Nat : i < n => f[i + 1] = step[i][f[i]]
           S == {n \in Nat : \E f \in [Nat -> V] : Is(n, f)}
<1>1. 0 \in S
  <2> DEFINE f == [i \in Nat |-> c]
  <2>1. Is(0, f)
    OBVIOUS
  <2> HIDE DEF f, Is
  <2>2. f \in [Nat -> V]
    BY <2>1 DEF Is
  <2> QED BY <2>1, <2>2
<1>2. ASSUME NEW n \in Nat, n \in S PROVE n + 1 \in S
  <2>1. PICK f \in [Nat -> V] : Is(n, f)
    BY <1>2
  <2> DEFINE g == [i \in Nat |-> IF i <= n THEN f[i] ELSE step[n][f[n]]]
  <2>2. \A i \in Nat : f[i] \in V /\ step[i] \in [V -> V]
    OBVIOUS
  <2>3. g \in [Nat -> V]
    BY <2>2
  <2>4. \A i \in Nat : g[i] = IF i <= n THEN f[i] ELSE step[n][f[n]]
    OBVIOUS
  <2> HIDE DEF g
  <2>5. g[0] = c
    BY <2>1, <2>4
  <2>6. ASSUME NEW i \in Nat, i < n + 1 PROVE g[i + 1] = step[i][g[i]]
    <3>1. CASE i < n
      BY <2>1, <2>4, <3>1
    <3>2. CASE i = n
      BY <2>4, <3>2
    <3> QED BY <3>1, <3>2, <2>6
  <2>7. Is(n + 1, g)
    BY <2>3, <2>5, <2>6
  <2> HIDE DEF Is
  <2> QED BY <2>3, <2>7
<1>3. \A n \in Nat : n \in S
  <2> HIDE DEF S
  <2> QED BY <1>1, <1>2, SetInduction
<1>4. ASSUME NEW n \in Nat, NEW f, NEW g, Is(n, f), Is(n, g)
      PROVE  \A i \in Nat : i <= n => f[i] = g[i]
  <2> DEFINE E == {i \in Nat : i <= n => f[i] = g[i]}
  <2>1. 0 \in E
    BY <1>4
  <2>2. ASSUME NEW i \in Nat, i \in E PROVE i + 1 \in E
    <3> SUFFICES ASSUME i + 1 <= n PROVE f[i + 1] = g[i + 1]
      OBVIOUS
    <3>1. i < n /\ i <= n /\ f[i] = g[i]
      BY <2>2
    <3>2. f[i + 1] = step[i][f[i]] /\ g[i + 1] = step[i][g[i]]
      BY <1>4, <3>1
    <3> QED BY <3>1, <3>2
  <2>3. \A i \in Nat : i \in E
    <3> HIDE DEF E
    <3> QED BY <2>1, <2>2, SetInduction
  <2> QED BY <2>3
<1> DEFINE h(n) == CHOOSE f \in [Nat -> V] : Is(n, f)
<1> HIDE DEF Is
<1>5. ASSUME NEW n \in Nat PROVE h(n) \in [Nat -> V] /\ Is(n, h(n))
  <2>1. \E f \in [Nat -> V] : Is(n, f)
    BY <1>3
  <2> QED BY <2>1
<1> HIDE DEF h
<1>6. ASSUME NEW n \in Nat
      PROVE  h(n + 1)[n] = h(n)[n] /\ h(n + 1)[n + 1] = step[n][h(n + 1)[n]]
  <2>1. Is(n, h(n)) /\ Is(n + 1, h(n + 1))
    BY <1>5
  <2>2. Is(n, h(n + 1)) /\ h(n + 1)[n + 1] = step[n][h(n + 1)[n]]
    BY <2>1 DEF Is
  <2> QED BY <2>1, <2>2, <1>4
<1> DEFINE f == [n \in Nat |-> h(n)[n]]
<1>7. f \in [Nat -> V]
  BY <1>5
<1>8. f[0] = c
  BY <1>5 DEF Is
<1>9. ASSUME NEW n \in Nat PROVE f[n + 1] = step[n][f[n]]
  BY <1>6
<1> HIDE DEF f
<1>10. Recurs(f, V, c, step)
  BY <1>7, <1>8, <1>9 DEF Recurs
<1> QED BY <1>10

----------------------------------------------------------------------------
(* Powers of two.                                                          *)

THEOREM Pow2Def ==
  /\ Pow2 \in [Nat -> Nat] /\ Pow2[0] = 1
  /\ \A k \in Nat : Pow2[k + 1] = 2 * Pow2[k]
<1> DEFINE step == [k \in Nat |-> [v \in Nat |-> 2 * v]]
           Eq(f) == f = [k \in Nat |-> IF k = 0 THEN 1 ELSE 2 * f[k - 1]]
<1>1. step \in [Nat -> [Nat -> Nat]]
  OBVIOUS
<1>2. \A k \in Nat : \A v \in Nat : step[k][v] = 2 * v
  OBVIOUS
<1> HIDE DEF step
<1>3. PICK f : Recurs(f, Nat, 1, step)
  BY <1>1, Recursion
<1>4. \A k \in Nat : f[k] = IF k = 0 THEN 1 ELSE 2 * f[k - 1]
  <2> TAKE k \in Nat
  <2>1. CASE k = 0
    BY <1>3, <2>1 DEF Recurs
  <2>2. CASE k # 0
    <3>1. k - 1 \in Nat /\ (k - 1) + 1 = k
      BY <2>2
    <3> QED BY <1>2, <1>3, <2>2, <3>1 DEF Recurs
  <2> QED BY <2>1, <2>2
<1>5. Eq(f)
  BY <1>3, <1>4 DEF Recurs
<1>6. Pow2 = CHOOSE g : Eq(g)
  BY DEF Pow2
<1>7. Eq(Pow2)
  <2> HIDE DEF Eq
  <2> QED BY <1>5, <1>6
<1>8. Pow2[0] = 1
  BY <1>7
<1>9. ASSUME NEW k \in Nat PROVE Pow2[k + 1] = 2 * Pow2[k]
  BY <1>7
<1>10. \A k \in Nat : Pow2[k] \in Nat
  <2> DEFINE S == {k \in Nat : Pow2[k] \in Nat}
  <2>1. 0 \in S /\ \A k \in Nat : k \in S => k + 1 \in S
    BY <1>8, <1>9
  <2> HIDE DEF S
  <2>2. \A k \in Nat : k \in S
    BY <2>1, SetInduction
  <2> QED BY <2>2 DEF S
<1>11. Pow2 \in [Nat -> Nat]
  BY <1>7, <1>10
<1> QED BY <1>8, <1>9, <1>11

LEMMA Pow2Positive == \A k \in Nat : Pow2[k] \in Nat /\ Pow2[k] > k
<1> DEFINE S == {k \in Nat : Pow2[k] > k}
<1>1. 0 \in S /\ \A k \in Nat : k \in S => k + 1 \in S
  BY Pow2Def
<1> HIDE DEF S
<1>2. \A k \in Nat : k \in S
  BY <1>1, SetInduction
<1> QED BY <1>2, Pow2Def DEF S

LEMMA Pow2Sum == \A i, j \in Nat : Pow2[i + j] = Pow2[i] * Pow2[j]
<1> SUFFICES ASSUME NEW i \in Nat PROVE \A j \in Nat : Pow2[i + j] = Pow2[i] * Pow2[j]
  OBVIOUS
<1> DEFINE S == {j \in Nat : Pow2[i + j] = Pow2[i] * Pow2[j]}
<1>1. 0 \in S
  BY Pow2Def
<1>2. ASSUME NEW j \in Nat, j \in S PROVE j + 1 \in S
  <2>1. Pow2[i + (j + 1)] = 2 * Pow2[i + j] /\ Pow2[j + 1] = 2 * Pow2[j]
    <3>1. i + j \in Nat /\ i + (j + 1) = (i + j) + 1
      OBVIOUS
    <3> QED BY <3>1, Pow2Def
  <2>2. \A x, y \in Nat : 2 * (x * y) = x * (2 * y)
    OBVIOUS
  <2>3. Pow2[i] \in Nat /\ Pow2[j] \in Nat
    BY Pow2Def
  <2> QED BY <1>2, <2>1, <2>2, <2>3
<1> HIDE DEF S
<1>3. \A j \in Nat : j \in S
  BY <1>1, <1>2, SetInduction
<1> QED BY <1>3 DEF S

LEMMA Pow2Grows == \A i, j \in Nat : i < j => 2 * Pow2[i] <= Pow2[j]
<1> SUFFICES ASSUME NEW i \in Nat, NEW j \in Nat, i < j PROVE 2 * Pow2[i] <= Pow2[j]
  OBVIOUS
<1> DEFINE d == j - i - 1
<1>1. d \in Nat /\ j = (i + 1) + d
  OBVIOUS
<1>2. Pow2[j] = (2 * Pow2[i]) * Pow2[d]
  BY <1>1, Pow2Sum, Pow2Def
<1>3. \A x, y \in Nat : y > 0 => x <= x * y
  OBVIOUS
<1>4. 2 * Pow2[i] \in Nat /\ Pow2[d] \in Nat /\ Pow2[d] > 0
  BY <1>1, Pow2Positive
<1> QED BY <1>2, <1>3, <1>4

LEMMA Pow2Unique ==
  ASSUME NEW i \in Nat, NEW j \in Nat, NEW n \in Nat,
         Pow2[i] <= n, n < 2 * Pow2[i], Pow2[j] <= n, n < 2 * Pow2[j]
  PROVE  i = j
<1>1. Pow2[i] \in Nat /\ Pow2[j] \in Nat
  BY Pow2Def
<1>2. ~ (i < j) /\ ~ (j < i)
  BY <1>1, Pow2Grows
<1> QED BY <1>2

(* Every number but zero lies between two powers of two.                   *)
THEOREM Pow2Around ==
  ASSUME NEW n \in Nat, n > 0
  PROVE  \E k \in Nat : Pow2[k] <= n /\ n < 2 * Pow2[k]
<1> DEFINE T == {k \in Nat : n < 2 * Pow2[k]}
<1>1. n \in T
  BY Pow2Positive
<1>2. PICK m \in T : \A k \in T : m <= k
  <2> T \subseteq Nat /\ T # {}
    BY <1>1
  <2> HIDE DEF T
  <2> QED BY LeastNumber
<1>3. Pow2[m] <= n
  <2>1. CASE m = 0
    BY <2>1, Pow2Def
  <2>2. CASE m # 0
    <3>1. m - 1 \in Nat /\ m - 1 \notin T
      BY <1>2, <2>2
    <3>2. Pow2[m] = 2 * Pow2[m - 1] /\ Pow2[m - 1] \in Nat
      BY <3>1, Pow2Def
    <3> QED BY <3>1, <3>2
  <2> QED BY <2>1, <2>2
<1> QED BY <1>2, <1>3

(* Quotient and remainder are unique.                                      *)
LEMMA DivMod ==
  ASSUME NEW d \in Nat, NEW q \in Nat, NEW r \in Nat, r < d
  PROVE  (d * q + r) \div d = q /\ (d * q + r) % d = r
<1> DEFINE n == d * q + r
<1>1. n \in Nat
  OBVIOUS
<1> HIDE DEF n
<1>2. n = d * (n \div d) + (n % d) /\ n % d \in 0 .. d - 1 /\ n \div d \in Nat
  BY <1>1
<1> DEFINE p == n \div d
           s == n % d
<1>3. n = d * p + s /\ s \in 0 .. d - 1 /\ p \in Nat
  BY <1>2
<1> HIDE DEF p, s
<1>4. d * p + s = d * q + r
  BY <1>3 DEF n
<1>5. p = q
  <2>1. CASE p < q
    <3>1. d * (q - p) >= d
      BY <1>3, <2>1
    <3>2. d * (q - p) = d * q - d * p
      BY <1>3
    <3> QED BY <1>3, <1>4, <3>1, <3>2
  <2>2. CASE q < p
    <3>1. d * (p - q) >= d
      BY <1>3, <2>2
    <3>2. d * (p - q) = d * p - d * q
      BY <1>3
    <3> QED BY <1>3, <1>4, <3>1, <3>2
  <2> QED BY <1>3, <2>1, <2>2
<1>6. s = r
  BY <1>3, <1>4, <1>5
<1> QED BY <1>5, <1>6 DEF p, s, n

(* The next number: its remainder is one more, or 0 again.                 *)
NextRemainder(x, d) == IF (x % d) + 1 = d THEN 0 ELSE (x % d) + 1

LEMMA ModNext ==
  ASSUME NEW x \in Nat, NEW d \in Nat \ {0}
  PROVE  (x + 1) % d = NextRemainder(x, d)
<1> DEFINE q == x \div d
           r == x % d
<1>1. q \in Nat /\ r \in 0 .. d - 1 /\ x = d * q + r
  OBVIOUS
<1>2. d * q \in Nat /\ d * (q + 1) = d * q + d
  BY <1>1
<1> HIDE DEF q, r
<1>3. CASE r + 1 = d
  <2>1. x + 1 = d * (q + 1) + 0 /\ q + 1 \in Nat /\ 0 \in 0 .. d - 1
    BY <1>1, <1>2, <1>3
  <2>2. (x + 1) % d = 0
    BY <2>1, DivMod
  <2> QED BY <1>3, <2>2 DEF NextRemainder, r
<1>4. CASE r + 1 # d
  <2>1. x + 1 = d * q + (r + 1) /\ r + 1 \in 0 .. d - 1
    BY <1>1, <1>2, <1>4
  <2>2. (x + 1) % d = r + 1
    BY <1>1, <2>1, DivMod
  <2> QED BY <1>4, <2>2 DEF NextRemainder, r
<1> QED BY <1>3, <1>4

LEMMA Pow2Divides ==
  ASSUME NEW i \in Nat, NEW j \in Nat, i <= j PROVE Pow2[j] % Pow2[i] = 0
<1> DEFINE p == Pow2[i]
           q == Pow2[j - i]
<1>1. p \in Nat /\ p > 0 /\ q \in Nat /\ i + (j - i) = j /\ j - i \in Nat
  BY Pow2Def, Pow2Positive
<1>2. Pow2[j] = p * q + 0
  <2>1. Pow2[j] = p * q
    BY <1>1, Pow2Sum
  <2> HIDE DEF p, q
  <2> QED BY <1>1, <2>1
<1> HIDE DEF p, q
<1>3. (p * q + 0) % p = 0
  BY <1>1, DivMod
<1> QED BY <1>2, <1>3 DEF p

----------------------------------------------------------------------------
(* "&".                                                                    *)

Conjoined(g, x, y) == (x % 2) * (y % 2) + 2 * g[x \div 2][y \div 2]

LEMMA ConjoinedType ==
  ASSUME NEW g \in [Nat -> [Nat -> Nat]], NEW x \in Nat, NEW y \in Nat
  PROVE  Conjoined(g, x, y) \in Nat
<1>1. x \div 2 \in Nat /\ y \div 2 \in Nat /\ x % 2 \in 0 .. 1 /\ y % 2 \in 0 .. 1
  OBVIOUS
<1>2. g[x \div 2][y \div 2] \in Nat
  BY <1>1
<1>3. (x % 2) * (y % 2) \in Nat
  BY <1>1
<1>4. \A a, b \in Nat : a + 2 * b \in Nat
  OBVIOUS
<1>5. (x % 2) * (y % 2) + 2 * g[x \div 2][y \div 2] \in Nat
  BY <1>2, <1>3, <1>4, Zenon
<1> QED BY <1>5 DEF Conjoined

THEOREM AndDef ==
  /\ And \in [Nat -> [Nat -> [Nat -> Nat]]]
  /\ \A x, y \in Nat : And[0][x][y] = 0
  /\ \A bits, x, y \in Nat :
       And[bits + 1][x][y] = (x % 2) * (y % 2) + 2 * And[bits][x \div 2][y \div 2]
<1> DEFINE V == [Nat -> [Nat -> Nat]]
           zero == [x \in Nat |-> [y \in Nat |-> 0]]
           step == [k \in Nat |-> [g \in V |-> [x \in Nat |-> [y \in Nat |-> Conjoined(g, x, y)]]]]
           Body(f, k) == [x \in Nat |-> [y \in Nat |-> IF k = 0 THEN 0
                            ELSE (x % 2) * (y % 2) + 2 * f[k - 1][x \div 2][y \div 2]]]
           Eq(f) == f = [k \in Nat |-> Body(f, k)]
<1>1. zero \in V
  OBVIOUS
<1>2. step \in [Nat -> [V -> V]]
  BY ConjoinedType
<1>3. \A k \in Nat : \A g \in V :
        step[k][g] = [x \in Nat |-> [y \in Nat |-> Conjoined(g, x, y)]]
  OBVIOUS
<1>4. PICK f : Recurs(f, V, zero, step)
  <2> HIDE DEF V, zero, step
  <2> QED BY <1>1, <1>2, Recursion
<1>5. ASSUME NEW k \in Nat PROVE f[k] = Body(f, k)
  <2>1. CASE k = 0
    BY <1>4, <2>1 DEF Recurs
  <2>2. CASE k # 0
    <3>1. k - 1 \in Nat /\ (k - 1) + 1 = k
      BY <2>2
    <3>2. f[k - 1] \in V
      BY <1>4, <3>1 DEF Recurs
    <3>3. f[k] = [x \in Nat |-> [y \in Nat |-> Conjoined(f[k - 1], x, y)]]
      <4> HIDE DEF step
      <4> QED BY <1>3, <1>4, <3>1, <3>2 DEF Recurs
    <3> QED BY <2>2, <3>3 DEF Conjoined
  <2> QED BY <2>1, <2>2
<1>6. f \in [Nat -> V]
  BY <1>4 DEF Recurs
<1>7. Eq(f)
  <2> HIDE DEF Body, V
  <2> QED BY <1>5, <1>6
<1>8. And = CHOOSE g : Eq(g)
  BY DEF And
<1>9. Eq(And)
  <2> HIDE DEF Eq
  <2> QED BY <1>7, <1>8
<1>10. \A x, y \in Nat : And[0][x][y] = 0
  BY <1>9
<1>11. ASSUME NEW k \in Nat, NEW x \in Nat, NEW y \in Nat
       PROVE  And[k + 1][x][y] = Conjoined(And[k], x, y)
  <2>1. k + 1 \in Nat /\ k + 1 # 0 /\ (k + 1) - 1 = k
    OBVIOUS
  <2>2. And[k + 1] = Body(And, k + 1)
    <3> HIDE DEF Body
    <3> QED BY <1>9, <2>1
  <2>3. Body(And, k + 1)[x][y] = Conjoined(And[k], x, y)
    BY <2>1, Zenon DEF Conjoined
  <2> QED BY <2>2, <2>3
<1>12. \A k \in Nat : And[k] \in V
  <2> DEFINE S == {k \in Nat : And[k] \in V}
  <2>1. 0 \in S
    BY <1>9
  <2>2. ASSUME NEW k \in Nat, k \in S PROVE k + 1 \in S
    <3>1. k + 1 \in Nat /\ k + 1 # 0 /\ (k + 1) - 1 = k
      OBVIOUS
    <3>2. And[k + 1] = Body(And, k + 1)
      <4> HIDE DEF Body
      <4> QED BY <1>9, <3>1
    <3>3. Body(And, k + 1) = [x \in Nat |-> [y \in Nat |-> Conjoined(And[k], x, y)]]
      BY <3>1, Zenon DEF Conjoined
    <3>4. \A x, y \in Nat : Conjoined(And[k], x, y) \in Nat
      BY <2>2, ConjoinedType
    <3>5. And[k + 1] \in V
      <4> DEFINE row(x) == [y \in Nat |-> Conjoined(And[k], x, y)]
      <4>1. \A x \in Nat : row(x) \in [Nat -> Nat]
        BY <3>4
      <4> HIDE DEF row, Body
      <4>2. [x \in Nat |-> row(x)] \in V
        BY <4>1
      <4> QED BY <3>2, <3>3, <4>2 DEF row
    <3> QED BY <3>1, <3>5
  <2> HIDE DEF S
  <2>3. \A k \in Nat : k \in S
    BY <2>1, <2>2, SetInduction
  <2> QED BY <2>3 DEF S
<1>13. And \in [Nat -> V]
  <2>1. And = [k \in Nat |-> And[k]]
    <3> HIDE DEF Body
    <3> QED BY <1>9
  <2> HIDE DEF V, Eq
  <2> QED BY <1>12, <2>1
<1> QED BY <1>10, <1>11, <1>13 DEF Conjoined

LEMMA AndType == \A k, x, y \in Nat : And[k][x][y] \in Nat
<1> TAKE k, x, y \in Nat
<1>1. And[k] \in [Nat -> [Nat -> Nat]]
  BY AndDef
<1>2. And[k][x] \in [Nat -> Nat]
  BY <1>1
<1> QED BY <1>2

LEMMA AndNone == \A x, y \in Nat : And[0][x][y] = 0
BY AndDef

(* One step of the recursion, from the lowest bit on.                      *)
AndStep(k, x, y) == And[k + 1][x][y] = (x % 2) * (y % 2) + 2 * And[k][x \div 2][y \div 2]

LEMMA AndSteps == \A k, x, y \in Nat : AndStep(k, x, y)
BY AndDef DEF AndStep

LEMMA Halves ==
  ASSUME NEW x \in Nat
  PROVE  x \div 2 \in Nat /\ x % 2 \in 0 .. 1 /\ x = 2 * (x \div 2) + (x % 2)
OBVIOUS

LEMMA AndZero == \A k, x \in Nat : And[k][0][x] = 0 /\ And[k][x][0] = 0
<1> DEFINE S == {k \in Nat : \A x \in Nat : And[k][0][x] = 0 /\ And[k][x][0] = 0}
<1>1. 0 \in S
  BY AndNone
<1>2. ASSUME NEW k \in Nat, k \in S PROVE k + 1 \in S
  <2>1. ASSUME NEW x \in Nat PROVE And[k + 1][0][x] = 0 /\ And[k + 1][x][0] = 0
    <3>1. x \div 2 \in Nat /\ 0 \div 2 = 0 /\ 0 % 2 = 0 /\ x % 2 \in 0 .. 1
      OBVIOUS
    <3>2. And[k][0][x \div 2] = 0 /\ And[k][x \div 2][0] = 0
      BY <1>2, <3>1
    <3>3. /\ And[k + 1][0][x] = (0 % 2) * (x % 2) + 2 * And[k][0 \div 2][x \div 2]
          /\ And[k + 1][x][0] = (x % 2) * (0 % 2) + 2 * And[k][x \div 2][0 \div 2]
      <4>1. AndStep(k, 0, x) /\ AndStep(k, x, 0)
        BY AndSteps
      <4> QED BY <4>1 DEF AndStep
    <3> QED BY <3>1, <3>2, <3>3
  <2> QED BY <2>1
<1> HIDE DEF S
<1>3. \A k \in Nat : k \in S
  BY <1>1, <1>2, SetInduction
<1> QED BY <1>3 DEF S

(* A number is never more than what it is masked with.                     *)
THEOREM AndAtMost == \A k, x, y \in Nat : And[k][x][y] \in 0 .. y
<1> DEFINE S == {k \in Nat : \A x, y \in Nat : And[k][x][y] <= y}
<1>1. 0 \in S
  BY AndNone
<1>2. ASSUME NEW k \in Nat, k \in S PROVE k + 1 \in S
  <2>1. ASSUME NEW x \in Nat, NEW y \in Nat PROVE And[k + 1][x][y] <= y
    <3>1. And[k][x \div 2][y \div 2] \in Nat /\ And[k][x \div 2][y \div 2] <= y \div 2
      BY <1>2, AndType, Halves
    <3>2. (x % 2) * (y % 2) \in Nat /\ (x % 2) * (y % 2) <= y % 2
      <4>1. \A a, b \in 0 .. 1 : a * b \in Nat /\ a * b <= b
        OBVIOUS
      <4> QED BY <4>1, Halves
    <3>3. \A p, q, a, b \in Nat : p <= q /\ a <= b => p + 2 * a <= q + 2 * b
      OBVIOUS
    <3>4. (x % 2) * (y % 2) + 2 * And[k][x \div 2][y \div 2] <= (y % 2) + 2 * (y \div 2)
      <4>1. y % 2 \in Nat /\ y \div 2 \in Nat
        OBVIOUS
      <4> QED BY <3>1, <3>2, <3>3, <4>1, Zenon
    <3>5. (y % 2) + 2 * (y \div 2) = y
      OBVIOUS
    <3>6. And[k + 1][x][y] = (x % 2) * (y % 2) + 2 * And[k][x \div 2][y \div 2]
      <4>1. AndStep(k, x, y)
        BY AndSteps
      <4> QED BY <4>1 DEF AndStep
    <3> QED BY <3>4, <3>5, <3>6, Zenon
  <2> QED BY <2>1
<1> HIDE DEF S
<1>3. \A k \in Nat : k \in S
  BY <1>1, <1>2, SetInduction
<1>4. ASSUME NEW k \in Nat, NEW x \in Nat, NEW y \in Nat
      PROVE  And[k][x][y] \in 0 .. y
  <2>1. And[k][x][y] <= y
    <3>1. k \in S
      BY <1>3
    <3> QED BY <3>1, Zenon DEF S
  <2>2. And[k][x][y] \in Nat
    BY AndType, Zenon
  <2>3. \A n \in Nat : n <= y => n \in 0 .. y
    OBVIOUS
  <2> QED BY <2>1, <2>2, <2>3, Zenon
<1> QED BY <1>4, Zenon

LEMMA AndSelf == \A k \in Nat : \A x \in 0 .. Pow2[k] - 1 : And[k][x][x] = x
<1> DEFINE S == {k \in Nat : \A x \in 0 .. Pow2[k] - 1 : And[k][x][x] = x}
<1>1. 0 \in S
  <2>1. Pow2[0] = 1
    BY Pow2Def
  <2>2. \A x \in 0 .. 0 : x = 0
    OBVIOUS
  <2>3. 0 .. Pow2[0] - 1 = 0 .. 0 /\ And[0][0][0] = 0
    BY <2>1, AndNone
  <2> QED BY <2>2, <2>3
<1>2. ASSUME NEW k \in Nat, k \in S PROVE k + 1 \in S
  <2>1. ASSUME NEW x \in 0 .. Pow2[k + 1] - 1 PROVE And[k + 1][x][x] = x
    <3>1. x \in Nat /\ x < 2 * Pow2[k] /\ Pow2[k] \in Nat
      BY Pow2Def
    <3>2. x \div 2 \in 0 .. Pow2[k] - 1
      BY <3>1
    <3>3. And[k][x \div 2][x \div 2] = x \div 2
      BY <1>2, <3>2
    <3>4. (x % 2) * (x % 2) = x % 2
      <4>1. \A a \in 0 .. 1 : a * a = a
        OBVIOUS
      <4> QED BY <3>1, <4>1, Halves
    <3>5. And[k + 1][x][x] = (x % 2) * (x % 2) + 2 * And[k][x \div 2][x \div 2]
      <4>1. AndStep(k, x, x)
        BY <3>1, AndSteps
      <4> QED BY <4>1 DEF AndStep
    <3> QED BY <3>1, <3>3, <3>4, <3>5, Halves
  <2> QED BY <2>1
<1> HIDE DEF S
<1>3. \A k \in Nat : k \in S
  BY <1>1, <1>2, SetInduction
<1> QED BY <1>3 DEF S

LEMMA HalfOfSum ==
  ASSUME NEW p \in Nat, NEW n \in Nat, NEW u \in Nat
  PROVE  /\ (2 * p) * n + u \in Nat
         /\ ((2 * p) * n + u) \div 2 = p * n + (u \div 2)
         /\ ((2 * p) * n + u) % 2 = u % 2
<1>1. p * n \in Nat /\ (2 * p) * n = 2 * (p * n)
  OBVIOUS
<1>2. \A m \in Nat : /\ 2 * m + u \in Nat
                      /\ (2 * m + u) \div 2 = m + (u \div 2)
                      /\ (2 * m + u) % 2 = u % 2
  OBVIOUS
<1> QED BY <1>1, <1>2

(* The upper and the lower bits are taken for themselves.                  *)
AndSplits(k, x, y, a, d, r, s) ==
  And[a + k][d * x + r][d * y + s] = d * And[k][x][y] + And[a][r][s]

THEOREM AndShift ==
  ASSUME NEW k \in Nat, NEW x \in Nat, NEW y \in Nat, NEW a \in Nat,
         NEW d, d = Pow2[a], NEW r \in 0 .. d - 1, NEW s \in 0 .. d - 1
  PROVE  AndSplits(k, x, y, a, d, r, s)
<1> DEFINE Shifts(b) == \A u, v \in 0 .. Pow2[b] - 1 :
             And[b + k][Pow2[b] * x + u][Pow2[b] * y + v] = Pow2[b] * And[k][x][y] + And[b][u][v]
           S == {b \in Nat : Shifts(b)}
<1>1. 0 \in S
  <2>1. Pow2[0] = 1 /\ And[k][x][y] \in Nat
    BY Pow2Def, AndType
  <2>2. ASSUME NEW u \in 0 .. Pow2[0] - 1, NEW v \in 0 .. Pow2[0] - 1
        PROVE  And[0 + k][Pow2[0] * x + u][Pow2[0] * y + v]
                 = Pow2[0] * And[k][x][y] + And[0][u][v]
    <3>1. u = 0 /\ v = 0 /\ Pow2[0] * x + u = x /\ Pow2[0] * y + v = y /\ 0 + k = k
      BY <2>1
    <3>2. And[0][u][v] = 0
      BY <3>1, AndNone
    <3> QED BY <2>1, <3>1, <3>2
  <2> QED BY <2>2
<1>2. ASSUME NEW b \in Nat, b \in S PROVE b + 1 \in S
  <2> DEFINE p == Pow2[b]
             z == And[k][x][y]
  <2>1. p \in Nat /\ Pow2[b + 1] = 2 * p /\ z \in Nat /\ (b + 1) + k = (b + k) + 1
    <3>1. p \in Nat /\ Pow2[b + 1] = 2 * p
      BY Pow2Def
    <3>2. z \in Nat
      BY AndType
    <3>3. (b + 1) + k = (b + k) + 1
      OBVIOUS
    <3> QED BY <3>1, <3>2, <3>3
  <2>2. ASSUME NEW u \in 0 .. Pow2[b + 1] - 1, NEW v \in 0 .. Pow2[b + 1] - 1
        PROVE  And[(b + 1) + k][Pow2[b + 1] * x + u][Pow2[b + 1] * y + v]
                 = Pow2[b + 1] * z + And[b + 1][u][v]
    <3> DEFINE uu == u \div 2
               vv == v \div 2
    <3>1. /\ u \in Nat /\ v \in Nat /\ uu \in 0 .. p - 1 /\ vv \in 0 .. p - 1
          /\ u = 2 * uu + (u % 2) /\ v = 2 * vv + (v % 2) /\ u % 2 \in 0 .. 1 /\ v % 2 \in 0 .. 1
      BY <2>1
    <3> HIDE DEF p, z, uu, vv
    <3> DEFINE X == (2 * p) * x + u
               Y == (2 * p) * y + v
    <3>3. /\ X \in Nat /\ X \div 2 = p * x + uu /\ X % 2 = u % 2
          /\ Y \in Nat /\ Y \div 2 = p * y + vv /\ Y % 2 = v % 2
      BY <2>1, <3>1, HalfOfSum DEF uu, vv
    <3>4. And[b + k][p * x + uu][p * y + vv] = p * z + And[b][uu][vv]
      BY <1>2, <3>1 DEF p, z
    <3> HIDE DEF X, Y
    <3>5. And[(b + k) + 1][X][Y] = (u % 2) * (v % 2) + 2 * (p * z + And[b][uu][vv])
      <4>1. PICK j \in Nat : j = b + k
        OBVIOUS
      <4>2. And[(b + k) + 1][X][Y] = (X % 2) * (Y % 2) + 2 * And[b + k][X \div 2][Y \div 2]
        <5>1. X \in Nat /\ Y \in Nat
          BY <3>3
        <5>2. AndStep(j, X, Y)
          BY <5>1, AndSteps
        <5> QED BY <4>1, <5>2 DEF AndStep
      <4> QED BY <3>3, <3>4, <4>2
    <3>6. And[b + 1][u][v] = (u % 2) * (v % 2) + 2 * And[b][uu][vv]
      <4>1. AndStep(b, u, v)
        BY <3>1, AndSteps
      <4> QED BY <4>1 DEF AndStep, uu, vv
    <3>7. \A c, m, e \in Nat : c + 2 * (p * m + e) = (2 * p) * m + (c + 2 * e)
      <4> TAKE c, m, e \in Nat
      <4>1. p * m \in Nat /\ (2 * p) * m = 2 * (p * m)
        BY <2>1
      <4> QED BY <4>1
    <3>8. (u % 2) * (v % 2) \in Nat /\ And[b][uu][vv] \in Nat
      <4>1. \A c, e \in 0 .. 1 : c * e \in Nat
        OBVIOUS
      <4> QED BY <3>1, <4>1, AndType
    <3>9. (u % 2) * (v % 2) + 2 * (p * z + And[b][uu][vv]) = (2 * p) * z + And[b + 1][u][v]
      <4> DEFINE c == (u % 2) * (v % 2)
                 e == And[b][uu][vv]
      <4>1. And[b + 1][u][v] = c + 2 * e /\ c \in Nat /\ e \in Nat
        BY <3>6, <3>8
      <4> HIDE DEF c, e
      <4>2. c + 2 * (p * z + e) = (2 * p) * z + (c + 2 * e)
        BY <2>1, <3>7, <4>1
      <4> QED BY <4>1, <4>2 DEF c, e
    <3> QED BY <2>1, <3>5, <3>9 DEF X, Y
  <2> QED BY <2>2 DEF z
<1>3. \A b \in Nat : b \in S
  <2> HIDE DEF S
  <2> QED BY <1>1, <1>2, SetInduction
<1>4. Shifts(a)
  BY <1>3
<1> QED BY <1>4 DEF AndSplits

LEMMA AndOnes == \A k \in Nat : \A r \in 0 .. Pow2[k] - 1 : And[k][r][Pow2[k] - 1] = r
<1> DEFINE S == {k \in Nat : \A r \in 0 .. Pow2[k] - 1 : And[k][r][Pow2[k] - 1] = r}
<1>1. 0 \in S
  <2>1. Pow2[0] = 1
    BY Pow2Def
  <2>2. \A x \in 0 .. 0 : x = 0
    OBVIOUS
  <2>3. 0 .. Pow2[0] - 1 = 0 .. 0 /\ Pow2[0] - 1 = 0 /\ And[0][0][0] = 0
    BY <2>1, AndNone
  <2> QED BY <2>2, <2>3
<1>2. ASSUME NEW k \in Nat, k \in S PROVE k + 1 \in S
  <2> DEFINE p == Pow2[k]
  <2>1. p \in Nat /\ p > 0 /\ Pow2[k + 1] = 2 * p
    BY Pow2Def, Pow2Positive
  <2>2. ASSUME NEW r \in 0 .. 2 * p - 1 PROVE And[k + 1][r][2 * p - 1] = r
    <3> HIDE DEF p
    <3>1. r \in Nat /\ 2 * p - 1 \in Nat /\ r \div 2 \in 0 .. p - 1
      BY <2>1
    <3>2. (2 * p - 1) \div 2 = p - 1 /\ (2 * p - 1) % 2 = 1
      BY <2>1
    <3>3. And[k][r \div 2][p - 1] = r \div 2
      BY <1>2, <3>1 DEF p
    <3>4. And[k + 1][r][2 * p - 1]
            = (r % 2) * ((2 * p - 1) % 2) + 2 * And[k][r \div 2][(2 * p - 1) \div 2]
      <4>1. AndStep(k, r, 2 * p - 1)
        BY <3>1, AndSteps
      <4> QED BY <4>1 DEF AndStep
    <3>5. (r % 2) * 1 + 2 * (r \div 2) = r
      BY <3>1
    <3> QED BY <3>2, <3>3, <3>4, <3>5, Zenon
  <2> QED BY <2>1, <2>2
<1> HIDE DEF S
<1>3. \A k \in Nat : k \in S
  BY <1>1, <1>2, SetInduction
<1> QED BY <1>3 DEF S

(* The mask below a power of two takes the remainder.                      *)
THEOREM AndRemainder ==
  ASSUME NEW bits \in Nat, NEW k \in 0 .. bits, NEW x \in Nat
  PROVE  And[bits][x][Pow2[k] - 1] = x % Pow2[k]
<1> DEFINE p == Pow2[k]
           q == x \div p
           r == x % p
           w == bits - k
<1>1. p \in Nat /\ p > 0 /\ w \in Nat /\ k \in Nat /\ k + w = bits
  BY Pow2Def, Pow2Positive
<1>2. q \in Nat /\ r \in 0 .. p - 1 /\ x = p * q + r
  <2> HIDE DEF p
  <2> QED BY <1>1
<1>3. And[k + w][p * q + r][p * 0 + (p - 1)] = p * And[w][q][0] + And[k][r][p - 1]
  <2>1. p - 1 \in 0 .. p - 1
    BY <1>1
  <2>2. p = Pow2[k]
    OBVIOUS
  <2> HIDE DEF p, q, r, w
  <2>3. AndSplits(w, q, 0, k, p, r, p - 1)
    BY <1>1, <1>2, <2>1, <2>2, AndShift
  <2> QED BY <2>3 DEF AndSplits
<1>4. And[w][q][0] = 0 /\ And[k][r][p - 1] = r
  BY <1>1, <1>2, AndZero, AndOnes
<1>5. p * 0 + (p - 1) = p - 1 /\ p * 0 + r = r
  <2> HIDE DEF p, q, r, w
  <2>1. p \in Nat /\ r \in Nat /\ p * 0 = 0
    BY <1>1, <1>2
  <2> QED BY <2>1
<1> HIDE DEF p, q, r, w
<1>6. And[bits][x][p - 1] = r
  BY <1>1, <1>2, <1>3, <1>4, <1>5
<1> QED BY <1>6 DEF p, r

(* Bit a of x is the lowest; x & (x - 1) clears it, and & (x - 2) clears no*)
(* more.                                                                   *)
OddMultiple(x, a, q) == x = Pow2[a] * (2 * q + 1)

ClearsOne(bits, x, a) ==
  /\ And[bits][x][x - 1] = x - Pow2[a]
  /\ a > 0 => And[bits][x - Pow2[a]][x - 2] = x - Pow2[a]

(* Taking one and then two away from a number as masks clears its lowest   *)
(* bit only, unless that bit is bit 0 (LogServer.cpp:265-266).             *)
THEOREM AndClears ==
  ASSUME NEW bits \in Nat, NEW a \in Nat, NEW q \in Nat, NEW x \in Nat,
         OddMultiple(x, a, q), x < Pow2[bits]
  PROVE  ClearsOne(bits, x, a)
<1> DEFINE p == Pow2[a]
           w == bits - (a + 1)
<1>1. p \in Nat /\ p > 0 /\ Pow2[a + 1] = 2 * p /\ a + 1 \in Nat
  BY Pow2Def, Pow2Positive
<1>2. a > 0 => p >= 2
  <2> SUFFICES ASSUME a > 0 PROVE p >= 2
    OBVIOUS
  <2>1. PICK b \in Nat : b + 1 = a
    <3>1. a - 1 \in Nat /\ (a - 1) + 1 = a
      OBVIOUS
    <3> QED BY <3>1
  <2>2. p = 2 * Pow2[b] /\ Pow2[b] \in Nat
    BY <2>1, Pow2Def
  <2>3. Pow2[b] > 0
    BY Pow2Positive
  <2> HIDE DEF p
  <2> QED BY <2>2, <2>3
<1>3. x = (2 * p) * q + p /\ (2 * p) * q \in Nat
  <2> HIDE DEF p
  <2>1. x = p * (2 * q + 1)
    BY DEF p, OddMultiple
  <2> QED BY <1>1, <2>1
<1>4. w \in Nat /\ (a + 1) + w = bits
  <2>1. CASE bits < a
    <3>1. 2 * Pow2[bits] <= p /\ Pow2[bits] \in Nat
      BY <2>1, Pow2Grows, Pow2Def
    <3> HIDE DEF p
    <3> QED BY <1>1, <1>3, <3>1
  <2>2. CASE bits = a
    <3> HIDE DEF p
    <3> QED BY <1>1, <1>3, <2>2 DEF p
  <2> QED BY <2>1, <2>2
<1>5. q < Pow2[w] /\ Pow2[w] \in Nat
  <2>1. Pow2[bits] = (2 * p) * Pow2[w] /\ Pow2[w] \in Nat
    <3> HIDE DEF p, w
    <3>1. Pow2[(a + 1) + w] = Pow2[a + 1] * Pow2[w]
      BY <1>1, <1>4, Pow2Sum
    <3>2. Pow2[w] \in Nat
      BY <1>4, Pow2Def
    <3> QED BY <1>1, <1>4, <3>1, <3>2
  <2>2. ASSUME NEW v \in Nat, v <= q PROVE (2 * p) * v <= (2 * p) * q
    <3>1. (2 * p) * (q - v) >= 0
      BY <1>1, <2>2
    <3>2. (2 * p) * (q - v) = (2 * p) * q - (2 * p) * v
      BY <1>1
    <3> QED BY <1>1, <3>1, <3>2
  <2> HIDE DEF p, w
  <2> QED BY <1>1, <1>3, <2>1, <2>2
<1> HIDE DEF p, w
<1>6. ASSUME NEW u \in 0 .. 2 * p - 1, NEW v \in 0 .. 2 * p - 1, And[a + 1][u][v] = 0
      PROVE  And[bits][(2 * p) * q + u][(2 * p) * q + v] = (2 * p) * q
  <2>1. And[(a + 1) + w][(2 * p) * q + u][(2 * p) * q + v]
          = (2 * p) * And[w][q][q] + And[a + 1][u][v]
    <3>1. a + 1 \in Nat /\ w \in Nat /\ 2 * p = Pow2[a + 1]
      BY <1>1, <1>4
    <3>2. AndSplits(w, q, q, a + 1, 2 * p, u, v)
      BY <3>1, AndShift
    <3> QED BY <3>2 DEF AndSplits
  <2>2. And[w][q][q] = q
    BY <1>4, <1>5, AndSelf
  <2> QED BY <1>1, <1>3, <1>4, <1>6, <2>1, <2>2
<1>7. And[a + 1][p][p - 1] = 0
  <2>1. And[a + 1][p * 1 + 0][p * 0 + (p - 1)] = p * And[1][1][0] + And[a][0][p - 1]
    <3>1. 0 \in 0 .. p - 1 /\ p - 1 \in 0 .. p - 1 /\ p = Pow2[a] /\ 0 \in Nat /\ 1 \in Nat
      BY <1>1 DEF p
    <3> HIDE DEF p
    <3>2. AndSplits(1, 1, 0, a, p, 0, p - 1)
      BY <3>1, AndShift
    <3> QED BY <3>2 DEF AndSplits
  <2>2. And[1][1][0] = 0 /\ And[a][0][p - 1] = 0
    BY <1>1, AndZero
  <2>3. p * 1 + 0 = p /\ p * 0 + (p - 1) = p - 1 /\ p * 0 + 0 = 0
    BY <1>1
  <2> QED BY <2>1, <2>2, <2>3
<1>8. And[bits][x][x - 1] = (2 * p) * q
  <2>1. p \in 0 .. 2 * p - 1 /\ p - 1 \in 0 .. 2 * p - 1 /\ x - 1 = (2 * p) * q + (p - 1)
    BY <1>1, <1>3
  <2> QED BY <1>3, <1>6, <1>7, <2>1
<1>9. ASSUME a > 0 PROVE And[bits][(2 * p) * q][x - 2] = (2 * p) * q
  <2>1. /\ 0 \in 0 .. 2 * p - 1 /\ p - 2 \in 0 .. 2 * p - 1
        /\ x - 2 = (2 * p) * q + (p - 2) /\ (2 * p) * q + 0 = (2 * p) * q
    BY <1>1, <1>2, <1>3, <1>9
  <2>2. And[a + 1][0][p - 2] = 0
    BY <1>1, <2>1, AndZero
  <2> QED BY <1>6, <2>1, <2>2
<1>10. x - p = (2 * p) * q
  BY <1>1, <1>3
<1> QED BY <1>8, <1>9, <1>10 DEF p, ClearsOne

(* 0 and 1 share no bit with an even number.                              *)
LEMMA AndOneEven ==
  ASSUME NEW k \in Nat, NEW u \in 0 .. 1, NEW q \in Nat
  PROVE  And[k][u][2 * q] = 0
<1>1. CASE k = 0
  BY <1>1, AndNone
<1>2. CASE k # 0
  <2>1. PICK j \in Nat : k = j + 1
    <3>1. k - 1 \in Nat /\ k = (k - 1) + 1
      BY <1>2
    <3> QED BY <3>1
  <2>2. AndStep(j, u, 2 * q) /\ u \in Nat /\ 2 * q \in Nat
    BY AndSteps
  <2>3. (2 * q) % 2 = 0 /\ u \div 2 = 0 /\ (2 * q) \div 2 \in Nat /\ u % 2 \in Nat
    OBVIOUS
  <2>4. And[j][u \div 2][(2 * q) \div 2] = 0
    BY <2>3, AndZero
  <2> QED BY <2>1, <2>2, <2>3, <2>4 DEF AndStep
<1>3. QED BY <1>1, <1>2

(* Counting on from 0 under the mask x - 1 comes back to 0 at the lowest   *)
(* bit of x, before the bits above it (LogServer.h:114).                   *)
CountsTo(bits, x, a, i) ==
  And[bits][i + 1][x - 1] = IF i + 1 = Pow2[a] THEN 0 ELSE i + 1

THEOREM MaskOfOddMultiple ==
  ASSUME NEW bits \in Nat, NEW a \in Nat, NEW q \in Nat, NEW x \in Nat,
         OddMultiple(x, a, q), x < Pow2[bits], NEW i \in 0 .. Pow2[a] - 1
  PROVE  CountsTo(bits, x, a, i)
<1> DEFINE p == Pow2[a]
           w == bits - a
<1>1. p \in Nat /\ p > 0 /\ p = Pow2[a] /\ i \in 0 .. p - 1
  BY Pow2Positive
<1>2. x = p * (2 * q) + p /\ p * (2 * q) \in Nat
  <2>1. x = p * (2 * q + 1)
    BY DEF OddMultiple
  <2> HIDE DEF p
  <2>2. p * (2 * q + 1) = p * (2 * q) + p
    BY <1>1
  <2> QED BY <1>1, <2>1, <2>2
<1>3. w \in Nat /\ a + w = bits
  <2>1. p <= x /\ x < Pow2[bits] /\ Pow2[bits] \in Nat
    <3> HIDE DEF p
    <3> QED BY <1>1, <1>2, Pow2Positive
  <2>2. bits < a => 2 * Pow2[bits] <= p
    BY Pow2Grows
  <2>3. ~ (bits < a)
    BY <1>1, <2>1, <2>2
  <2> QED BY <2>3
<1> HIDE DEF p, w
<1>4. ASSUME NEW u \in Nat, NEW r \in 0 .. p - 1, i + 1 = p * u + r, u \in 0 .. 1
      PROVE  And[bits][i + 1][x - 1] = And[a][r][p - 1]
  <2>1. p - 1 \in 0 .. p - 1 /\ 2 * q \in Nat /\ x - 1 = p * (2 * q) + (p - 1)
    BY <1>1, <1>2
  <2>2. AndSplits(w, u, 2 * q, a, p, r, p - 1)
    BY <1>1, <1>3, <2>1, AndShift
  <2>3. And[bits][i + 1][x - 1] = p * And[w][u][2 * q] + And[a][r][p - 1]
    BY <1>3, <1>4, <2>1, <2>2, Zenon DEF AndSplits
  <2>4. And[w][u][2 * q] = 0
    BY <1>3, <1>4, AndOneEven
  <2>5. p * 0 = 0 /\ And[a][r][p - 1] \in Nat
    BY <1>1, AndType
  <2> QED BY <2>3, <2>4, <2>5
<1>5. CASE i + 1 = p
  <2>1. i + 1 = p * 1 + 0 /\ 0 \in 0 .. p - 1 /\ p - 1 \in Nat
    BY <1>1, <1>5
  <2>2. And[bits][i + 1][x - 1] = And[a][0][p - 1]
    BY <1>4, <2>1
  <2>3. And[a][0][p - 1] = 0
    BY <2>1, AndZero
  <2> QED BY <1>1, <1>5, <2>2, <2>3 DEF CountsTo
<1>6. CASE i + 1 # p
  <2>1. i + 1 = p * 0 + (i + 1) /\ i + 1 \in 0 .. p - 1
    BY <1>1, <1>6
  <2>2. And[bits][i + 1][x - 1] = And[a][i + 1][p - 1]
    BY <1>4, <2>1
  <2>3. And[a][i + 1][p - 1] = i + 1
    BY <1>1, <2>1, AndOnes
  <2> QED BY <1>1, <1>6, <2>2, <2>3 DEF CountsTo
<1>7. QED BY <1>5, <1>6
=============================================================================
