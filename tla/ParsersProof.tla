----------------------------- MODULE ParsersProof -----------------------------
(***************************************************************************)
(* The two tokenizers, for every line, address, width of the vector, clock *)
(* and window: what they push is valid, they agree on the header of a log, *)
(* and a well-formed log of the moment is not refused.                     *)
(***************************************************************************)
EXTENDS Parsers, BitsProof, FiniteSetTheorems, SequenceTheorems

----------------------------------------------------------------------------
(* Digits and numbers.                                                     *)

LEMMA DigitValue ==
  ASSUME NEW c, IsDigit(c)
  PROVE  Value(c) \in 0 .. 9 /\ Digits[Value(c) + 1] = c
<1>1. PICK n \in 1 .. 10 : c = Digits[n]
  BY DEF IsDigit, Range, Digits
<1>2. n - 1 \in 0 .. 9 /\ Digits[(n - 1) + 1] = c
  BY <1>1
<1> HIDE DEF Digits
<1> QED BY <1>2 DEF Value

(* The only digit that is worth nothing, and those a level may be.         *)
LEMMA SmallDigits ==
  /\ \A c : IsDigit(c) /\ c # "0" => Value(c) > 0
  /\ \A c \in {"0", "1", "2", "3", "4"} : IsDigit(c) /\ Value(c) \in 0 .. 4
<1>1. ASSUME NEW c, IsDigit(c), c # "0" PROVE Value(c) > 0
  <2>1. Digits[0 + 1] = "0"
    BY DEF Digits
  <2> QED BY <1>1, <2>1, DigitValue
<1>2. ASSUME NEW c \in {"0", "1", "2", "3", "4"} PROVE IsDigit(c) /\ Value(c) \in 0 .. 4
  <2>1. IsDigit(c)
    <3>1. \E n \in 1 .. 10 : Digits[n] = c
      BY DEF Digits
    <3> QED BY <3>1 DEF IsDigit, Range, Digits
  <2>2. \A v \in 5 .. 9 : Digits[v + 1] # c
    BY DEF Digits
  <2> QED BY <2>1, <2>2, DigitValue
<1> QED BY <1>1, <1>2

LEMMA BlankIsNoDigit == ~ IsDigit(Blank)
<1>1. /\ Blank # "0" /\ Blank # "1" /\ Blank # "2" /\ Blank # "3" /\ Blank # "4"
      /\ Blank # "5" /\ Blank # "6" /\ Blank # "7" /\ Blank # "8" /\ Blank # "9"
  BY Zenon DEF Blank
<1>2. \A v \in 0 .. 9 : Digits[v + 1] # Blank
  BY <1>1 DEF Digits
<1> QED BY <1>2, DigitValue

(* How the number grows with each digit read.                              *)
Reads(s, f) ==
  /\ f[0] = 0 /\ Number(s) = f[Len(s)]
  /\ \A n \in 1 .. Len(s) : f[n] = 10 * f[n - 1] + Value(s[n])
  /\ \A n \in 0 .. Len(s) : f[n] \in Nat

LEMMA NumberReads ==
  ASSUME NEW s \in Seq(STRING), \A n \in 1 .. Len(s) : IsDigit(s[n])
  PROVE  \E f : Reads(s, f)
<1> DEFINE step == [n \in Nat |-> [v \in Nat |->
                      IF n < Len(s) THEN 10 * v + Value(s[n + 1]) ELSE 0]]
<1>1. \A n \in 1 .. Len(s) : Value(s[n]) \in Nat
  BY DigitValue
<1>2. step \in [Nat -> [Nat -> Nat]]
  <2>1. ASSUME NEW n \in Nat, NEW v \in Nat
        PROVE  (IF n < Len(s) THEN 10 * v + Value(s[n + 1]) ELSE 0) \in Nat
    <3>1. n < Len(s) => Value(s[n + 1]) \in Nat
      BY <1>1
    <3> QED BY <3>1
  <2> QED BY <2>1
<1>3. \A n \in Nat : \A v \in Nat : n < Len(s) => step[n][v] = 10 * v + Value(s[n + 1])
  OBVIOUS
<1> HIDE DEF step
<1>4. PICK f : Recurs(f, Nat, 0, step)
  BY <1>2, Recursion
<1> DEFINE g == [n \in 0 .. Len(s) |-> f[n]]
           Eq(h) == h = [n \in 0 .. Len(s) |->
                           IF n = 0 THEN 0 ELSE 10 * h[n - 1] + Value(s[n])]
<1>5. \A n \in 0 .. Len(s) : g[n] = IF n = 0 THEN 0 ELSE 10 * g[n - 1] + Value(s[n])
  <2> TAKE n \in 0 .. Len(s)
  <2>1. CASE n = 0
    BY <1>4, <2>1 DEF Recurs
  <2>2. CASE n # 0
    <3>1. n - 1 \in Nat /\ n - 1 < Len(s) /\ (n - 1) + 1 = n /\ n - 1 \in 0 .. Len(s)
      BY <2>2
    <3>2. f[n - 1] \in Nat /\ f[n] = step[n - 1][f[n - 1]]
      BY <1>4, <3>1 DEF Recurs
    <3> QED BY <1>3, <2>2, <3>1, <3>2
  <2> QED BY <2>1, <2>2
<1>6. Eq(g)
  BY <1>5
<1> DEFINE u == CHOOSE h : Eq(h)
<1>7. Eq(u)
  <2> HIDE DEF Eq, g
  <2> QED BY <1>6
<1>8. Number(s) = u[Len(s)]
  BY DEF Number
<1> HIDE DEF u
<1>9. /\ u[0] = 0
      /\ \A n \in 1 .. Len(s) : u[n] = 10 * u[n - 1] + Value(s[n])
  BY <1>7
<1>10. \A n \in 0 .. Len(s) : u[n] \in Nat
  <2> DEFINE S == {n \in Nat : n <= Len(s) => u[n] \in Nat}
  <2>1. 0 \in S
    BY <1>9
  <2>2. ASSUME NEW n \in Nat, n \in S PROVE n + 1 \in S
    <3> SUFFICES ASSUME n + 1 <= Len(s) PROVE u[n + 1] \in Nat
      OBVIOUS
    <3>1. n + 1 \in 1 .. Len(s) /\ (n + 1) - 1 = n /\ n <= Len(s)
      OBVIOUS
    <3>2. u[n + 1] = 10 * u[n] + Value(s[n + 1]) /\ Value(s[n + 1]) \in Nat
      <4>1. u[n + 1] = 10 * u[(n + 1) - 1] + Value(s[n + 1])
        BY <1>9, <3>1, Zenon
      <4> QED BY <1>1, <3>1, <4>1, Zenon
    <3>3. u[n] \in Nat
      BY <2>2, <3>1
    <3> QED BY <3>2, <3>3
  <2> HIDE DEF S
  <2>3. \A n \in Nat : n \in S
    BY <2>1, <2>2, SetInduction
  <2> QED BY <2>3 DEF S
<1>11. Reads(s, u)
  BY <1>8, <1>9, <1>10 DEF Reads
<1> QED BY <1>11

(* What digits amount to: a number, not zero if the first one is not, and  *)
(* the digit itself if there is but one.                                   *)
LEMMA NumberOfDigits ==
  ASSUME NEW s \in Seq(STRING), \A n \in 1 .. Len(s) : IsDigit(s[n])
  PROVE  /\ Number(s) \in Nat
         /\ Len(s) > 0 /\ s[1] # "0" => Number(s) > 0
         /\ Len(s) = 1 => Number(s) = Value(s[1])
<1>1. PICK f : Reads(s, f)
  BY NumberReads
<1>2. Number(s) \in Nat
  BY <1>1 DEF Reads
<1>3. ASSUME Len(s) > 0, s[1] # "0" PROVE Number(s) > 0
  <2> DEFINE S == {n \in Nat : n + 1 <= Len(s) => f[n + 1] > 0}
  <2>1. 0 \in S
    <3>1. 1 \in 1 .. Len(s) /\ 1 - 1 = 0
      BY <1>3
    <3>2. f[1] = 10 * f[0] + Value(s[1]) /\ f[0] = 0
      BY <1>1, <3>1 DEF Reads
    <3>3. Value(s[1]) \in Nat /\ Value(s[1]) > 0
      BY <1>3, <3>1, SmallDigits, DigitValue
    <3> QED BY <3>2, <3>3
  <2>2. ASSUME NEW n \in Nat, n \in S PROVE n + 1 \in S
    <3> SUFFICES ASSUME (n + 1) + 1 <= Len(s) PROVE f[(n + 1) + 1] > 0
      OBVIOUS
    <3>1. f[(n + 1) + 1] = 10 * f[n + 1] + Value(s[(n + 1) + 1]) /\ f[n + 1] \in Nat
      BY <1>1 DEF Reads
    <3>2. Value(s[(n + 1) + 1]) \in Nat
      BY DigitValue
    <3> QED BY <2>2, <3>1, <3>2
  <2> HIDE DEF S
  <2>3. \A n \in Nat : n \in S
    BY <2>1, <2>2, SetInduction
  <2>4. Len(s) - 1 \in Nat /\ (Len(s) - 1) + 1 = Len(s)
    BY <1>3
  <2>5. f[Len(s)] > 0
    <3>1. Len(s) - 1 \in S /\ (Len(s) - 1) + 1 <= Len(s)
      BY <2>3, <2>4
    <3>2. f[(Len(s) - 1) + 1] > 0
      BY <3>1, Zenon DEF S
    <3> QED BY <2>4, <3>2, Zenon
  <2> QED BY <1>1, <2>5 DEF Reads
<1>4. ASSUME Len(s) = 1 PROVE Number(s) = Value(s[1])
  <2>1. Number(s) = 10 * f[0] + Value(s[1]) /\ f[0] = 0 /\ Value(s[1]) \in Nat
    BY <1>1, <1>4, DigitValue DEF Reads
  <2> QED BY <2>1
<1> QED BY <1>2, <1>3, <1>4

(* Where from_chars stops.                                                 *)
Ends(line, first, last, stop) ==
  /\ stop \in first .. Len(line) + 1
  /\ stop = last \/ stop > Len(line) \/ ~ IsDigit(line[stop])
  /\ \A p \in first .. stop - 1 : p # last /\ p <= Len(line) /\ IsDigit(line[p])

LEMMA ScanStops ==
  ASSUME NEW line \in Seq(STRING), NEW first \in 1 .. Len(line) + 1, NEW last
  PROVE  \E stop : Ends(line, first, last, stop)
<1> DEFINE T == {p \in first .. Len(line) + 1 :
                  p = last \/ p > Len(line) \/ ~ IsDigit(line[p])}
<1>1. Len(line) + 1 \in T
  OBVIOUS
<1>2. PICK m \in T : \A n \in T : m <= n
  <2> T \subseteq Nat /\ T # {}
    BY <1>1
  <2> HIDE DEF T
  <2> QED BY LeastNumber
<1>3. ASSUME NEW p \in first .. m - 1 PROVE p # last /\ p <= Len(line) /\ IsDigit(line[p])
  <2>1. p \in first .. Len(line) + 1 /\ ~ (m <= p)
    BY <1>2
  <2>2. p \notin T
    BY <1>2, <2>1
  <2> QED BY <2>1, <2>2
<1>4. Ends(line, first, last, m)
  BY <1>2, <1>3 DEF Ends
<1> QED BY <1>4

(* And what it returns then.                                               *)
Field(line, first, stop) == Number(SubSeq(line, first, stop - 1))

IsRead(n, line, first, stop, limit) ==
  /\ n.stop = stop /\ n.value = Field(line, first, stop)
  /\ n.ok <=> first < stop /\ Field(line, first, stop) < limit

LEMMA Scanned ==
  ASSUME NEW line \in Seq(STRING), NEW first \in 1 .. Len(line) + 1, NEW last, NEW limit,
         NEW stop, Ends(line, first, last, stop)
  PROVE  /\ IsRead(FromChars(line, first, last, limit), line, first, stop, limit)
         /\ Field(line, first, stop) \in Nat
<1> DEFINE T == {p \in first .. Len(line) + 1 :
                  p = last \/ p > Len(line) \/ ~ IsDigit(line[p])}
           s == SubSeq(line, first, stop - 1)
<1>1. stop \in T /\ T \subseteq Nat
  BY DEF Ends
<1>2. \A n \in T : stop <= n
  BY DEF Ends
<1>3. Min(T) = stop
  <2> HIDE DEF T
  <2>1. \A m \in T : (\A n \in T : m <= n) => m = stop
    BY <1>1, <1>2
  <2> QED BY <1>1, <1>2, <2>1 DEF Min
<1>4. FromChars(line, first, last, limit)
        = [stop |-> stop, value |-> Number(s), ok |-> first < stop /\ Number(s) < limit]
  <2> HIDE DEF s
  <2> QED BY <1>3 DEF FromChars, s
<1> DEFINE n == FromChars(line, first, last, limit)
<1>5. n.stop = stop /\ n.value = Number(s)
  <2> HIDE DEF s
  <2> QED BY <1>4
<1>6. n.ok <=> first < stop /\ Number(s) < limit
  <2> DEFINE v == [stop |-> stop, value |-> Number(s), ok |-> first < stop /\ Number(s) < limit]
  <2>1. v.ok = (first < stop /\ Number(s) < limit)
    BY Zenon
  <2>2. n = v
    BY <1>4
  <2> HIDE DEF n, v
  <2> QED BY <2>1, <2>2, Zenon
<1>7. Number(s) \in Nat
  <2>1. /\ s \in Seq(STRING) /\ Len(s) = stop - first
        /\ \A m \in 1 .. Len(s) : s[m] = line[first + m - 1]
    BY DEF Ends
  <2>2. \A m \in 1 .. stop - first : first + m - 1 \in first .. stop - 1
    BY DEF Ends
  <2>3. \A m \in 1 .. Len(s) : IsDigit(s[m])
    BY <2>1, <2>2 DEF Ends
  <2> HIDE DEF s
  <2> QED BY <2>1, <2>3, NumberOfDigits
<1> HIDE DEF n, s
<1> QED BY <1>5, <1>6, <1>7 DEF IsRead, Field, n, s

----------------------------------------------------------------------------
(* The mask of the blanks.                                                 *)

Sums(line, f) ==
  /\ f \in [Nat -> Nat] /\ f[0] = 0 /\ Mask(line) = f[VectorWidth]
  /\ \A n \in Nat : f[n + 1] = f[n] + (IF n + 1 \in Blanks(line) THEN Pow2[n] ELSE 0)

LEMMA MaskSums == ASSUME NEW line PROVE \E f : Sums(line, f)
<1> DEFINE B == Blanks(line)
           step == [n \in Nat |-> [v \in Nat |-> v + (IF n + 1 \in B THEN Pow2[n] ELSE 0)]]
           Eq(h) == h = [n \in Nat |-> IF n = 0 THEN 0
                           ELSE h[n - 1] + (IF n \in B THEN Pow2[n - 1] ELSE 0)]
<1>1. \A n \in Nat : Pow2[n] \in Nat
  BY Pow2Def
<1>2. step \in [Nat -> [Nat -> Nat]]
  <2> HIDE DEF B
  <2> QED BY <1>1
<1>3. \A n \in Nat : \A v \in Nat : step[n][v] = v + (IF n + 1 \in B THEN Pow2[n] ELSE 0)
  <2> HIDE DEF B
  <2> QED OBVIOUS
<1> HIDE DEF step
<1>4. PICK g : Recurs(g, Nat, 0, step)
  BY <1>2, Recursion
<1>5. \A n \in Nat : g[n] = IF n = 0 THEN 0
                          ELSE g[n - 1] + (IF n \in B THEN Pow2[n - 1] ELSE 0)
  <2> HIDE DEF B
  <2> TAKE n \in Nat
  <2>1. CASE n = 0
    BY <1>4, <2>1 DEF Recurs
  <2>2. CASE n # 0
    <3>1. n - 1 \in Nat /\ (n - 1) + 1 = n
      BY <2>2
    <3>2. g[n - 1] \in Nat /\ g[n] = step[n - 1][g[n - 1]]
      BY <1>4, <3>1 DEF Recurs
    <3> QED BY <1>3, <2>2, <3>1, <3>2
  <2> QED BY <2>1, <2>2
<1>6. Eq(g)
  <2> HIDE DEF B
  <2> QED BY <1>4, <1>5 DEF Recurs
<1> DEFINE u == CHOOSE h : Eq(h)
<1>7. Eq(u)
  <2> HIDE DEF Eq
  <2> QED BY <1>6
<1>8. Mask(line) = u[VectorWidth]
  BY DEF Mask
<1> HIDE DEF u, B
<1>9. u[0] = 0
  BY <1>7
<1>10. ASSUME NEW n \in Nat
       PROVE  u[n + 1] = u[n] + (IF n + 1 \in B THEN Pow2[n] ELSE 0)
  BY <1>7
<1>11. \A n \in Nat : u[n] \in Nat
  <2> DEFINE S == {n \in Nat : u[n] \in Nat}
  <2>1. 0 \in S
    BY <1>9
  <2>2. ASSUME NEW n \in Nat, n \in S PROVE n + 1 \in S
    BY <1>1, <1>10, <2>2
  <2> HIDE DEF S
  <2>3. \A n \in Nat : n \in S
    BY <2>1, <2>2, SetInduction
  <2> QED BY <2>3 DEF S
<1>12. u \in [Nat -> Nat]
  BY <1>7, <1>11
<1>13. Sums(line, u)
  BY <1>8, <1>9, <1>10, <1>12 DEF Sums, B
<1> QED BY <1>13

(* The mask fits in the register.                                          *)
LEMMA MaskFits ==
  ASSUME NEW line, NEW f, Sums(line, f)
  PROVE  \A n \in Nat : f[n] < Pow2[n]
<1> DEFINE S == {n \in Nat : f[n] < Pow2[n]}
<1>1. 0 \in S
  BY Pow2Def DEF Sums
<1>2. ASSUME NEW n \in Nat, n \in S PROVE n + 1 \in S
  <2>1. Pow2[n + 1] = 2 * Pow2[n] /\ Pow2[n] \in Nat
    BY Pow2Def
  <2>2. f[n] \in Nat /\ (f[n + 1] = f[n] + Pow2[n] \/ f[n + 1] = f[n])
    BY <2>1 DEF Sums
  <2> QED BY <1>2, <2>1, <2>2
<1> HIDE DEF S
<1>3. \A n \in Nat : n \in S
  BY <1>1, <1>2, SetInduction
<1> QED BY <1>3 DEF S

(* Where there is no blank the sum stays.                                  *)
LEMMA MaskStays ==
  ASSUME NEW line, NEW f, Sums(line, f), NEW m \in Nat, NEW n \in Nat, m <= n,
         \A p \in m + 1 .. n : p \notin Blanks(line)
  PROVE  f[n] = f[m]
<1> DEFINE S == {d \in Nat : m + d <= n => f[m + d] = f[m]}
<1>1. 0 \in S
  OBVIOUS
<1>2. ASSUME NEW d \in Nat, d \in S PROVE d + 1 \in S
  <2> SUFFICES ASSUME m + (d + 1) <= n PROVE f[m + (d + 1)] = f[m]
    OBVIOUS
  <2>1. m + d \in Nat /\ m + (d + 1) = (m + d) + 1 /\ (m + d) + 1 \in m + 1 .. n
    OBVIOUS
  <2>2. f[(m + d) + 1] = f[m + d] + 0 /\ f[m + d] \in Nat
    BY <2>1 DEF Sums
  <2> QED BY <1>2, <2>1, <2>2
<1> HIDE DEF S
<1>3. \A d \in Nat : d \in S
  BY <1>1, <1>2, SetInduction
<1>4. n - m \in Nat /\ m + (n - m) = n
  OBVIOUS
<1>5. n - m \in S
  BY <1>3, <1>4
<1> QED BY <1>4, <1>5 DEF S

(* From a blank on, what is added is an odd multiple of its bit.           *)
LEMMA MaskFromBlank ==
  ASSUME NEW line, NEW f, Sums(line, f), NEW a \in Nat, a + 1 \in Blanks(line),
         NEW n \in Nat, a < n
  PROVE  \E q \in Nat : OddMultiple(f[n] - f[a], a, q)
<1> DEFINE S == {d \in Nat : \E q \in Nat : f[(a + 1) + d] = f[a] + Pow2[a] * (2 * q + 1)}
           w == Pow2[a]
<1>1. w \in Nat /\ f[a] \in Nat
  BY Pow2Def DEF Sums
<1>2. 0 \in S
  <2>1. f[(a + 1) + 0] = f[a] + w
    BY DEF Sums
  <2>2. w = w * (2 * 0 + 1)
    BY <1>1
  <2> QED BY <2>1, <2>2
<1>3. ASSUME NEW d \in Nat, d \in S PROVE d + 1 \in S
  <2>1. PICK q \in Nat : f[(a + 1) + d] = f[a] + w * (2 * q + 1)
    BY <1>3
  <2> DEFINE n1 == (a + 1) + d
             r == Pow2[d]
  <2>2. n1 \in Nat /\ (a + 1) + (d + 1) = n1 + 1 /\ r \in Nat /\ d + 1 \in Nat
    BY Pow2Def
  <2>3. Pow2[n1] = w * (2 * r)
    <3>1. n1 = a + (d + 1)
      OBVIOUS
    <3>2. Pow2[a + (d + 1)] = Pow2[a] * Pow2[d + 1] /\ Pow2[d + 1] = 2 * Pow2[d]
      BY <2>2, Pow2Sum, Pow2Def
    <3> QED BY <3>1, <3>2
  <2>4. f[n1 + 1] = f[n1] + Pow2[n1] \/ f[n1 + 1] = f[n1] + 0
    BY <2>2 DEF Sums
  <2> HIDE DEF n1, r, w
  <2>5. \A x, y, z, u \in Nat : (x + y * (2 * z + 1)) + y * (2 * u) = x + y * (2 * (z + u) + 1)
    OBVIOUS
  <2>6. f[n1] = f[a] + w * (2 * q + 1) /\ f[n1] \in Nat
    BY <2>1, <2>2 DEF n1, Sums
  <2>7. f[n1 + 1] = f[a] + w * (2 * (q + r) + 1) \/ f[n1 + 1] = f[a] + w * (2 * q + 1)
    BY <1>1, <2>2, <2>3, <2>4, <2>5, <2>6
  <2>8. q + r \in Nat
    BY <2>2
  <2>9. \E v \in Nat : f[n1 + 1] = f[a] + w * (2 * v + 1)
    BY <2>7, <2>8
  <2> QED BY <2>2, <2>9 DEF n1, w
<1> HIDE DEF S
<1>4. \A d \in Nat : d \in S
  BY <1>2, <1>3, SetInduction
<1>5. n - (a + 1) \in Nat /\ (a + 1) + (n - (a + 1)) = n
  OBVIOUS
<1>6. n - (a + 1) \in S
  BY <1>4, <1>5
<1>7. PICK q \in Nat : f[n] = f[a] + Pow2[a] * (2 * q + 1)
  BY <1>5, <1>6 DEF S
<1>8. f[n] - f[a] = Pow2[a] * (2 * q + 1)
  <2>1. w * (2 * q + 1) \in Nat
    BY <1>1
  <2> HIDE DEF w
  <2>2. \A x, y, z \in Nat : x = y + z => x - y = z
    OBVIOUS
  <2>3. f[n] \in Nat /\ f[n] = f[a] + w * (2 * q + 1)
    BY <1>7 DEF Sums, w
  <2>4. f[n] - f[a] = w * (2 * q + 1)
    BY <1>1, <2>1, <2>2, <2>3
  <2> QED BY <2>4 DEF w
<1> QED BY <1>8 DEF OddMultiple

(* The zeros below the lowest bit are counted.                             *)
LEMMA LowestBit ==
  ASSUME NEW a \in 0 .. VectorWidth - 1, NEW q \in Nat, NEW y, OddMultiple(y, a, q)
  PROVE  Tzcnt(y) = a
<1> DEFINE w == Pow2[a]
           x == w * (2 * q + 1)
           T == {b \in 0 .. VectorWidth : b = VectorWidth \/ (x \div Pow2[b]) % 2 = 1}
<1>1. w \in Nat /\ w > 0 /\ a \in Nat /\ VectorWidth \in Nat
  BY Pow2Positive, VectorAssumption
<1>2. (x \div w) % 2 = 1
  <2>1. x = w * (2 * q + 1) + 0
    <3> HIDE DEF w
    <3> QED BY <1>1
  <2> HIDE DEF x, w
  <2>2. x \div w = 2 * q + 1
    BY <1>1, <2>1, DivMod
  <2>3. (2 * q + 1) % 2 = 1
    BY DivMod
  <2> QED BY <2>2, <2>3
<1>3. ASSUME NEW b \in 0 .. a - 1 PROVE (x \div Pow2[b]) % 2 = 0
  <2> DEFINE c == a - b - 1
             v == Pow2[b]
             u == Pow2[c]
             n == u * (2 * q + 1)
  <2>1. b \in Nat /\ c \in Nat /\ a = b + (c + 1) /\ c + 1 \in Nat
    BY <1>1
  <2>2. v \in Nat /\ v > 0 /\ u \in Nat
    BY <2>1, Pow2Positive
  <2>3. w = v * (2 * u)
    <3>1. Pow2[b + (c + 1)] = Pow2[b] * Pow2[c + 1] /\ Pow2[c + 1] = 2 * Pow2[c]
      BY <2>1, Pow2Sum, Pow2Def
    <3> HIDE DEF c
    <3> QED BY <2>1, <3>1
  <2>4. x = v * (2 * n) + 0 /\ n \in Nat
    <3> HIDE DEF u, v, w
    <3>1. (v * (2 * u)) * (2 * q + 1) = v * (2 * (u * (2 * q + 1))) /\ u * (2 * q + 1) \in Nat
      BY <2>2
    <3> QED BY <2>2, <2>3, <3>1
  <2> HIDE DEF n, u, x, w
  <2>5. x \div v = 2 * n
    <3> HIDE DEF v
    <3> QED BY <2>2, <2>4, DivMod
  <2>6. (2 * n + 0) % 2 = 0
    BY <2>4, DivMod
  <2> QED BY <2>4, <2>5, <2>6
<1>4. a \in T /\ \A b \in T : a <= b /\ b \in Nat
  <2> HIDE DEF x
  <2>1. a \in T
    BY <1>1, <1>2
  <2>2. ASSUME NEW b \in T PROVE a <= b /\ b \in Nat
    <3>1. b \in Nat /\ (b = VectorWidth \/ (x \div Pow2[b]) % 2 = 1)
      OBVIOUS
    <3>2. ~ (b < a)
      BY <1>1, <1>3, <3>1
    <3> QED BY <1>1, <3>1, <3>2
  <2> QED BY <2>1, <2>2
<1>5. Min(T) = a
  <2> HIDE DEF T
  <2>1. \A m \in T : (\A n \in T : m <= n) => m = a
    BY <1>4
  <2> QED BY <1>4, <2>1 DEF Min
<1> QED BY <1>5 DEF Tzcnt, OddMultiple

(* i and j are the first two blanks of a line.                             *)
FirstTwo(line, i, j) ==
  /\ i \in Blanks(line) /\ j \in Blanks(line) /\ i < j
  /\ \A p \in 1 .. j - 1 : p \in Blanks(line) => p = i

(* The vector parser cuts a line at its first two blanks, and takes the    *)
(* second one for the third unless the line begins with a blank            *)
(* (LogServer.cpp:264-266).                                                *)
THEOREM SecondBlankTwice ==
  ASSUME NEW line \in Seq(STRING), NEW i, NEW j, FirstTwo(line, i, j), i > 1
  PROVE  Separators(Mask(line)) = <<i - 1, j - 1, j - 1>>
<1> DEFINE x == Mask(line)
<1>1. i \in 1 .. VectorWidth /\ j \in 1 .. VectorWidth
  <2>1. Min({VectorWidth, Len(line)}) <= VectorWidth /\ Min({VectorWidth, Len(line)}) \in Nat
    <3>1. \A m \in Nat, n \in Nat : Min({m, n}) \in Nat /\ Min({m, n}) <= m
      <4> TAKE m \in Nat, n \in Nat
      <4>1. \E v \in {m, n} : \A y \in {m, n} : v <= y
        OBVIOUS
      <4> QED BY <4>1 DEF Min
    <3> QED BY <3>1, VectorAssumption
  <2> QED BY <2>1, VectorAssumption DEF FirstTwo, Blanks
<1>2. PICK a \in 0 .. VectorWidth - 1 : a + 1 = i /\ a > 0
  <2>1. i - 1 \in 0 .. VectorWidth - 1 /\ (i - 1) + 1 = i /\ i - 1 > 0
    BY <1>1, VectorAssumption
  <2> QED BY <2>1
<1>3. PICK b \in 0 .. VectorWidth - 1 : b + 1 = j
  <2>1. j - 1 \in 0 .. VectorWidth - 1 /\ (j - 1) + 1 = j
    BY <1>1, VectorAssumption
  <2> QED BY <2>1
<1>4. a \in Nat /\ b \in Nat /\ a < b /\ VectorWidth \in Nat
  BY <1>2, <1>3, VectorAssumption DEF FirstTwo
<1>5. PICK f : Sums(line, f)
  BY MaskSums
<1>6. /\ a + 1 \in Blanks(line) /\ b + 1 \in Blanks(line)
      /\ \A p \in 1 .. b : p \in Blanks(line) => p = a + 1
  BY <1>2, <1>3, <1>4 DEF FirstTwo
<1>7. f[a] = 0 /\ f[b] = Pow2[a]
  <2>1. \A p \in 0 + 1 .. a : p \notin Blanks(line)
    BY <1>4, <1>6
  <2>2. f[a] = f[0]
    BY <1>4, <1>5, <2>1, MaskStays
  <2>3. f[a] = 0
    BY <1>5, <2>2 DEF Sums
  <2>4. f[a + 1] = f[a] + Pow2[a] /\ Pow2[a] \in Nat
    BY <1>4, <1>5, <1>6, Pow2Def DEF Sums
  <2>5. a + 1 <= b /\ \A p \in (a + 1) + 1 .. b : p \notin Blanks(line)
    BY <1>4, <1>6
  <2>6. f[b] = f[a + 1]
    BY <1>4, <1>5, <2>5, MaskStays
  <2> QED BY <2>3, <2>4, <2>6
<1>8. x = f[VectorWidth] /\ x < Pow2[VectorWidth] /\ x \in Nat
  BY <1>4, <1>5, MaskFits DEF Sums
<1> HIDE DEF x
<1>9. PICK q \in Nat : OddMultiple(x - 0, a, q)
  <2>1. a < VectorWidth
    BY <1>4
  <2>2. \E q \in Nat : OddMultiple(f[VectorWidth] - f[a], a, q)
    BY <1>4, <1>5, <1>6, <2>1, MaskFromBlank, Zenon
  <2> QED BY <1>7, <1>8, <2>2, Zenon
<1>10. PICK r \in Nat : OddMultiple(x - Pow2[a], b, r)
  <2>1. b < VectorWidth
    BY <1>4
  <2>2. \E r \in Nat : OddMultiple(f[VectorWidth] - f[b], b, r)
    BY <1>4, <1>5, <1>6, <2>1, MaskFromBlank, Zenon
  <2> QED BY <1>7, <1>8, <2>2, Zenon
<1> DEFINE t == x - Pow2[a]
<1>11. x - 0 = x
  BY <1>8
<1>12. OddMultiple(x, a, q) /\ OddMultiple(t, b, r)
  BY <1>9, <1>10, <1>11
<1> HIDE DEF t
<1>13. Both(x, x - 1) = t /\ Both(t, x - 2) = t
  <2>1. VectorWidth \in Nat /\ a \in Nat /\ x \in Nat /\ x < Pow2[VectorWidth]
    BY <1>4, <1>8
  <2>2. OddMultiple(x, a, q)
    BY <1>12
  <2>3. ClearsOne(VectorWidth, x, a)
    BY <2>1, <2>2, AndClears
  <2> QED BY <1>2, <2>3 DEF Both, ClearsOne, t
<1>14. Tzcnt(x) = a /\ Tzcnt(t) = b
  BY <1>12, LowestBit
<1>15. Separators(x) = <<a, b, b>>
  BY <1>13, <1>14 DEF Separators
<1> QED BY <1>2, <1>3, <1>4, <1>15 DEF x

----------------------------------------------------------------------------
(* The header of a log: three numbers, each with a blank behind it.        *)

Header(line, i, j, k) ==
  /\ i \in 1 .. Len(line) /\ j \in 1 .. Len(line) /\ k \in 1 .. Len(line)
  /\ 1 < i /\ i + 1 < j /\ j + 1 < k
  /\ line[i] = Blank /\ line[j] = Blank /\ line[k] = Blank
  /\ \A p \in 1 .. k : p \notin {i, j, k} => IsDigit(line[p])

HeaderIsValid(line, i, j, k, clock) ==
  /\ Field(line, 1, i) < TimeRange /\ ValidTimestamp(Field(line, 1, i), clock)
  /\ Field(line, i + 1, j) < TimeRange /\ ValidLevel(Field(line, i + 1, j))
  /\ Field(line, j + 1, k) < IdRange /\ ValidID(Field(line, j + 1, k))

PushedFrom(line, i, j, k, message) ==
  Pushed(Field(line, 1, i), Field(line, i + 1, j), Field(line, j + 1, k), message)

(* A number with a blank behind it is read as such, up to any place that   *)
(* is not inside it.                                                       *)
LEMMA FieldIsRead ==
  ASSUME NEW line \in Seq(STRING), NEW first \in 1 .. Len(line), NEW stop \in 1 .. Len(line),
         first < stop, line[stop] = Blank, \A p \in first .. stop - 1 : IsDigit(line[p]),
         NEW last \in Nat, last < first \/ stop <= last, NEW limit
  PROVE  IsRead(FromChars(line, first, last, limit), line, first, stop, limit)
<1>1. Ends(line, first, last, stop)
  BY BlankIsNoDigit DEF Ends
<1> QED BY <1>1, Scanned

(* The scalar parser takes such a header, if its numbers are valid.        *)
LEMMA ScalarOnHeader ==
  ASSUME NEW line \in Seq(STRING), NEW i, NEW j, NEW k, Header(line, i, j, k), NEW clock
  PROVE  Scalar(line, clock) = IF HeaderIsValid(line, i, j, k, clock)
                               THEN PushedFrom(line, i, j, k, Message(line, k + 1))
                               ELSE Rejected
<1> DEFINE end   == Len(line) + 1
           time  == FromChars(line, 1, end, TimeRange)
           level == FromChars(line, i + 1, end, TimeRange)
           id    == FromChars(line, j + 1, end, IdRange)
<1>1. /\ i \in 1 .. Len(line) /\ j \in 1 .. Len(line) /\ k \in 1 .. Len(line)
      /\ 1 < i /\ i + 1 < j /\ j + 1 < k /\ Len(line) \in Nat
      /\ line[i] = Blank /\ line[j] = Blank /\ line[k] = Blank
  BY DEF Header
<1>2. /\ \A p \in 1 .. i - 1 : IsDigit(line[p])
      /\ \A p \in i + 1 .. j - 1 : IsDigit(line[p])
      /\ \A p \in j + 1 .. k - 1 : IsDigit(line[p])
      /\ 1 \in 1 .. Len(line) /\ i + 1 \in 1 .. Len(line) /\ j + 1 \in 1 .. Len(line)
      /\ end \in Nat /\ i <= end /\ j <= end /\ k <= end
  BY <1>1 DEF Header
<1>3. /\ IsRead(time, line, 1, i, TimeRange)
      /\ IsRead(level, line, i + 1, j, TimeRange)
      /\ IsRead(id, line, j + 1, k, IdRange)
  <2> HIDE DEF end
  <2>1. IsRead(time, line, 1, i, TimeRange)
    BY <1>1, <1>2, FieldIsRead
  <2>2. IsRead(level, line, i + 1, j, TimeRange)
    BY <1>1, <1>2, FieldIsRead
  <2>3. IsRead(id, line, j + 1, k, IdRange)
    BY <1>1, <1>2, FieldIsRead
  <2> QED BY <2>1, <2>2, <2>3
<1>4. Scalar(line, clock) =
        IF /\ Delimited(line, time) /\ ValidTimestamp(time.value, clock)
           /\ Delimited(line, level) /\ ValidLevel(level.value)
           /\ Delimited(line, id) /\ ValidID(id.value)
        THEN Pushed(time.value, level.value, id.value, Message(line, id.stop + 1))
        ELSE Rejected
  <2> HIDE DEF id
  <2>1. FromChars(line, level.stop + 1, end, IdRange) = id
    BY <1>3 DEF id, IsRead
  <2> HIDE DEF level
  <2>2. FromChars(line, time.stop + 1, end, TimeRange) = level
    BY <1>3 DEF level, IsRead
  <2> HIDE DEF time
  <2> QED BY <2>1, <2>2 DEF Scalar, end, time
<1> HIDE DEF time, level, id
<1>5. /\ Delimited(line, time) <=> Field(line, 1, i) < TimeRange
      /\ Delimited(line, level) <=> Field(line, i + 1, j) < TimeRange
      /\ Delimited(line, id) <=> Field(line, j + 1, k) < IdRange
  BY <1>1, <1>3 DEF Delimited, IsRead
<1> QED BY <1>3, <1>4, <1>5 DEF HeaderIsValid, PushedFrom, IsRead

(* And what it takes has such a header.                                    *)
LEMMA ScalarHasHeader ==
  ASSUME NEW line \in Seq(STRING), NEW clock, Scalar(line, clock).verdict = "pushed"
  PROVE  \E i, j, k : Header(line, i, j, k) /\ HeaderIsValid(line, i, j, k, clock)
<1> DEFINE end   == Len(line) + 1
           time  == FromChars(line, 1, end, TimeRange)
           level == FromChars(line, time.stop + 1, end, TimeRange)
           id    == FromChars(line, level.stop + 1, end, IdRange)
<1>1. /\ Delimited(line, time) /\ ValidTimestamp(time.value, clock)
      /\ Delimited(line, level) /\ ValidLevel(level.value)
      /\ Delimited(line, id) /\ ValidID(id.value)
  BY DEF Scalar, Rejected
<1> DEFINE Read(n, first, stop, limit) ==
             /\ IsRead(n, line, first, stop, limit) /\ n.ok
             /\ stop \in first + 1 .. Len(line) /\ line[stop] = Blank
             /\ \A p \in first .. stop - 1 : IsDigit(line[p])
<1>2. ASSUME NEW first \in 1 .. end, NEW limit, Delimited(line, FromChars(line, first, end, limit))
      PROVE  \E stop : Read(FromChars(line, first, end, limit), first, stop, limit)
  <2>1. PICK stop : Ends(line, first, end, stop)
    BY ScanStops
  <2>2. IsRead(FromChars(line, first, end, limit), line, first, stop, limit)
    BY <2>1, Scanned
  <2>3. /\ first < stop /\ stop <= Len(line) /\ line[stop] = Blank
        /\ FromChars(line, first, end, limit).ok
    BY <1>2, <2>2 DEF Delimited, IsRead
  <2>4. stop \in first + 1 .. Len(line) /\ \A p \in first .. stop - 1 : IsDigit(line[p])
    BY <2>1, <2>3 DEF Ends
  <2> QED BY <2>2, <2>3, <2>4
<1>3. PICK i : Read(time, 1, i, TimeRange)
  BY <1>1, <1>2
<1>4. PICK j : Read(level, i + 1, j, TimeRange)
  <2>1. i + 1 \in 1 .. end /\ time.stop = i
    BY <1>3 DEF IsRead
  <2> QED BY <1>1, <1>2, <2>1
<1>5. PICK k : Read(id, j + 1, k, IdRange)
  <2>1. j + 1 \in 1 .. end /\ level.stop = j
    BY <1>3, <1>4 DEF IsRead
  <2> QED BY <1>1, <1>2, <2>1
<1> HIDE DEF time, level, id
<1>6. Header(line, i, j, k)
  BY <1>3, <1>4, <1>5 DEF Header
<1>7. HeaderIsValid(line, i, j, k, clock)
  BY <1>1, <1>3, <1>4, <1>5 DEF HeaderIsValid, IsRead
<1> QED BY <1>6, <1>7

(* Three blanks among the first bytes: the first two are those of the      *)
(* header.                                                                 *)
LEMMA HeaderInVector ==
  ASSUME NEW line \in Seq(STRING), NEW place, Vectorizable(line, place),
         NEW i, NEW j, NEW k, Header(line, i, j, k)
  PROVE  FirstTwo(line, i, j)
<1> DEFINE m == Min({VectorWidth, Len(line)})
<1>1. /\ i \in 1 .. Len(line) /\ j \in 1 .. Len(line) /\ k \in 1 .. Len(line)
      /\ 1 < i /\ i + 1 < j /\ j + 1 < k /\ Len(line) \in Nat
      /\ line[i] = Blank /\ line[j] = Blank
  BY DEF Header
<1>2. \A p \in 1 .. j - 1 : line[p] = Blank => p = i
  BY <1>1, BlankIsNoDigit DEF Header
<1>3. m \in Nat
  <2>1. \A n1 \in Nat, n2 \in Nat : Min({n1, n2}) \in Nat
    <3> TAKE n1 \in Nat, n2 \in Nat
    <3>1. \E v \in {n1, n2} : \A y \in {n1, n2} : v <= y
      OBVIOUS
    <3> QED BY <3>1 DEF Min
  <2> QED BY <1>1, <2>1, VectorAssumption
<1>4. Blanks(line) = {p \in 1 .. m : line[p] = Blank}
  BY DEF Blanks
<1> HIDE DEF m
<1>5. j <= m
  <2> SUFFICES ASSUME ~ (j <= m) PROVE FALSE
    OBVIOUS
  <2>1. Blanks(line) \subseteq {i}
    BY <1>1, <1>2, <1>3, <1>4
  <2>2. Cardinality({i}) = 1 /\ IsFiniteSet({i})
    BY FS_Singleton
  <2>3. Cardinality(Blanks(line)) <= 1 /\ Cardinality(Blanks(line)) \in Nat
    BY <2>1, <2>2, FS_Subset, FS_CardinalityType
  <2> QED BY <2>3 DEF Vectorizable
<1>6. i \in Blanks(line) /\ j \in Blanks(line) /\ i < j
  BY <1>1, <1>3, <1>4, <1>5
<1> QED BY <1>2, <1>4, <1>6 DEF FirstTwo

(* The vector parser reads the same three numbers, and the message from    *)
(* behind the second blank.                                                *)
LEMMA SimdOnHeader ==
  ASSUME NEW line \in Seq(STRING), NEW place, Vectorizable(line, place),
         NEW i, NEW j, NEW k, Header(line, i, j, k),
         NEW clock, HeaderIsValid(line, i, j, k, clock)
  PROVE  Simd(line, clock) \in {Aborted, PushedFrom(line, i, j, k, Message(line, j + 1))}
<1> DEFINE p == [n \in 1 .. 3 |-> Separators(Mask(line))[n] + 1]
<1>1. /\ i \in 1 .. Len(line) /\ j \in 1 .. Len(line) /\ k \in 1 .. Len(line)
      /\ 1 < i /\ i + 1 < j /\ j + 1 < k /\ Len(line) \in Nat
      /\ line[i] = Blank /\ line[j] = Blank /\ line[k] = Blank
  BY DEF Header
<1>2. /\ \A n \in 1 .. i - 1 : IsDigit(line[n])
      /\ \A n \in i + 1 .. j - 1 : IsDigit(line[n])
      /\ \A n \in j + 1 .. k - 1 : IsDigit(line[n])
      /\ 1 \in 1 .. Len(line) /\ i + 1 \in 1 .. Len(line) /\ j + 1 \in 1 .. Len(line)
      /\ i \in Nat /\ j \in Nat /\ i <= i /\ j <= j /\ j < j + 1
  BY <1>1 DEF Header
<1>3. p[1] = i /\ p[2] = j /\ p[3] = j
  <2>1. Separators(Mask(line)) = <<i - 1, j - 1, j - 1>>
    BY <1>1, HeaderInVector, SecondBlankTwice
  <2> QED BY <1>1, <2>1
<1> DEFINE time  == FromChars(line, 1, i, TimeRange)
           level == FromChars(line, i + 1, j, TimeRange)
           id    == FromChars(line, j + 1, j, IdRange)
<1>4. /\ IsRead(time, line, 1, i, TimeRange)
      /\ IsRead(level, line, i + 1, j, TimeRange)
      /\ IsRead(id, line, j + 1, k, IdRange)
  <2> HIDE DEF p
  <2>1. IsRead(time, line, 1, i, TimeRange)
    BY <1>1, <1>2, FieldIsRead
  <2>2. IsRead(level, line, i + 1, j, TimeRange)
    BY <1>1, <1>2, FieldIsRead
  <2>3. IsRead(id, line, j + 1, k, IdRange)
    BY <1>1, <1>2, FieldIsRead
  <2> QED BY <2>1, <2>2, <2>3
<1>5. Simd(line, clock) =
        IF ~ (time.ok /\ ValidTimestamp(time.value, clock)) THEN Rejected
        ELSE IF ~ (level.ok /\ ValidLevel(level.value)) THEN Rejected
        ELSE IF j < j + 1 /\ inverted = "abort" THEN Aborted
        ELSE IF ~ (id.ok /\ ValidID(id.value)) THEN Rejected
        ELSE Pushed(time.value, level.value, id.value, Message(line, j + 1))
  <2> HIDE DEF p
  <2>1. /\ FromChars(line, 1, p[1], TimeRange) = time
        /\ FromChars(line, p[1] + 1, p[2], TimeRange) = level
        /\ FromChars(line, p[2] + 1, p[3], IdRange) = id
    BY <1>3
  <2> HIDE DEF time, level, id
  <2>2. Simd(line, clock) =
          IF ~ (time.ok /\ ValidTimestamp(time.value, clock)) THEN Rejected
          ELSE IF ~ (level.ok /\ ValidLevel(level.value)) THEN Rejected
          ELSE IF p[3] < p[2] + 1 /\ inverted = "abort" THEN Aborted
          ELSE IF ~ (id.ok /\ ValidID(id.value)) THEN Rejected
          ELSE Pushed(time.value, level.value, id.value, Message(line, p[3] + 1))
    BY <2>1 DEF Simd, p
  <2> QED BY <1>3, <2>2
<1> HIDE DEF time, level, id
<1> QED BY <1>1, <1>2, <1>4, <1>5 DEF HeaderIsValid, PushedFrom, IsRead

(* What is behind a later position ends what is behind an earlier one.     *)
LEMMA MessageEnds ==
  ASSUME NEW line \in Seq(STRING), NEW p \in 1 .. Len(line) + 1, NEW n \in 1 .. Len(line) + 1,
         n <= p
  PROVE  IsSuffix(Message(line, p), Message(line, n))
<1> DEFINE s == Message(line, p)
           t == Message(line, n)
<1>1. /\ s \in Seq(STRING) /\ Len(s) = Len(line) + 1 - p
      /\ \A m \in 1 .. Len(s) : s[m] = line[p + m - 1]
  BY DEF Message
<1>2. /\ t \in Seq(STRING) /\ Len(t) = Len(line) + 1 - n
      /\ \A m \in 1 .. Len(t) : t[m] = line[n + m - 1]
  BY DEF Message
<1>3. Len(s) <= Len(t) /\ Len(s) \in Nat /\ Len(t) \in Nat
  BY <1>1, <1>2
<1>4. \A m \in 1 .. Len(s) : s[(Len(s) - m) + 1] = t[(Len(t) - m) + 1]
  <2> HIDE DEF s, t
  <2> TAKE m \in 1 .. Len(s)
  <2> DEFINE a == (Len(s) - m) + 1
             b == (Len(t) - m) + 1
  <2>1. a \in 1 .. Len(s) /\ b \in 1 .. Len(t) /\ p + a - 1 = n + b - 1
    BY <1>1, <1>2, <1>3
  <2> HIDE DEF a, b
  <2>2. s[a] = line[p + a - 1] /\ t[b] = line[n + b - 1]
    BY <1>1, <1>2, <2>1
  <2> QED BY <2>1, <2>2 DEF a, b
<1> HIDE DEF s, t
<1>5. /\ Reverse(s) \in Seq(STRING) /\ Len(Reverse(s)) = Len(s)
      /\ \A m \in 1 .. Len(s) : Reverse(s)[m] = s[(Len(s) - m) + 1]
  BY <1>1 DEF Reverse
<1>6. /\ Reverse(t) \in Seq(STRING) /\ Len(Reverse(t)) = Len(t)
      /\ \A m \in 1 .. Len(t) : Reverse(t)[m] = t[(Len(t) - m) + 1]
  BY <1>2 DEF Reverse
<1>7. IsPrefix(Reverse(s), Reverse(t))
  <2> DEFINE u == Reverse(s)
             v == Reverse(t)
  <2>1. u \in Seq(STRING) /\ v \in Seq(STRING) /\ Len(u) = Len(s) /\ Len(v) = Len(t)
    BY <1>5, <1>6
  <2>2. ASSUME NEW m \in 1 .. Len(s) PROVE u[m] = v[m]
    <3>1. m \in 1 .. Len(t)
      BY <1>3
    <3> QED BY <1>4, <1>5, <1>6, <3>1
  <2> HIDE DEF u, v
  <2>3. IsPrefix(u, v)
    BY <1>3, <2>1, <2>2 DEF IsPrefix
  <2> QED BY <2>3 DEF u, v
<1> QED BY <1>7 DEF IsSuffix, s, t

----------------------------------------------------------------------------
(* What the parsers push.                                                  *)

(* A pushed log is valid at the cached clock it was parsed with.           *)
LEMMA PushedIsChecked ==
  ASSUME NEW line \in Seq(STRING), NEW place, NEW clock,
         CurrentParser(line, place, clock).verdict = "pushed"
  PROVE  LET log == CurrentParser(line, place, clock)
         IN log.time \in Nat /\ ValidTimestamp(log.time, clock)
              /\ ValidLevel(log.level) /\ ValidID(log.id)
<1>1. \A last, limit : FromChars(line, 1, last, limit).value \in Nat
  <2> TAKE last, limit
  <2>1. 1 \in 1 .. Len(line) + 1
    OBVIOUS
  <2>2. PICK stop : Ends(line, 1, last, stop)
    BY <2>1, ScanStops
  <2> QED BY <2>1, <2>2, Scanned DEF IsRead
<1> DEFINE log == CurrentParser(line, place, clock)
<1>2. ASSUME NEW t \in Nat, NEW level, NEW id, NEW message, log = Pushed(t, level, id, message),
             ValidTimestamp(t, clock), ValidLevel(level), ValidID(id)
      PROVE  log.time \in Nat /\ ValidTimestamp(log.time, clock)
               /\ ValidLevel(log.level) /\ ValidID(log.id)
  <2>1. log.time = t /\ log.level = level /\ log.id = id
    BY <1>2 DEF Pushed
  <2> QED BY <1>2, <2>1, Zenon
<1>3. Rejected.verdict # "pushed" /\ Aborted.verdict # "pushed"
  BY DEF Rejected, Aborted
<1>4. CASE log = Scalar(line, clock)
  <2> DEFINE end   == Len(line) + 1
             time  == FromChars(line, 1, end, TimeRange)
             level == FromChars(line, time.stop + 1, end, TimeRange)
             id    == FromChars(line, level.stop + 1, end, IdRange)
             good  == /\ Delimited(line, time) /\ ValidTimestamp(time.value, clock)
                      /\ Delimited(line, level) /\ ValidLevel(level.value)
                      /\ Delimited(line, id) /\ ValidID(id.value)
             pushed == Pushed(time.value, level.value, id.value, Message(line, id.stop + 1))
  <2>1. log = IF good THEN pushed ELSE Rejected
    BY <1>4 DEF Scalar
  <2>2. time.value \in Nat
    BY <1>1
  <2> HIDE DEF end, time, level, id, log
  <2>3. good /\ log = pushed
    <3> HIDE DEF good, pushed
    <3> QED BY <2>1, <1>3 DEF log
  <2> QED BY <2>2, <2>3, <1>2 DEF log
<1>5. CASE log = Simd(line, clock)
  <2> DEFINE p     == [i \in 1 .. 3 |-> Separators(Mask(line))[i] + 1]
             time  == FromChars(line, 1, p[1], TimeRange)
             level == FromChars(line, p[1] + 1, p[2], TimeRange)
             id    == FromChars(line, p[2] + 1, p[3], IdRange)
             early == ~ (time.ok /\ ValidTimestamp(time.value, clock))
             wrong == ~ (level.ok /\ ValidLevel(level.value))
             late  == ~ (id.ok /\ ValidID(id.value))
             back  == p[3] < p[2] + 1 /\ inverted = "abort"
             pushed == Pushed(time.value, level.value, id.value, Message(line, p[3] + 1))
  <2>1. log = IF early THEN Rejected ELSE IF wrong THEN Rejected
              ELSE IF back THEN Aborted ELSE IF late THEN Rejected ELSE pushed
    BY <1>5 DEF Simd
  <2>2. time.value \in Nat
    BY <1>1
  <2> HIDE DEF p, time, level, id, log
  <2>3. ~ early /\ ~ wrong /\ ~ late /\ log = pushed
    <3> HIDE DEF early, wrong, late, back, pushed
    <3> QED BY <2>1, <1>3 DEF log
  <2> QED BY <2>2, <2>3, <1>2 DEF log
<1> QED BY <1>4, <1>5, Zenon DEF CurrentParser

(* What the scalar parser pushes the other pushes, too, with the same time,*)
(* level and id and no less of a message, or the library ends the process. *)
LEMMA SameLog ==
  ASSUME NEW line \in Seq(STRING), NEW place, NEW clock,
         NEW i, NEW j, NEW k, Header(line, i, j, k), HeaderIsValid(line, i, j, k, clock)
  PROVE  /\ Scalar(line, clock) = PushedFrom(line, i, j, k, Message(line, k + 1))
         /\ CurrentParser(line, place, clock) # Aborted =>
              \E n \in {j, k} : CurrentParser(line, place, clock)
                                = PushedFrom(line, i, j, k, Message(line, n + 1))
<1>1. Scalar(line, clock) = PushedFrom(line, i, j, k, Message(line, k + 1))
  BY ScalarOnHeader
<1>2. CASE Vectorizable(line, place)
  BY <1>1, <1>2, SimdOnHeader DEF CurrentParser
<1>3. CASE ~ Vectorizable(line, place)
  BY <1>1, <1>3 DEF CurrentParser
<1> QED BY <1>1, <1>2, <1>3

----------------------------------------------------------------------------
(* The clock and the last line.                                            *)

ParsersInv ==
  /\ now \in FirstTime .. LastTime /\ unix_time \in FirstTime .. now
  /\ now - unix_time <= MaxLag
  /\ call.now \in FirstTime .. LastTime /\ call.clock \in FirstTime .. call.now
  /\ call.now - call.clock <= MaxLag
  /\ \/ call.line = << >> /\ entry = Rejected
     \/ call.line \in Lines /\ entry = CurrentParser(call.line, call.place, call.clock)

LEMMA ParsersInitInv == ParsersInit => ParsersInv
  BY ClockAssumption DEF ParsersInit, ParsersInv

LEMMA ParsersStepInv == ParsersInv /\ [ParsersNext]_parserVars => ParsersInv'
<1> SUFFICES ASSUME ParsersInv, [ParsersNext]_parserVars PROVE ParsersInv'
  OBVIOUS
<1>0. ASSUME UNCHANGED <<call, processor, inverted, entry>>,
             /\ now' \in FirstTime .. LastTime /\ unix_time' \in FirstTime .. now'
             /\ now' - unix_time' <= MaxLag
      PROVE  ParsersInv'
  <2>1. CurrentParser(call.line, call.place, call.clock)'
          = CurrentParser(call.line, call.place, call.clock)
    <3>1. call' = call /\ processor' = processor /\ inverted' = inverted
      BY <1>0
    <3>2. Simd(call.line, call.clock)' = Simd(call.line, call.clock)
      BY ONLY <3>1 DEF Simd
    <3> QED BY ONLY <3>1, <3>2, Zenon DEF CurrentParser
  <2>2. call'.now = call.now /\ call'.clock = call.clock /\ call'.line = call.line
    BY <1>0
  <2> QED BY <1>0, <2>1, <2>2, Zenon DEF ParsersInv
<1>1. CASE SecondPasses
  <2>1. /\ now' \in FirstTime .. LastTime /\ unix_time' \in FirstTime .. now'
        /\ now' - unix_time' <= MaxLag
    BY <1>1, ClockAssumption DEF SecondPasses, ParsersInv
  <2> QED BY <1>0, <1>1, <2>1, Zenon DEF SecondPasses
<1>2. CASE UpdateTime
  <2>1. /\ now' \in FirstTime .. LastTime /\ unix_time' \in FirstTime .. now'
        /\ now' - unix_time' <= MaxLag
    BY <1>2, ClockAssumption DEF UpdateTime, ParsersInv
  <2> QED BY <1>0, <1>2, <2>1, Zenon DEF UpdateTime
<1>3. ASSUME NEW line \in Lines, NEW place \in Places, Parse(line, place) PROVE ParsersInv'
  <2> DEFINE c == [line |-> line, place |-> place, clock |-> unix_time, now |-> now]
  <2>1. /\ c.line = line /\ c.place = place /\ c.clock = unix_time /\ c.now = now
    OBVIOUS
  <2>2. call' = c
    BY <1>3 DEF Parse
  <2> HIDE DEF c
  <2>3. CurrentParser(line, place, unix_time)' = CurrentParser(line, place, unix_time)
    <3>1. unix_time' = unix_time /\ processor' = processor /\ inverted' = inverted
      BY <1>3 DEF Parse
    <3>2. Simd(line, unix_time)' = Simd(line, unix_time)
      BY ONLY <3>1 DEF Simd
    <3> QED BY ONLY <3>1, <3>2, Zenon DEF CurrentParser
  <2> QED BY <1>3, <2>1, <2>2, <2>3 DEF Parse, ParsersInv
<1>4. CASE UNCHANGED parserVars
  BY <1>4 DEF parserVars, ParsersInv, CurrentParser, Simd
<1> QED BY <1>1, <1>2, <1>3, <1>4 DEF ParsersNext

THEOREM ParsersInvariant == ParsersSpec => []ParsersInv
<1> QED BY ParsersInitInv, ParsersStepInv, PTL DEF ParsersSpec

LEMMA EmptyIsRejected ==
  ASSUME NEW line \in Seq(STRING), Len(line) = 0, NEW clock
  PROVE  Scalar(line, clock) = Rejected
<1>1. Scalar(line, clock).verdict # "pushed"
  <2> SUFFICES ASSUME Scalar(line, clock).verdict = "pushed" PROVE FALSE
    OBVIOUS
  <2>1. PICK i, j, k : Header(line, i, j, k)
    BY ScalarHasHeader
  <2> QED BY <2>1 DEF Header
<1> QED BY <1>1 DEF Scalar, Pushed

(* The window around the cached clock holds the system clock.              *)
LEMMA ClockWindow ==
  ASSUME ParsersInv
  PROVE  /\ call.clock \in Nat /\ call.now \in Nat
         /\ call.clock <= call.now /\ call.now - call.clock <= MaxLag
         /\ call.now <= call.clock + Window /\ call.now < TimeRange
         /\ \A t \in Nat : ValidTimestamp(t, call.clock) <=>
                             call.clock - Window <= t /\ t <= call.clock + Window
<1>1. /\ call.clock \in Nat /\ call.now \in Nat /\ Window <= call.clock
      /\ call.clock <= call.now /\ call.now - call.clock <= MaxLag
      /\ call.now <= LastTime
  BY ClockAssumption DEF ParsersInv
<1>2. /\ call.now <= call.clock + Window /\ call.now < TimeRange
      /\ call.clock + Window < TimeRange
  BY <1>1, ClockAssumption
<1>3. /\ (call.clock - Window) % TimeRange = call.clock - Window
      /\ (call.clock + Window) % TimeRange = call.clock + Window
  <2>1. \A m, n \in Nat : m < n => m % n = m
    OBVIOUS
  <2>2. /\ call.clock - Window \in Nat /\ call.clock + Window \in Nat /\ TimeRange \in Nat
        /\ call.clock - Window < TimeRange /\ call.clock + Window < TimeRange
    BY <1>1, <1>2, ClockAssumption
  <2> QED BY <2>1, <2>2
<1> QED BY <1>1, <1>2, <1>3 DEF ValidTimestamp

(* What is pushed is stamped within five seconds of the cached clock, which*)
(* is behind the system clock by its lag at most, and has a level and an id*)
(* of their ranges, whichever parser took it (LogServer.h:25-62).          *)
THEOREM WhatIsPushedIsValid == ParsersSpec => []PushedIsValid
<1>1. ParsersInv => PushedIsValid
  <2> SUFFICES ASSUME ParsersInv, entry.verdict = "pushed"
               PROVE  /\ entry.time >= call.now - Window - MaxLag
                      /\ entry.time <= call.now + Window
                      /\ entry.level \in 0 .. 4 /\ entry.id \in 1 .. IdRange - 1
    BY DEF PushedIsValid
  <2>1. call.line \in Lines /\ entry = CurrentParser(call.line, call.place, call.clock)
    BY DEF ParsersInv, Rejected
  <2>2. call.line \in Seq(STRING)
    BY <2>1, LinesAssumption
  <2>3. /\ entry.time \in Nat /\ ValidTimestamp(entry.time, call.clock)
        /\ ValidLevel(entry.level) /\ ValidID(entry.id)
    BY <2>1, <2>2, PushedIsChecked
  <2>4. /\ call.clock \in Nat /\ call.now \in Nat
        /\ call.clock <= call.now /\ call.now - call.clock <= MaxLag
        /\ call.clock - Window <= entry.time /\ entry.time <= call.clock + Window
    BY <2>3, ClockWindow
  <2> QED BY <2>3, <2>4, ClockAssumption DEF ValidLevel, ValidID
<1> QED BY <1>1, ParsersInvariant, PTL

(* What the scalar parser takes the vector parser does not lose, nor give  *)
(* another time, level or id, for every line, address and width of the     *)
(* vector (LogServer.cpp:185-318).                                         *)
THEOREM ParsersReadTheSameHeader == ParsersSpec => [](SameHeader /\ MessageComplete)
<1>1. ParsersInv => SameHeader /\ MessageComplete
  <2> SUFFICES ASSUME ParsersInv, InScalar.verdict = "pushed", entry # Aborted
               PROVE  /\ entry.verdict = "pushed"
                      /\ <<entry.time, entry.level, entry.id>>
                           = <<InScalar.time, InScalar.level, InScalar.id>>
                      /\ IsSuffix(InScalar.message, entry.message)
    BY DEF SameHeader, MessageComplete, Aborted
  <2>1. call.line \in Lines /\ entry = CurrentParser(call.line, call.place, call.clock)
    <3>1. << >> \in Seq(STRING) /\ Len(<< >>) = 0
      OBVIOUS
    <3>2. Scalar(<< >>, call.clock) = Rejected /\ Rejected.verdict # "pushed"
      BY <3>1, EmptyIsRejected DEF Rejected
    <3>3. call.line # << >>
      BY <3>2 DEF InScalar
    <3> QED BY <3>3 DEF ParsersInv
  <2>2. call.line \in Seq(STRING)
    BY <2>1, LinesAssumption
  <2>3. PICK i, j, k : /\ Header(call.line, i, j, k)
                       /\ HeaderIsValid(call.line, i, j, k, call.clock)
    BY <2>2, ScalarHasHeader DEF InScalar
  <2>4. PICK n \in {j, k} : /\ entry = PushedFrom(call.line, i, j, k, Message(call.line, n + 1))
                            /\ InScalar = PushedFrom(call.line, i, j, k, Message(call.line, k + 1))
    BY <2>1, <2>2, <2>3, SameLog DEF InScalar
  <2>5. n + 1 \in 1 .. Len(call.line) + 1 /\ k + 1 \in 1 .. Len(call.line) + 1 /\ n + 1 <= k + 1
    BY <2>2, <2>3 DEF Header
  <2>6. IsSuffix(Message(call.line, k + 1), Message(call.line, n + 1))
    BY <2>2, <2>5, MessageEnds
  <2>7. \A message : /\ PushedFrom(call.line, i, j, k, message).verdict = "pushed"
                     /\ PushedFrom(call.line, i, j, k, message).time = Field(call.line, 1, i)
                     /\ PushedFrom(call.line, i, j, k, message).level = Field(call.line, i + 1, j)
                     /\ PushedFrom(call.line, i, j, k, message).id = Field(call.line, j + 1, k)
                     /\ PushedFrom(call.line, i, j, k, message).message = message
    BY DEF PushedFrom, Pushed
  <2> QED BY <2>4, <2>6, <2>7
<1> QED BY <1>1, ParsersInvariant, PTL

(* A well-formed log with the time of the moment is not refused, by either *)
(* parser, at any time: the cached clock is set before the first line      *)
(* (ThreadManager.cpp:40, 56-63).                                          *)
THEOREM NoCurrentLogIsRefused == ParsersSpec => []CurrentLogsAccepted
<1>1. ParsersInv => CurrentLogsAccepted
  <2> SUFFICES ASSUME ParsersInv, WellFormed(call.line) PROVE entry.verdict # "rejected"
    BY DEF CurrentLogsAccepted
  <2> DEFINE line == call.line
  <2>1. PICK i \in 1 .. Len(line), j \in 1 .. Len(line), k \in 1 .. Len(line) :
          /\ 1 < i /\ i + 2 = j /\ j + 2 <= k
          /\ \A p \in {i, j, k} : line[p] = Blank
          /\ \A p \in (1 .. k) \ {i, j, k} : IsDigit(line[p])
          /\ line[i + 1] \in {"0", "1", "2", "3", "4"} /\ line[j + 1] # "0"
          /\ FromChars(line, j + 1, k, IdRange).ok
          /\ FromChars(line, 1, i, TimeRange).value = call.now
    BY DEF WellFormed
  <2>2. line \in Lines /\ entry = CurrentParser(line, call.place, call.clock)
    BY <2>1 DEF ParsersInv
  <2>3. line \in Seq(STRING)
    BY <2>2, LinesAssumption
  <2> HIDE DEF line
  <2>4. /\ i \in Nat /\ j \in Nat /\ k \in Nat /\ Len(line) \in Nat
        /\ i < j /\ j < k /\ i + 1 < j /\ j + 1 < k /\ 1 \in 1 .. Len(line)
        /\ i + 1 \in 1 .. Len(line) /\ j + 1 \in 1 .. Len(line)
    <3> DEFINE l == Len(line)
    <3>1. /\ i \in 1 .. l /\ j \in 1 .. l /\ k \in 1 .. l /\ l \in Nat
          /\ i + 2 = j /\ j + 2 <= k
      BY <2>1, <2>3
    <3> HIDE DEF l
    <3>2. /\ i \in Nat /\ j \in Nat /\ k \in Nat /\ l \in Nat
          /\ i < j /\ j < k /\ i + 1 < j /\ j + 1 < k /\ 1 \in 1 .. l
          /\ i + 1 \in 1 .. l /\ j + 1 \in 1 .. l
      BY <3>1
    <3> QED BY <3>2 DEF l
  <2>5. /\ line[i] = Blank /\ line[j] = Blank /\ line[k] = Blank
        /\ \A p \in 1 .. i - 1 : IsDigit(line[p])
        /\ \A p \in i + 1 .. j - 1 : IsDigit(line[p])
        /\ \A p \in j + 1 .. k - 1 : IsDigit(line[p])
    <3>1. \A p \in 1 .. k : p # i /\ p # j /\ p # k => IsDigit(line[p])
      BY <2>1
    <3> QED BY <2>1, <2>4, <3>1
  <2>6. Header(line, i, j, k)
    BY <2>1, <2>4 DEF Header
  <2>7. Field(line, 1, i) = call.now
    <3>1. 1 < i /\ i <= i
      BY <2>1, <2>4
    <3>2. IsRead(FromChars(line, 1, i, TimeRange), line, 1, i, TimeRange)
      BY <2>3, <2>4, <2>5, <3>1, FieldIsRead
    <3> QED BY <2>1, <3>2 DEF IsRead
  <2>8. Field(line, i + 1, j) \in 0 .. 4
    <3> DEFINE s == SubSeq(line, i + 1, j - 1)
    <3>1. s \in Seq(STRING) /\ Len(s) = 1 /\ s[1] = line[i + 1]
      <4>1. j - 1 = i + 1
        BY <2>1, <2>4
      <4> QED BY <2>3, <2>4, <4>1
    <3>2. Field(line, i + 1, j) = Number(s)
      BY DEF Field
    <3> HIDE DEF s
    <3>3. IsDigit(s[1]) /\ Value(s[1]) \in 0 .. 4
      BY <2>1, <3>1, SmallDigits
    <3>4. Number(s) = Value(s[1])
      BY <3>1, <3>3, NumberOfDigits
    <3> QED BY <3>2, <3>3, <3>4
  <2>9. Field(line, j + 1, k) \in 1 .. IdRange - 1
    <3> DEFINE s == SubSeq(line, j + 1, k - 1)
    <3>1. /\ s \in Seq(STRING) /\ Len(s) = k - j - 1 /\ Len(s) > 0 /\ s[1] = line[j + 1]
          /\ \A n \in 1 .. Len(s) : s[n] = line[j + n] /\ j + n \in j + 1 .. k - 1
      BY <2>1, <2>3, <2>4
    <3>2. Field(line, j + 1, k) = Number(s)
      BY DEF Field
    <3> HIDE DEF s
    <3>3. \A n \in 1 .. Len(s) : IsDigit(s[n])
      BY <2>5, <3>1
    <3>4. Number(s) \in Nat /\ Number(s) > 0
      BY <2>1, <3>1, <3>3, NumberOfDigits
    <3>5. IsRead(FromChars(line, j + 1, k, IdRange), line, j + 1, k, IdRange)
      BY <2>1, <2>3, <2>4, <2>5, FieldIsRead
    <3>6. Field(line, j + 1, k) < IdRange
      BY <2>1, <3>5 DEF IsRead
    <3> QED BY <3>2, <3>4, <3>6, ClockAssumption
  <2>10. ValidTimestamp(call.now, call.clock) /\ call.now < TimeRange
    <3>1. /\ call.clock \in Nat /\ call.now \in Nat /\ call.clock <= call.now
          /\ call.now <= call.clock + Window /\ call.now < TimeRange
          /\ ValidTimestamp(call.now, call.clock) <=>
               call.clock - Window <= call.now /\ call.now <= call.clock + Window
      BY ClockWindow
    <3> QED BY <3>1, ClockAssumption
  <2>11. HeaderIsValid(line, i, j, k, call.clock)
    <3>1. Field(line, i + 1, j) < TimeRange /\ Field(line, j + 1, k) < IdRange
      BY <2>8, <2>9, ClockAssumption
    <3> QED BY <2>7, <2>8, <2>9, <2>10, <3>1 DEF HeaderIsValid, ValidLevel, ValidID
  <2>12. entry = Aborted
         \/ \E n \in {j, k} : entry = PushedFrom(line, i, j, k, Message(line, n + 1))
    BY <2>2, <2>3, <2>6, <2>11, SameLog
  <2> QED BY <2>12 DEF PushedFrom, Pushed, Aborted
<1> QED BY <1>1, ParsersInvariant, PTL
=============================================================================
