---------------------------- MODULE MagicRingProof ----------------------------
(***************************************************************************)
(* Theorems about MagicRing, for every size and every range of the cursors *)
(* that the sizes divide.                                                  *)
(***************************************************************************)
EXTENDS MagicRing, TLAPS

----------------------------------------------------------------------------
(* Remainders.                                                             *)

(* What a quotient and a remainder are.                                    *)
LEMMA DivMod ==
  ASSUME NEW a \in Int, NEW n \in Nat \ {0}
  PROVE  /\ a % n \in 0 .. n - 1 /\ a \div n \in Int
         /\ a = n * (a \div n) + (a % n)
BY SMT

(* No multiple of n but 0 is nearer to 0 than n.                           *)
LEMMA NoMultiple ==
  ASSUME NEW n \in Nat \ {0}, NEW d \in Int, n * d < n, -n < n * d
  PROVE  d = 0
BY SMT

(* There is one remainder only.                                            *)
LEMMA ModUnique ==
  ASSUME NEW n \in Nat \ {0}, NEW a \in Int, NEW q \in Int, NEW r \in 0 .. n - 1,
         a = n * q + r
  PROVE  a % n = r
<1>1. a = n * (a \div n) + (a % n) /\ a % n \in 0 .. n - 1 /\ a \div n \in Int
  BY DivMod
<1>2. n * (q - (a \div n)) = (a % n) - r
  BY <1>1, SMT
<1>3. q - (a \div n) = 0
  BY <1>1, <1>2, NoMultiple, SMT
<1> QED BY <1>1, <1>2, <1>3, SMT

(* A cursor that has wrapped has the address of one that has not.          *)
Divided(a, n) == a = n * (a \div n) + (a % n) /\ a \div n \in Int /\ a % n \in Int

LEMMA DivModAt == ASSUME NEW a \in Int, NEW n \in Nat \ {0} PROVE Divided(a, n)
<1>1. a = n * (a \div n) + (a % n) /\ a \div n \in Int /\ a % n \in 0 .. n - 1
  BY DivMod
<1>2. \A i : i \in 0 .. n - 1 => i \in Int
  OBVIOUS
<1> DEFINE d == a \div n  e == a % n
<1>3. a = n * d + e /\ d \in Int /\ e \in 0 .. n - 1
  BY <1>1
<1> HIDE DEF d, e
<1>4. a = n * d + e /\ d \in Int /\ e \in Int
  BY <1>2, <1>3, Zenon
<1> QED BY <1>4 DEF d, e, Divided

Divides(n, c)           == c % n = 0
SameAddress(n, c, a, b) == ((a % c) + b) % n = (a + b) % n

LEMMA ModOfMod ==
  ASSUME NEW n \in Nat \ {0}, NEW c \in Nat \ {0}, Divides(n, c), NEW a \in Int, NEW b \in Int
  PROVE  SameAddress(n, c, a, b)
<1>0. c % n = 0
  BY DEF Divides
<1> DEFINE m == c \div n  q == a \div c  r == ((a % c) + b) % n  t == ((a % c) + b) \div n
<1>1. c = n * m /\ m \in Int
  <2> DEFINE rest == c % n
  <2>1. c = n * m + rest /\ m \in Int
    BY DivMod
  <2>2. rest = 0
    BY <1>0
  <2> HIDE DEF rest, m
  <2>3. n * m \in Int
    BY <2>1, SMT
  <2>4. \A whole \in Int : whole + 0 = whole
    OBVIOUS
  <2> QED BY <2>1, <2>2, <2>3, <2>4, Zenon
<1>2. a = c * q + (a % c) /\ q \in Int /\ a % c \in Int
  <2>1. Divided(a, c)
    BY DivModAt, Zenon
  <2> QED BY <2>1 DEF Divided
<1>3. (a % c) + b = n * t + r /\ t \in Int /\ r \in 0 .. n - 1
  BY <1>2, DivMod, (a % c) + b \in Int
<1> HIDE DEF m, q, r, t
<1> DEFINE u == m * q
<1>4. c * q = n * u /\ u \in Int
  BY <1>1, <1>2, SMT
<1> HIDE DEF u
<1>5. n * u + n * t = n * (u + t)
  BY <1>3, <1>4, SMT
<1>6. a + b = n * (u + t) + r
  BY <1>2, <1>3, <1>4, <1>5, SMT
<1>7. u + t \in Int /\ a + b \in Int
  BY <1>3, <1>4
<1>8. (a + b) % n = r
  BY <1>3, <1>6, <1>7, ModUnique
<1> QED BY <1>8 DEF r, SameAddress

(* The byte k behind the address of a byte of the stream is the address of *)
(* the one k behind it.                                                    *)
LEMMA Behind ==
  ASSUME NEW n \in Nat \ {0}, NEW a \in Int, NEW k \in 0 .. n - 1
  PROVE  (IF (a % n) + k < n THEN (a % n) + k ELSE (a % n) + k - n) = (a + k) % n
<1>1. a = n * (a \div n) + (a % n) /\ a % n \in 0 .. n - 1 /\ a \div n \in Int
  BY DivMod
<1>2. CASE (a % n) + k < n
  <2>1. a + k = n * (a \div n) + ((a % n) + k) /\ (a % n) + k \in 0 .. n - 1
    BY <1>1, <1>2, SMT
  <2>2. a + k \in Int
    OBVIOUS
  <2> QED BY <1>1, <1>2, <2>1, <2>2, ModUnique
<1>3. CASE ~ ((a % n) + k < n)
  <2>1. a + k = n * (a \div n + 1) + ((a % n) + k - n) /\ (a % n) + k - n \in 0 .. n - 1
    BY <1>1, <1>3, SMT
  <2>2. a + k \in Int /\ a \div n + 1 \in Int
    BY <1>1
  <2> QED BY <1>1, <1>3, <2>1, <2>2, ModUnique
<1> QED BY <1>2, <1>3

(* Bytes of the stream less than n apart have different addresses.         *)
LEMMA Apart ==
  ASSUME NEW n \in Nat \ {0}, NEW a \in Int, NEW b \in Int, a < b, b < a + n
  PROVE  a % n # b % n
<1> SUFFICES ASSUME a % n = b % n PROVE FALSE
  OBVIOUS
<1>1. a = n * (a \div n) + (a % n) /\ a % n \in Int /\ a \div n \in Int
  BY DivMod
<1>2. b = n * (b \div n) + (b % n) /\ b \div n \in Int
  BY DivMod
<1>3. n * ((b \div n) - (a \div n)) = b - a
  BY <1>1, <1>2, SMT
<1>4. (b \div n) - (a \div n) = 0
  BY <1>1, <1>2, <1>3, NoMultiple, SMT
<1> QED BY <1>3, <1>4, SMT

----------------------------------------------------------------------------
(* The inductive invariant.                                                *)

(* What the process holds at each step of the portal.                      *)
HeldOK ==
  /\ portal \in {"new", "checked", "freed"} => held = {}
  /\ portal = "reserved" => held = {"range"}
  /\ portal = "split"    => held = {"lower", "upper"}
  /\ portal = "section"  => held = {"lower", "upper", "section"}
  /\ portal = "mapped A" => held = {"viewA", "upper", "section"}
  /\ portal = "ready"    => held = {"viewA", "viewB", "section"}
  /\ portal = "threw"    => held \subseteq {"range", "lower", "upper"}

(* Where the cursors are in the stream, and what lies between them.        *)
StreamOK ==
  /\ portal # "new" /\ portal # "threw" => size # 0
  /\ received - consumed \in 0 .. size
  /\ head = received % CursorRange /\ tail = consumed % CursorRange
  /\ \A p \in consumed .. received - 1 : memory[p % size] = p + 1

RingInv == MagicRingTypeOK /\ HeldOK /\ StreamOK

(* The ring is empty and holds nothing before start_portal().              *)
LEMMA RingInit == MagicRingInit => RingInv
<1> SUFFICES ASSUME MagicRingInit PROVE RingInv
  OBVIOUS
<1>1. 0 % CursorRange = 0 /\ 0 \in 0 .. CursorRange - 1
  BY RingAssumption, SMT
<1>2. MagicRingTypeOK
  BY <1>1, RingAssumption, SMT DEF MagicRingInit, MagicRingTypeOK, Portals
<1>3. HeldOK
  BY DEF MagicRingInit, HeldOK
<1>4. StreamOK
  BY <1>1, RingAssumption, SMT DEF MagicRingInit, StreamOK
<1> QED BY <1>2, <1>3, <1>4 DEF RingInv

(* The parts of the invariant the lemmas below need.                       *)
LEMMA RingFacts ==
  ASSUME RingInv
  PROVE  /\ size \in Nat /\ received \in Nat /\ consumed \in Nat
         /\ CursorRange \in Nat \ {0} /\ size < CursorRange
         /\ size # 0 => CursorRange % size = 0
         /\ received - consumed \in 0 .. size
         /\ head = received % CursorRange /\ tail = consumed % CursorRange
         /\ head \in Nat /\ tail \in Nat
<1>1. size \in Sizes /\ received \in 0 .. MaxReceived /\ consumed \in Nat
      /\ head \in 0 .. CursorRange - 1 /\ tail \in 0 .. CursorRange - 1
  BY DEF RingInv, MagicRingTypeOK
<1>2. size \in Nat /\ CursorRange \in Nat \ {0} /\ MaxReceived \in Nat
  BY <1>1, RingAssumption
<1>3. size # 0 => size < CursorRange /\ CursorRange % size = 0
  BY <1>1, RingAssumption
<1>4. received \in Nat /\ head \in Nat /\ tail \in Nat
  BY <1>1, <1>2
<1>5. /\ received - consumed \in 0 .. size
      /\ head = received % CursorRange /\ tail = consumed % CursorRange
  BY DEF RingInv, StreamOK
<1> QED BY <1>1, <1>2, <1>3, <1>4, <1>5

(* get_bytes_available() is what was received and not yet used up, also    *)
(* when head has wrapped and tail has not.                                 *)
LEMMA AvailableIs ==
  ASSUME RingInv PROVE BytesAvailable = received - consumed
<1> DEFINE p == received \div CursorRange  q == consumed \div CursorRange
<1>0. /\ received \in Int /\ consumed \in Int /\ CursorRange \in Nat \ {0}
      /\ head = received % CursorRange /\ tail = consumed % CursorRange
  BY RingFacts
<1>1. received = CursorRange * p + head /\ p \in Int
  BY <1>0, DivMod
<1>2. consumed = CursorRange * q + tail /\ q \in Int
  BY <1>0, DivMod
<1> HIDE DEF p, q
<1>3. head - tail = CursorRange * (q - p) + (received - consumed)
  BY <1>1, <1>2, RingFacts, SMT
<1>4. received - consumed \in 0 .. CursorRange - 1
  BY RingFacts
<1>5. head - tail \in Int /\ q - p \in Int
  BY <1>1, <1>2, RingFacts
<1>6. (head - tail) % CursorRange = received - consumed
  BY <1>3, <1>4, <1>5, RingFacts, ModUnique
<1> QED BY <1>6 DEF BytesAvailable, Wrap

(* A byte behind either cursor has the address of its number.              *)
LEMMA Addresses ==
  ASSUME RingInv, size # 0, NEW a \in Nat, NEW u \in Nat, NEW k \in 0 .. size - 1
  PROVE  /\ ByteAt(AddressOf((a % CursorRange) + u) + k) = (a + u + k) % size
         /\ Mapped(AddressOf((a % CursorRange) + u) + k)
         /\ (a + u + k) % size \in 0 .. size - 1
<1>1. size \in Nat \ {0} /\ CursorRange % size = 0 /\ CursorRange \in Nat \ {0}
  BY RingFacts
<1>2. ((a % CursorRange) + u) % size = (a + u) % size
  <2>1. a \in Int /\ u \in Int
    OBVIOUS
  <2>2. Divides(size, CursorRange)
    BY <1>1 DEF Divides
  <2>3. SameAddress(size, CursorRange, a, u)
    BY <1>1, <2>1, <2>2, ModOfMod, Zenon
  <2> QED BY <2>3 DEF SameAddress
<1>3. (a + u) % size \in 0 .. size - 1 /\ a + u \in Int /\ a + u + k \in Int
  BY <1>1, DivMod
<1>4. (IF ((a + u) % size) + k < size THEN ((a + u) % size) + k ELSE ((a + u) % size) + k - size)
        = (a + u + k) % size
  BY <1>1, <1>3, Behind
<1>5. (a + u + k) % size \in 0 .. size - 1
  BY <1>1, <1>3, DivMod
<1>6. AddressOf((a % CursorRange) + u) = (a + u) % size
  BY <1>2 DEF AddressOf
<1> DEFINE w == (a + u) % size
<1>7. w \in 0 .. size - 1 /\ AddressOf((a % CursorRange) + u) = w
      /\ (IF w + k < size THEN w + k ELSE w + k - size) = (a + u + k) % size
  BY <1>3, <1>4, <1>6
<1> HIDE DEF w
<1>8. Mapped(w + k) /\ ByteAt(w + k) = (a + u + k) % size
  BY <1>1, <1>7 DEF Mapped, ByteAt
<1> QED BY <1>5, <1>7, <1>8

(* The same, at the cursor itself.                                         *)
LEMMA AddressesAt ==
  ASSUME RingInv, size # 0, NEW a \in Nat, NEW k \in 0 .. size - 1
  PROVE  /\ ByteAt(AddressOf(a % CursorRange) + k) = (a + k) % size
         /\ Mapped(AddressOf(a % CursorRange) + k)
         /\ (a + k) % size \in 0 .. size - 1
<1>1. 0 \in Nat /\ a % CursorRange \in Int
  BY RingAssumption, DivMod
<1>2. (a % CursorRange) + 0 = a % CursorRange /\ a + 0 + k = a + k
  BY <1>1
<1> QED BY <1>1, <1>2, Addresses

(* Every step preserves the invariant: a portal step keeps HeldOK; a read  *)
(* fills room that holds no byte of the view.                              *)
LEMMA RingNext == RingInv /\ [MagicRingNext]_ringVars => RingInv'
<1> SUFFICES ASSUME RingInv, [MagicRingNext]_ringVars PROVE RingInv'
  OBVIOUS
<1> DEFINE Portal == /\ UNCHANGED unportal
                     /\ portal' \in Portals /\ HeldOK'
                     /\ portal' # "new" /\ portal' # "threw" => size # 0
<1>1. ASSUME Portal PROVE RingInv'
  <2>1. held' \subseteq {"range", "lower", "upper", "section"} \cup Views
    BY <1>1 DEF HeldOK, Portals, Views
  <2>2. MagicRingTypeOK'
    BY <1>1, <2>1 DEF RingInv, MagicRingTypeOK, unportal, Views
  <2>3. StreamOK'
    BY <1>1 DEF RingInv, StreamOK, unportal
  <2> QED BY <1>1, <2>2, <2>3 DEF RingInv
<1>2. CASE CheckSize \/ ReserveRange \/ SplitRange \/ CreateSection \/ MapViewA \/ MapViewB
  <2>1. HeldOK'
    BY <1>2 DEF RingInv, HeldOK, CheckSize, ReserveRange, SplitRange, CreateSection,
                MapViewA, MapViewB, Attempt
  <2>2. UNCHANGED unportal /\ portal' \in Portals
    BY <1>2 DEF CheckSize, ReserveRange, SplitRange, CreateSection, MapViewA, MapViewB,
                Attempt, Portals
  <2>3. portal' # "new" /\ portal' # "threw" => size # 0
    BY <1>2 DEF RingInv, StreamOK, CheckSize, ReserveRange, SplitRange, CreateSection,
                MapViewA, MapViewB, Attempt
  <2> QED BY <1>1, <2>1, <2>2, <2>3
<1>3. CASE FreePortal
  <2>1. HeldOK'
    BY <1>3 DEF RingInv, HeldOK, FreePortal
  <2>2. UNCHANGED unportal /\ portal' \in Portals /\ size # 0
    BY <1>3 DEF RingInv, StreamOK, FreePortal, Portals
  <2> QED BY <1>1, <2>1, <2>2
<1>4. ASSUME NEW n \in 1 .. size, Receive(n) PROVE RingInv'
  <2>1. /\ portal = "ready" /\ size # 0 /\ size \in Nat \ {0} /\ n \in Nat
        /\ n <= size - (received - consumed) /\ received + n <= MaxReceived
        /\ UNCHANGED <<size, portal, held, tail, consumed>>
        /\ received' = received + n /\ head' = Wrap(head + n)
    BY <1>4, AvailableIs, RingFacts DEF RingInv, StreamOK, Receive, WriteSpace
  <2>2. HeldOK'
    BY <2>1 DEF RingInv, HeldOK
  <2>3. head' = (received + n) % CursorRange
    <3>1. ((received % CursorRange) + n) % CursorRange = (received + n) % CursorRange
      <4>1. CursorRange % CursorRange = 0
        <5>1. /\ CursorRange \in Nat \ {0} /\ CursorRange = CursorRange * 1 + 0
              /\ 0 \in 0 .. CursorRange - 1
          BY RingFacts
        <5> QED BY <5>1, ModUnique
      <4>2. CursorRange \in Nat \ {0} /\ received \in Int /\ n \in Int
        BY <2>1, RingFacts
      <4>3. Divides(CursorRange, CursorRange)
        BY <4>1 DEF Divides
      <4>4. SameAddress(CursorRange, CursorRange, received, n)
        BY <4>2, <4>3, ModOfMod, Zenon
      <4> QED BY <4>4 DEF SameAddress
    <3> QED BY <2>1, <3>1, RingFacts DEF Wrap
  <2>4. head' \in 0 .. CursorRange - 1
    <3>1. received + n \in Int /\ CursorRange \in Nat \ {0}
      BY <2>1, RingFacts
    <3> QED BY <2>3, <3>1, DivMod
  <2>5. ASSUME NEW k \in 0 .. n - 1
        PROVE  /\ ByteAt(AddressOf(head) + k) = (received + k) % size
               /\ (received + k) % size \in 0 .. size - 1
    BY <2>1, RingFacts, AddressesAt, k \in 0 .. size - 1
  <2>6. ASSUME NEW k \in 0 .. n - 1, NEW j \in 0 .. n - 1,
               ByteAt(AddressOf(head) + k) = ByteAt(AddressOf(head) + j)
        PROVE  k = j
    <3>1. (received + k) % size = (received + j) % size
      BY <2>5, <2>6
    <3>2. received + k \in Int /\ received + j \in Int
      BY <2>1, RingFacts
    <3>3. ~ (k < j)
      BY <2>1, <3>1, <3>2, Apart, RingFacts
    <3>4. ~ (j < k)
      BY <2>1, <3>1, <3>2, Apart, RingFacts
    <3> QED BY <3>3, <3>4
  <2>7. DOMAIN memory = 0 .. size - 1
    BY DEF RingInv, MagicRingTypeOK
  <2>8. \A b \in 0 .. size - 1 :
          memory'[b] = IF \E k \in 0 .. n - 1 : b = ByteAt(AddressOf(head) + k)
                         THEN 1 + received + (CHOOSE k \in 0 .. n - 1 :
                                                b = ByteAt(AddressOf(head) + k))
                         ELSE memory[b]
    BY <1>4, <2>7 DEF Receive
  <2>9. memory' \in [0 .. size - 1 -> Nat]
    <3>1. memory' = [b \in 0 .. size - 1 |-> memory'[b]]
      BY <1>4, <2>7 DEF Receive
    <3>2. ASSUME NEW b \in 0 .. size - 1 PROVE memory'[b] \in Nat
      <4>1. memory[b] \in Nat
        BY DEF RingInv, MagicRingTypeOK
      <4>2. CASE \E k \in 0 .. n - 1 : b = ByteAt(AddressOf(head) + k)
        <5>1. (CHOOSE k \in 0 .. n - 1 : b = ByteAt(AddressOf(head) + k)) \in 0 .. n - 1
          BY <4>2
        <5> QED BY <2>8, <4>2, <5>1, RingFacts
      <4> QED BY <2>8, <4>1, <4>2
    <3> QED BY <3>1, <3>2
  <2>10. ASSUME NEW p \in consumed .. received + n - 1 PROVE memory'[p % size] = p + 1
    <3>1. p \in Int /\ p % size \in 0 .. size - 1
      BY <2>1, RingFacts, DivMod
    <3>2. CASE p < received
      <4>1. ASSUME NEW k \in 0 .. n - 1 PROVE p % size # ByteAt(AddressOf(head) + k)
        <5>1. p < received + k /\ received + k < p + size /\ received + k \in Int
          BY <2>1, <3>2, RingFacts
        <5>2. p % size # (received + k) % size
          BY <2>1, <3>1, <5>1, Apart
        <5> QED BY <2>5, <5>2
      <4>2. memory'[p % size] = memory[p % size]
        BY <2>8, <3>1, <4>1
      <4>3. p \in consumed .. received - 1
        BY <3>1, <3>2, RingFacts
      <4> QED BY <4>2, <4>3 DEF RingInv, StreamOK
    <3>3. CASE ~ (p < received)
      <4>1. p - received \in 0 .. n - 1 /\ received + (p - received) = p
        BY <2>1, <3>1, <3>3, RingFacts
      <4>2. p % size = ByteAt(AddressOf(head) + (p - received))
        BY <2>5, <4>1
      <4>3. (CHOOSE k \in 0 .. n - 1 : p % size = ByteAt(AddressOf(head) + k))
              \in 0 .. n - 1
            /\ p % size = ByteAt(AddressOf(head) + (CHOOSE k \in 0 .. n - 1 :
                                  p % size = ByteAt(AddressOf(head) + k)))
        BY <4>1, <4>2
      <4>4. (CHOOSE k \in 0 .. n - 1 : p % size = ByteAt(AddressOf(head) + k))
              = p - received
        BY <2>6, <4>1, <4>2, <4>3
      <4>5. memory'[p % size] = 1 + received + (p - received)
        BY <2>8, <3>1, <4>1, <4>2, <4>4
      <4> QED BY <4>5, <3>1, RingFacts
    <3> QED BY <3>2, <3>3
  <2>11. MagicRingTypeOK'
    <3>1. /\ size \in Sizes /\ portal \in Portals
          /\ held \subseteq {"range", "lower", "upper", "section"} \cup Views
          /\ tail \in 0 .. CursorRange - 1 /\ consumed \in Nat
      BY DEF RingInv, MagicRingTypeOK
    <3>2. received' \in 0 .. MaxReceived
      BY <2>1, RingFacts DEF RingInv, MagicRingTypeOK
    <3> QED BY <2>1, <2>4, <2>9, <3>1, <3>2 DEF MagicRingTypeOK
  <2>12. StreamOK'
    <3>1. tail' = consumed' % CursorRange
      BY <2>1, RingFacts
    <3>2. head' = received' % CursorRange
      BY <2>1, <2>3
    <3>3. received' - consumed' \in 0 .. size'
      BY <2>1, RingFacts
    <3>4. \A p \in consumed' .. received' - 1 : memory'[p % size'] = p + 1
      <4> SUFFICES ASSUME NEW p \in consumed' .. received' - 1
                   PROVE  memory'[p % size'] = p + 1
        OBVIOUS
      <4>1. consumed' = consumed /\ received' = received + n /\ size' = size
        BY <2>1
      <4>2. p \in consumed .. received + n - 1
        BY <4>1, RingFacts
      <4> QED BY <2>10, <4>1, <4>2
    <3>5. portal' = portal /\ size' = size /\ portal = "ready" /\ size # 0
      BY <2>1
    <3> QED BY <3>1, <3>2, <3>3, <3>4, <3>5 DEF StreamOK
  <2> QED BY <2>2, <2>11, <2>12 DEF RingInv
<1>5. ASSUME NEW n \in 1 .. size, Consume(n) PROVE RingInv'
  <2>1. /\ portal = "ready" /\ size # 0 /\ n \in Nat /\ n <= received - consumed
        /\ UNCHANGED <<size, portal, held, memory, head, received>>
        /\ consumed' = consumed + n /\ tail' = Wrap(tail + n)
    BY <1>5, AvailableIs, RingFacts DEF RingInv, StreamOK, Consume
  <2>2. tail' = (consumed + n) % CursorRange
    <3>1. ((consumed % CursorRange) + n) % CursorRange = (consumed + n) % CursorRange
      <4>1. CursorRange % CursorRange = 0
        <5>1. /\ CursorRange \in Nat \ {0} /\ CursorRange = CursorRange * 1 + 0
              /\ 0 \in 0 .. CursorRange - 1
          BY RingFacts
        <5> QED BY <5>1, ModUnique
      <4>2. CursorRange \in Nat \ {0} /\ consumed \in Int /\ n \in Int
        BY <2>1, RingFacts
      <4>3. Divides(CursorRange, CursorRange)
        BY <4>1 DEF Divides
      <4>4. SameAddress(CursorRange, CursorRange, consumed, n)
        BY <4>2, <4>3, ModOfMod, Zenon
      <4> QED BY <4>4 DEF SameAddress
    <3> QED BY <2>1, <3>1, RingFacts DEF Wrap
  <2>3. tail' \in 0 .. CursorRange - 1
    <3>1. consumed + n \in Int /\ CursorRange \in Nat \ {0}
      BY <2>1, RingFacts
    <3> QED BY <2>2, <3>1, DivMod
  <2>4. MagicRingTypeOK'
    <3>1. MagicRingTypeOK /\ consumed + n \in Nat
      BY <2>1, RingFacts DEF RingInv
    <3> QED BY <2>1, <2>3, <3>1, Zenon DEF MagicRingTypeOK
  <2>5. HeldOK'
    BY <2>1 DEF RingInv, HeldOK
  <2>6. StreamOK'
    BY <2>1, <2>2, RingFacts DEF RingInv, StreamOK
  <2> QED BY <2>4, <2>5, <2>6 DEF RingInv
<1>6. CASE UNCHANGED ringVars
  <2>1. UNCHANGED <<size, portal, held, memory, head, tail, received, consumed>>
    BY <1>6 DEF ringVars
  <2>2. MagicRingTypeOK'
    BY <2>1, Zenon DEF RingInv, MagicRingTypeOK
  <2>3. HeldOK'
    BY <2>1, Zenon DEF RingInv, HeldOK
  <2>4. StreamOK'
    BY <2>1, Zenon DEF RingInv, StreamOK
  <2> QED BY <2>2, <2>3, <2>4, Zenon DEF RingInv
<1> QED BY <1>2, <1>3, <1>4, <1>5, <1>6 DEF MagicRingNext

(* The invariant holds always.                                             *)
THEOREM RingInvariant == MagicRingSpec => []RingInv
<1> QED BY RingInit, RingNext, PTL DEF MagicRingSpec

(* Type correctness (LogServer.h:242-249).                                 *)
THEOREM RingTypeCorrect == MagicRingSpec => []MagicRingTypeOK
<1>1. RingInv => MagicRingTypeOK
  BY DEF RingInv
<1> QED BY <1>1, RingInvariant, PTL

(* What lies between the cursors is the stream, in order and contiguous    *)
(* (LogServer.cpp:394-417).                                                *)
THEOREM RingViewIsStream == MagicRingSpec => []ViewIsStream
<1>1. RingInv => ViewIsStream
  <2> SUFFICES ASSUME RingInv, portal = "ready"
               PROVE  /\ \A k \in 0 .. BytesAvailable - 1 : Mapped(AddressOf(tail) + k)
                      /\ View(BytesAvailable) = Stream(0, BytesAvailable)
    BY DEF ViewIsStream
  <2>1. ASSUME NEW k \in 0 .. BytesAvailable - 1
        PROVE  /\ Mapped(AddressOf(tail) + k)
               /\ memory[ByteAt(AddressOf(tail) + k)] = 1 + consumed + 0 + k
    <3>1. size # 0 /\ k \in 0 .. size - 1 /\ consumed + k \in consumed .. received - 1
      BY AvailableIs, RingFacts DEF RingInv, StreamOK
    <3>2. ByteAt(AddressOf(tail) + k) = (consumed + k) % size /\ Mapped(AddressOf(tail) + k)
      BY <3>1, AddressesAt, RingFacts
    <3>3. memory[(consumed + k) % size] = (consumed + k) + 1
      BY <3>1 DEF RingInv, StreamOK
    <3> QED BY <3>2, <3>3, RingFacts, AvailableIs
  <2> QED BY <2>1 DEF View, Bytes, Stream
<1> QED BY <1>1, RingInvariant, PTL

(* A read overwrites no byte of the view and stays in the two views        *)
(* (LogServer.cpp:101-115, 394-402).                                       *)
THEOREM RingRoomIsFree == MagicRingSpec => []RoomIsFree
<1>1. RingInv => RoomIsFree
  <2> SUFFICES ASSUME RingInv, portal = "ready", NEW k \in 0 .. WriteSpace - 1
               PROVE  /\ Mapped(AddressOf(head) + k)
                      /\ \A j \in 0 .. BytesAvailable - 1 :
                           ByteAt(AddressOf(head) + k) # ByteAt(AddressOf(tail) + j)
    BY DEF RoomIsFree
  <2>1. size # 0 /\ k \in 0 .. size - 1 /\ k < size - (received - consumed)
    BY AvailableIs, RingFacts DEF RingInv, StreamOK, WriteSpace
  <2>2. ByteAt(AddressOf(head) + k) = (received + k) % size /\ Mapped(AddressOf(head) + k)
    BY <2>1, AddressesAt, RingFacts
  <2>3. ASSUME NEW j \in 0 .. BytesAvailable - 1
        PROVE  ByteAt(AddressOf(head) + k) # ByteAt(AddressOf(tail) + j)
    <3>1. j \in 0 .. size - 1 /\ j < received - consumed
      BY AvailableIs, RingFacts
    <3>2. ByteAt(AddressOf(tail) + j) = (consumed + j) % size
      BY <2>1, <3>1, AddressesAt, RingFacts
    <3>3. /\ consumed + j \in Int /\ received + k \in Int
          /\ consumed + j < received + k /\ received + k < consumed + j + size
      BY <2>1, <3>1, RingFacts
    <3> QED BY <2>1, <2>2, <3>2, <3>3, Apart, RingFacts
  <2> QED BY <2>2, <2>3
<1> QED BY <1>1, RingInvariant, PTL

(* peek() reads the stream, also across the end of the section             *)
(* (LogServer.cpp:135, 141, 425).                                          *)
THEOREM RingPeekIsStream == MagicRingSpec => []PeekIsStream
<1>1. RingInv => PeekIsStream
  <2> SUFFICES ASSUME RingInv, portal = "ready", NEW usize \in {0, Word},
                      usize + Word <= BytesAvailable
               PROVE  /\ \A k \in 0 .. Word - 1 : Mapped(AddressOf(tail + usize) + k)
                      /\ Peek(usize) = Stream(usize, Word)
    BY DEF PeekIsStream
  <2>1. Word \in Nat /\ usize \in Nat
    BY RingAssumption
  <2>2. ASSUME NEW k \in 0 .. Word - 1
        PROVE  /\ Mapped(AddressOf(tail + usize) + k)
               /\ memory[ByteAt(AddressOf(tail + usize) + k)] = 1 + consumed + usize + k
    <3>1. size # 0 /\ k \in 0 .. size - 1 /\ consumed + usize + k \in consumed .. received - 1
      BY <2>1, AvailableIs, RingFacts DEF RingInv, StreamOK
    <3>2. /\ ByteAt(AddressOf(tail + usize) + k) = (consumed + usize + k) % size
          /\ Mapped(AddressOf(tail + usize) + k)
      <4>1. consumed \in Nat /\ tail = consumed % CursorRange
        BY RingFacts
      <4> QED BY <2>1, <3>1, <4>1, Addresses
    <3>3. memory[(consumed + usize + k) % size] = (consumed + usize + k) + 1
      BY <3>1 DEF RingInv, StreamOK
    <3> QED BY <2>1, <3>2, <3>3, RingFacts
  <2> QED BY <2>2 DEF Peek, Bytes, Stream
<1> QED BY <1>1, RingInvariant, PTL

(* A failed or freed ring holds neither the section nor a view of it       *)
(* (LogServer.cpp:443-467, 470-475).                                       *)
THEOREM RingNoMemoryLost == MagicRingSpec => []NoMemoryLost
<1>1. RingInv => NoMemoryLost
  BY DEF RingInv, HeldOK, NoMemoryLost, Views
<1> QED BY <1>1, RingInvariant, PTL
=============================================================================
