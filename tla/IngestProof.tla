------------------------------ MODULE IngestProof ------------------------------
(***************************************************************************)
(* The slab pool never hands out bytes outside its mapping, whatever       *)
(* max_slabs is, and is a ring of max_slabs slabs if max_slabs is a power  *)
(* of two.  A log entry that the worker has popped, or will pop, names the *)
(* bytes of its message for as long as its slab is not used again: for     *)
(* every number and size of messages, slabs and queue slots.               *)
(***************************************************************************)
EXTENDS Ingest, BitsProof

----------------------------------------------------------------------------
(* The pool.                                                               *)

(* The next slab is one of the pool, and the one behind if max_slabs is a  *)
(* power of two.                                                           *)
LEMMA MaskFacts ==
  ASSUME NEW i \in 0 .. MaxSlabs - 1
  PROVE  /\ Mask(i + 1, MaxSlabs - 1) \in 0 .. MaxSlabs - 1
         /\ PowerOfTwo => Mask(i + 1, MaxSlabs - 1) = IF i + 1 < MaxSlabs THEN i + 1 ELSE 0
<1>1. i + 1 \in Nat /\ MaxSlabs - 1 \in Nat /\ WordBits \in Nat /\ MaxSlabs \in Nat
  BY PoolAssumption
<1>2. Mask(i + 1, MaxSlabs - 1) \in 0 .. MaxSlabs - 1
  BY <1>1, AndAtMost DEF Mask
<1>3. ASSUME PowerOfTwo
      PROVE  Mask(i + 1, MaxSlabs - 1) = IF i + 1 < MaxSlabs THEN i + 1 ELSE 0
  <2>1. PICK k \in 0 .. WordBits : MaxSlabs = Pow2[k]
    BY <1>3 DEF PowerOfTwo, Powers
  <2>2. Mask(i + 1, MaxSlabs - 1) = (i + 1) % MaxSlabs
    BY <1>1, <2>1, AndRemainder DEF Mask
  <2>3. i + 1 = MaxSlabs \/ i + 1 < MaxSlabs
    BY <1>1
  <2>4. CASE i + 1 = MaxSlabs
    <3>1. \A n \in Nat \ {0} : n % n = 0
      OBVIOUS
    <3> QED BY <2>2, <2>4, <3>1, PoolAssumption
  <2>5. CASE i + 1 < MaxSlabs
    <3>1. \A m, n \in Nat : m < n => m % n = m
      OBVIOUS
    <3> QED BY <1>1, <2>2, <2>5, <3>1
  <2> QED BY <2>3, <2>4, <2>5
<1> QED BY <1>2, <1>3

(* The slab that the pool, which is at slab i, was at d rolls ago.         *)
Back(i, d) == IF d <= i THEN i - d ELSE i - d + MaxSlabs

PlaceInv ==
  \A e \in extents :
    /\ e.offset + e.size <= SlabSize
    /\ e.roll <= rolls
    /\ e.roll = rolls => e.slab = write_index /\ e.offset + e.size <= current_offset

SameRollInv ==
  \A e, f \in extents :
    e # f /\ e.roll = f.roll =>
      /\ e.slab = f.slab
      /\ e.offset + e.size <= f.offset \/ f.offset + f.size <= e.offset

RingInv ==
  PowerOfTwo =>
    /\ \A e \in extents : rolls - e.roll < MaxSlabs => e.slab = Back(write_index, rolls - e.roll)
    /\ \A e, f \in extents : e.roll < f.roll /\ f.roll < e.roll + MaxSlabs => e.slab # f.slab

PoolIInv == PoolTypeOK /\ PlaceInv /\ SameRollInv /\ RingInv

(* What one call reserves, and where the pool stands afterwards.           *)
LEMMA Reservation ==
  ASSUME PoolTypeOK, NEW size \in MessageSizes, GetNextSlab(size)
  PROVE  \E new \in [slab : 0 .. MaxSlabs - 1, offset : 0 .. SlabSize,
                     size : Nat, roll : 0 .. MaxRolls] :
           /\ extents' = extents \cup {new}
           /\ new.slab = write_index' /\ new.roll = rolls'
           /\ new.offset + new.size = current_offset' /\ current_offset' <= SlabSize
           /\ \/ rolls' = rolls /\ write_index' = write_index /\ new.offset = current_offset
              \/ /\ rolls' = rolls + 1 /\ new.offset = 0
                 /\ write_index' = Mask(write_index + 1, MaxSlabs - 1)
<1>. DEFINE new == [slab |-> Slab(size), offset |-> Offset(size),
                    size |-> Total(size), roll |-> rolls']
<1>1. Total(size) \in Nat
  BY PoolAssumption DEF Total
<1>2. Rolls(size) \in BOOLEAN
  BY DEF Rolls
<1>3. CASE Rolls(size)
  <2>1. /\ write_index' = Mask(write_index + 1, MaxSlabs - 1)
        /\ write_index' \in 0 .. MaxSlabs - 1
        /\ current_offset' = Total(size) /\ rolls' = rolls + 1 /\ rolls' \in 0 .. MaxRolls
    BY <1>1, <1>3, PoolAssumption, MaskFacts
       DEF GetNextSlab, Slab, Offset, NextIndex, PoolTypeOK
  <2>2. /\ new.slab = write_index' /\ new.offset = 0 /\ new.size = Total(size)
        /\ new.roll = rolls' /\ extents' = extents \cup {new}
    BY <1>3, <2>1 DEF GetNextSlab, Slab, Offset, NextIndex
  <2>3. Total(size) <= SlabSize
    BY DEF GetNextSlab, Fits
  <2>4. new \in [slab : 0 .. MaxSlabs - 1, offset : 0 .. SlabSize,
                 size : Nat, roll : 0 .. MaxRolls]
    BY <1>1, <1>3, <2>1, PoolAssumption DEF GetNextSlab, Slab, Offset
  <2>. HIDE DEF new
  <2>5. QED BY <1>1, <2>1, <2>2, <2>3, <2>4
<1>4. CASE ~Rolls(size)
  <2>1. /\ write_index' = write_index /\ rolls' = rolls
        /\ current_offset' = current_offset + Total(size)
    BY <1>4 DEF GetNextSlab, Slab, Offset
  <2>2. /\ new.slab = write_index' /\ new.offset = current_offset
        /\ new.size = Total(size) /\ new.roll = rolls' /\ extents' = extents \cup {new}
    BY <1>4, <2>1 DEF GetNextSlab, Slab, Offset
  <2>3. current_offset + Total(size) <= SlabSize
    BY <1>1, <1>4, PoolAssumption DEF Rolls, PoolTypeOK
  <2>4. new \in [slab : 0 .. MaxSlabs - 1, offset : 0 .. SlabSize,
                 size : Nat, roll : 0 .. MaxRolls]
    BY <1>1, <1>4, <2>1 DEF Slab, Offset, PoolTypeOK
  <2>. HIDE DEF new
  <2>5. QED BY <2>1, <2>2, <2>3, <2>4
<1>5. QED BY <1>2, <1>3, <1>4

LEMMA PoolInitIInv == PoolInit => PoolIInv
BY PoolAssumption DEF PoolInit, PoolIInv, PoolTypeOK, PlaceInv, SameRollInv, RingInv

LEMMA PoolStepIInv == PoolIInv /\ [PoolNext]_poolVars => PoolIInv'
<1>. SUFFICES ASSUME PoolIInv, [PoolNext]_poolVars PROVE PoolIInv'
  OBVIOUS
<1>1. CASE UNCHANGED poolVars
  <2>1. PoolTypeOK' /\ PlaceInv' /\ SameRollInv'
    BY <1>1 DEF poolVars, PoolIInv, PoolTypeOK, PlaceInv, SameRollInv
  <2>2. RingInv'
    BY <1>1 DEF poolVars, PoolIInv, RingInv
  <2>3. QED BY <2>1, <2>2 DEF PoolIInv
<1>2. ASSUME NEW size \in MessageSizes, GetNextSlab(size) PROVE PoolIInv'
  <2>. DEFINE Extents == [slab : 0 .. MaxSlabs - 1, offset : 0 .. SlabSize,
                          size : Nat, roll : 0 .. MaxRolls]
  <2>1. PoolTypeOK /\ PlaceInv /\ SameRollInv /\ RingInv
    BY DEF PoolIInv
  <2>2. PICK new \in Extents :
          /\ extents' = extents \cup {new}
          /\ new.slab = write_index' /\ new.roll = rolls'
          /\ new.offset + new.size = current_offset' /\ current_offset' <= SlabSize
          /\ \/ rolls' = rolls /\ write_index' = write_index /\ new.offset = current_offset
             \/ /\ rolls' = rolls + 1 /\ new.offset = 0
                /\ write_index' = Mask(write_index + 1, MaxSlabs - 1)
    BY <1>2, <2>1, Reservation
  <2>3. \A e \in extents :
          e.slab \in Int /\ e.offset \in Nat /\ e.size \in Nat /\ e.roll \in Nat
    BY <2>1 DEF PoolTypeOK
  <2>4. /\ new.slab \in 0 .. MaxSlabs - 1 /\ new.offset \in Nat /\ new.size \in Nat
        /\ new.roll \in 0 .. MaxRolls
    OBVIOUS
  <2>5. PoolTypeOK'
    BY <2>1, <2>2, <2>4, PoolAssumption DEF PoolTypeOK
  <2>6. PlaceInv'
    BY <2>1, <2>2, <2>3, <2>4, PoolAssumption DEF PlaceInv, PoolTypeOK
  <2>7. SameRollInv'
    <3>1. \A e \in extents : e.roll = new.roll =>
            e.slab = new.slab /\ e.offset + e.size <= new.offset
      BY <2>1, <2>2, <2>3, <2>4 DEF PlaceInv, PoolTypeOK
    <3>2. QED BY <2>1, <2>2, <3>1 DEF SameRollInv
  <2>8. RingInv'
    <3>. SUFFICES ASSUME PowerOfTwo PROVE RingInv'
      BY DEF RingInv
    <3>1. \A e \in extents : rolls' - e.roll < MaxSlabs => e.slab = Back(write_index', rolls' - e.roll)
      <4>1. TAKE e \in extents
      <4>2. e.roll <= rolls /\ (rolls - e.roll < MaxSlabs => e.slab = Back(write_index, rolls - e.roll))
        BY <2>1 DEF PlaceInv, RingInv
      <4>3. CASE rolls' = rolls /\ write_index' = write_index
        BY <4>2, <4>3 DEF Back
      <4>4. CASE rolls' = rolls + 1 /\ write_index' = Mask(write_index + 1, MaxSlabs - 1)
        <5>1. write_index' = IF write_index + 1 < MaxSlabs THEN write_index + 1 ELSE 0
          BY <2>1, <4>4, MaskFacts DEF PoolTypeOK
        <5>2. QED
          BY <2>1, <2>3, <4>2, <4>4, <5>1, PoolAssumption DEF Back, PoolTypeOK
      <4>5. QED BY <2>2, <4>3, <4>4
    <3>2. \A e \in extents : e.roll <= rolls'
      BY <2>1, <2>2, <2>3 DEF PlaceInv, PoolTypeOK
    <3>3. \A e \in extents :
            e.roll < new.roll /\ new.roll < e.roll + MaxSlabs => e.slab # new.slab
      BY <2>2, <2>3, <2>4, <2>5, <3>1, PoolAssumption DEF Back, PoolTypeOK
    <3>4. Back(write_index', rolls' - new.roll) = new.slab
      <4>1. rolls' - new.roll = 0
        BY <2>2, <2>4
      <4>2. Back(write_index', 0) = write_index'
        BY <2>2, <2>4, PoolAssumption DEF Back
      <4>3. QED BY <2>2, <4>1, <4>2
    <3>5. \A e \in extents' : rolls' - e.roll < MaxSlabs => e.slab = Back(write_index', rolls' - e.roll)
      BY <2>2, <3>1, <3>4
    <3>6. \A e, f \in extents' :
            e.roll < f.roll /\ f.roll < e.roll + MaxSlabs => e.slab # f.slab
      <4>1. \A e \in extents' : ~(new.roll < e.roll)
        BY <2>2, <2>3, <2>4, <3>2
      <4>2. QED BY <2>1, <2>2, <3>3, <4>1 DEF RingInv
    <3>7. QED BY <3>5, <3>6 DEF RingInv
  <2>9. QED BY <2>5, <2>6, <2>7, <2>8 DEF PoolIInv
<1>3. QED BY <1>1, <1>2 DEF PoolNext

THEOREM PoolInductiveInvariant == PoolSpec => []PoolIInv
<1>1. QED BY PoolInitIInv, PoolStepIInv, PTL DEF PoolSpec

(* The members of SlabPool keep their types (LogServer.h:68-71).           *)
THEOREM PoolTypeCorrect == PoolSpec => []PoolTypeOK
<1>1. PoolIInv => PoolTypeOK
  BY DEF PoolIInv
<1>2. QED BY PoolInductiveInvariant, <1>1, PTL

(* The bytes of a slab come before those of the slabs above it.            *)
LEMMA SlabOrder ==
  ASSUME NEW i \in Nat, NEW j \in Nat, i < j
  PROVE  i * SlabSize + SlabSize <= j * SlabSize
<1>1. j = i + 1 + (j - i - 1) /\ j - i - 1 \in Nat
  OBVIOUS
<1>2. PICK d \in Nat : j = i + 1 + d
  BY <1>1
<1>3. j * SlabSize = i * SlabSize + SlabSize + d * SlabSize
  BY <1>2, PoolAssumption
<1>4. d * SlabSize \in Nat /\ i * SlabSize \in Nat
  BY PoolAssumption
<1>5. QED BY <1>3, <1>4, PoolAssumption

(* A slab lies inside the mapping, and an extent inside its slab.          *)
LEMMA MappingInv == ASSUME PoolIInv PROVE WithinTheMapping
<1>. SUFFICES ASSUME NEW e \in extents
              PROVE  e.offset + e.size <= SlabSize /\ First(e) + e.size <= SlabSize * MaxSlabs
  BY DEF WithinTheMapping
<1>1. e.offset + e.size <= SlabSize /\ e.slab \in 0 .. MaxSlabs - 1
      /\ e.offset \in Nat /\ e.size \in Nat
  BY DEF PoolIInv, PlaceInv, PoolTypeOK
<1>2. e.slab * SlabSize + SlabSize <= MaxSlabs * SlabSize
  <2>1. e.slab \in Nat /\ MaxSlabs \in Nat /\ e.slab < MaxSlabs
    BY <1>1, PoolAssumption
  <2> QED BY <2>1, SlabOrder
<1>3. e.slab * SlabSize \in Nat /\ MaxSlabs * SlabSize = SlabSize * MaxSlabs
  BY <1>1, PoolAssumption
<1>4. SlabSize * MaxSlabs \in Nat
  BY PoolAssumption
<1>5. QED BY <1>1, <1>2, <1>3, <1>4, PoolAssumption DEF First

(* Extents of one roll follow each other in a slab, those of neighbouring  *)
(* rolls are in different slabs.                                           *)
LEMMA SlabRingInv == ASSUME PowerOfTwo, PoolIInv PROVE RingOfMaxSlabs
<1>. SUFFICES ASSUME NEW e \in extents, NEW f \in extents,
                     e # f, e.roll <= f.roll, f.roll < e.roll + MaxSlabs
              PROVE  Disjoint(e, f)
  BY DEF RingOfMaxSlabs
<1>1. /\ e.slab \in Nat /\ f.slab \in Nat /\ e.roll \in Nat /\ f.roll \in Nat
      /\ e.offset \in Nat /\ e.size \in Nat /\ f.offset \in Nat /\ f.size \in Nat
      /\ e.offset + e.size <= SlabSize /\ f.offset + f.size <= SlabSize
  BY PoolAssumption DEF PoolIInv, PlaceInv, PoolTypeOK
<1>2. e.slab * SlabSize \in Nat /\ f.slab * SlabSize \in Nat
  BY <1>1, PoolAssumption
<1>3. CASE e.roll = f.roll
  <2>1. /\ e.slab = f.slab
        /\ e.offset + e.size <= f.offset \/ f.offset + f.size <= e.offset
    BY <1>3 DEF PoolIInv, SameRollInv
  <2>2. QED BY <1>1, <1>2, <2>1 DEF Disjoint, First
<1>4. CASE e.roll < f.roll
  <2>1. e.slab # f.slab
    BY <1>4 DEF PoolIInv, RingInv
  <2>2. \/ e.slab * SlabSize + SlabSize <= f.slab * SlabSize
        \/ f.slab * SlabSize + SlabSize <= e.slab * SlabSize
    <3>1. e.slab < f.slab \/ f.slab < e.slab
      BY <1>1, <2>1
    <3>2. QED BY <1>1, <3>1, SlabOrder
  <2>3. QED BY <1>1, <1>2, <2>2, PoolAssumption DEF Disjoint, First
<1>5. QED BY <1>1, <1>3, <1>4

(* get_next_slab() stays inside the mapping for every max_slabs, the       *)
(* powers of two and the others (LogServer.h:107-129).                     *)
THEOREM NeverOutOfBounds == PoolSpec => []WithinTheMapping
<1>. QED BY PoolInductiveInvariant, MappingInv, PTL

(* With max_slabs a power of two a message keeps its bytes for max_slabs   *)
(* rolls of the pool (LogServer.h:112-121).                                *)
THEOREM PowersOfTwoMakeARing ==
  ASSUME PowerOfTwo PROVE PoolSpec => []RingOfMaxSlabs
<1>. QED BY PoolInductiveInvariant, SlabRingInv, PTL

----------------------------------------------------------------------------
(* The slabs that are ever used.                                           *)

(* The pool counts to d and starts again: roll r is in slab r % d.         *)
CountsBy(d) ==
  /\ write_index = rolls % d
  /\ \A e \in extents : e.slab = e.roll % d

LEMMA CountingStep ==
  ASSUME NEW a \in Nat, NEW q \in Nat, OddMultiple(MaxSlabs, a, q),
         PoolTypeOK, CountsBy(Pow2[a]), [PoolNext]_poolVars
  PROVE  CountsBy(Pow2[a])'
<1>. DEFINE d == Pow2[a]
<1>1. d \in Nat \ {0} /\ rolls \in Nat /\ write_index \in 0 .. d - 1
  <2>1. d \in Nat \ {0}
    BY Pow2Positive
  <2>2. rolls \in Nat /\ write_index = rolls % d
    BY DEF PoolTypeOK, CountsBy
  <2>. HIDE DEF d
  <2>3. QED BY <2>1, <2>2
<1>2. ASSUME NEW size \in MessageSizes, GetNextSlab(size) PROVE CountsBy(d)'
  <2>1. PICK new \in [slab : 0 .. MaxSlabs - 1, offset : 0 .. SlabSize,
                      size : Nat, roll : 0 .. MaxRolls] :
          /\ extents' = extents \cup {new}
          /\ new.slab = write_index' /\ new.roll = rolls'
          /\ \/ rolls' = rolls /\ write_index' = write_index
             \/ /\ rolls' = rolls + 1
                /\ write_index' = Mask(write_index + 1, MaxSlabs - 1)
    BY <1>2, Reservation
  <2>2. write_index' = rolls' % d
    <3>1. CASE rolls' = rolls /\ write_index' = write_index
      BY Zenon, <3>1 DEF CountsBy
    <3>2. CASE rolls' = rolls + 1 /\ write_index' = Mask(write_index + 1, MaxSlabs - 1)
      <4>1. CountsTo(WordBits, MaxSlabs, a, write_index)
        <5>1. WordBits \in Nat /\ MaxSlabs \in Nat /\ MaxSlabs < Pow2[WordBits]
          BY PoolAssumption
        <5>2. QED BY <1>1, <5>1, MaskOfOddMultiple
      <4>2. Mask(write_index + 1, MaxSlabs - 1) = IF write_index + 1 = d THEN 0 ELSE write_index + 1
        BY Zenon, <4>1 DEF CountsTo, Mask
      <4>3. (rolls + 1) % d = NextRemainder(rolls, d)
        <5>. HIDE DEF d
        <5>1. QED BY <1>1, ModNext
      <4>4. write_index = rolls % d
        BY DEF CountsBy
      <4>. HIDE DEF d
      <4>5. QED BY <3>2, <4>2, <4>3, <4>4 DEF NextRemainder
    <3>3. QED BY <2>1, <3>1, <3>2
  <2>3. \A e \in extents : e.slab = e.roll % d
    BY DEF CountsBy
  <2>. HIDE DEF d
  <2>4. \A e \in extents' : e.slab = e.roll % d
    BY <2>1, <2>2, <2>3
  <2>5. QED BY <2>2, <2>4 DEF CountsBy
<1>3. CASE UNCHANGED poolVars
  BY <1>3 DEF poolVars, CountsBy
<1>4. QED BY <1>2, <1>3 DEF PoolNext

(* Of max_slabs = 2^a times an odd number of slabs the pool uses 2^a, in   *)
(* turn: 2 of 10, and one if max_slabs is odd (LogServer.h:114).           *)
THEOREM OnlyTheLowestBitCounts ==
  ASSUME NEW a \in Nat, NEW q \in Nat, OddMultiple(MaxSlabs, a, q)
  PROVE  PoolSpec => []CountsBy(Pow2[a])
<1>1. PoolInit => CountsBy(Pow2[a])
  <2>. DEFINE d == Pow2[a]
  <2>1. d \in Nat \ {0}
    BY Pow2Positive
  <2>. HIDE DEF d
  <2>2. 0 % d = 0
    BY <2>1
  <2>3. QED BY <2>2 DEF PoolInit, CountsBy, d
<1>2. PoolTypeOK /\ CountsBy(Pow2[a]) /\ [PoolNext]_poolVars => CountsBy(Pow2[a])'
  BY CountingStep
<1>3. QED BY <1>1, <1>2, PoolTypeCorrect, PTL DEF PoolSpec

----------------------------------------------------------------------------
(* The path.                                                               *)

Limit == SlabSize * MaxSlabs

Known == Range(queue) \cup Range(delivered)

(* The types, and the message being written with the place it is given.    *)
Locals ==
  /\ roll_of \in Seq(Nat)
  /\ memory \in [Bytes -> 0 .. Len(roll_of)]
  /\ ipc \in {"idle", "header", "payload", "push"}
  /\ destination \in Bytes /\ message \in Nat /\ log_entry \in LogEntries
  /\ disconnected \in BOOLEAN
  /\ queue \in Seq(LogEntries) /\ delivered \in Seq(LogEntries)
  /\ ipc # "idle" => log_entry.log_id \in 1 .. Len(roll_of)

(* An entry stands for what get_next_slab() reserved for its message.      *)
Names(entry, e) == /\ entry.log_id \in 1 .. Len(roll_of)
                   /\ entry.relative_offset = First(e)
                   /\ entry.message_lenght = e.size
                   /\ roll_of[entry.log_id] = e.roll

Fresh(entry) == rolls < roll_of[entry.log_id] + MaxSlabs

Apart(x, y) == \/ x.relative_offset + x.message_lenght <= y.relative_offset
               \/ y.relative_offset + y.message_lenght <= x.relative_offset

Named == \A entry \in Known : \E e \in extents : Names(entry, e)

Written(first, size) == \A b \in first .. first + size - 1 : memory[b] = log_entry.log_id

(* The message being written is apart from all that is still to be read.   *)
Writing ==
  ipc # "idle" =>
    /\ \E e \in extents : Names(log_entry, e)
    /\ log_entry.relative_offset = destination
    /\ log_entry.message_lenght = HeaderSize + message
    /\ destination + HeaderSize + message <= Limit
    /\ \A entry \in Known : Fresh(entry) => Apart(entry, log_entry)
    /\ ipc \in {"payload", "push"} => Written(destination, HeaderSize)
    /\ ipc = "push" => Written(destination + HeaderSize, message)

IngestTypes == PoolIInv /\ Locals
IngestInv   == IngestTypes /\ Named /\ Writing /\ IntactUntilReused

----------------------------------------------------------------------------
(* What holds of the pool before a reservation holds after it.             *)
LEMMA PoolNextState ==
  /\ PoolIInv' => WithinTheMapping'
  /\ PowerOfTwo => (PoolIInv' => RingOfMaxSlabs')
<1>1. PoolIInv' => WithinTheMapping'
  BY MappingInv, PTL
<1>2. PowerOfTwo => (PoolIInv' => RingOfMaxSlabs')
  <2> SUFFICES ASSUME PowerOfTwo PROVE PoolIInv' => RingOfMaxSlabs'
    OBVIOUS
  <2>1. PoolIInv => RingOfMaxSlabs
    BY SlabRingInv
  <2> QED BY <2>1, PTL
<1> QED BY <1>1, <1>2

(* What get_next_slab() returns is the extent it has just added, which is  *)
(* none of those before.                                                   *)
LEMMA NewExtent ==
  ASSUME PoolIInv, NEW size \in MessageSizes, GetNextSlab(size)
  PROVE  /\ PoolIInv'
         /\ Total(size) = HeaderSize + size /\ size \in Nat
         /\ extents \subseteq extents'
         /\ RelativeBytes(size) \in Nat /\ RelativeBytes(size) + Total(size) <= Limit
         /\ \E new \in extents' : /\ First(new) = RelativeBytes(size)
                                  /\ new.size = Total(size) /\ new.roll = rolls'
                                  /\ new \notin extents
<1> DEFINE new == [slab |-> Slab(size), offset |-> Offset(size),
                   size |-> Total(size), roll |-> rolls']
<1>1. PoolIInv'
  BY PoolStepIInv DEF PoolNext
<1>2. /\ extents' = extents \cup {new}
      /\ Total(size) = HeaderSize + size /\ Total(size) \in Nat \ {0} /\ size \in Nat
      /\ new.slab = Slab(size) /\ new.offset = Offset(size)
      /\ new.size = Total(size) /\ new.roll = rolls'
  <2>1. extents' = extents \cup {new}
    BY DEF GetNextSlab
  <2>2. Total(size) = HeaderSize + size /\ Total(size) \in Nat \ {0} /\ size \in Nat
    BY PoolAssumption DEF Total
  <2> QED BY <2>1, <2>2
<1>3. First(new) = RelativeBytes(size)
  BY <1>2 DEF First, RelativeBytes
<1>4. First(new) + new.size <= Limit
  BY <1>1, <1>2, PoolNextState DEF WithinTheMapping, Limit
<1> HIDE DEF new
<1>5. RelativeBytes(size) \in Nat
  <2>1. new.slab \in Nat /\ new.offset \in Nat
    BY <1>1, <1>2, PoolAssumption DEF PoolIInv, PoolTypeOK
  <2>2. new.slab * SlabSize \in Nat
    BY <2>1, PoolAssumption
  <2> QED BY <1>3, <2>1, <2>2 DEF First
<1>6. new \notin extents
  <2> SUFFICES ASSUME new \in extents PROVE FALSE
    OBVIOUS
  <2>1. /\ new.offset \in Nat /\ new.roll <= rolls /\ rolls \in Nat
        /\ new.roll = rolls => new.offset + new.size <= current_offset
        /\ current_offset \in Nat
    BY DEF PoolIInv, PlaceInv, PoolTypeOK
  <2>2. \/ rolls' = rolls + 1
        \/ rolls' = rolls /\ Offset(size) = current_offset
    BY DEF GetNextSlab, Offset
  <2> QED BY <1>2, <2>1, <2>2
<1> QED BY <1>1, <1>2, <1>3, <1>4, <1>5, <1>6

(* What a message can be told from: the ranges of the two histories.       *)
LEMMA RangeOfSeq ==
  ASSUME NEW q \in Seq(LogEntries), NEW x \in LogEntries
  PROVE  /\ Range(Append(q, x)) = Range(q) \cup {x}
         /\ q # << >> => Range(Tail(q)) \cup {Head(q)} = Range(q)
<1>1. Range(Append(q, x)) = Range(q) \cup {x}
  <2>1. /\ DOMAIN q = 1 .. Len(q) /\ Len(q) \in Nat
        /\ DOMAIN Append(q, x) = 1 .. Len(q) + 1
        /\ \A i \in 1 .. Len(q) : Append(q, x)[i] = q[i]
        /\ Append(q, x)[Len(q) + 1] = x
    OBVIOUS
  <2> QED BY <2>1 DEF Range
<1>2. ASSUME q # << >> PROVE Range(Tail(q)) \cup {Head(q)} = Range(q)
  <2>1. /\ DOMAIN q = 1 .. Len(q) /\ Len(q) \in Nat \ {0}
        /\ DOMAIN Tail(q) = 1 .. Len(q) - 1
        /\ \A i \in 1 .. Len(q) - 1 : Tail(q)[i] = q[i + 1]
        /\ Head(q) = q[1]
    BY <1>2
  <2>2. ASSUME NEW y \in Range(q) PROVE y \in Range(Tail(q)) \cup {Head(q)}
    <3>1. PICK i \in 1 .. Len(q) : y = q[i]
      BY <2>1 DEF Range
    <3>2. CASE i = 1
      BY <2>1, <3>1, <3>2
    <3>3. CASE i # 1
      <4>1. i - 1 \in 1 .. Len(q) - 1 /\ Tail(q)[i - 1] = y
        BY <2>1, <3>1, <3>3
      <4> QED BY <2>1, <4>1 DEF Range
    <3> QED BY <3>2, <3>3
  <2>3. ASSUME NEW y \in Range(Tail(q)) \cup {Head(q)} PROVE y \in Range(q)
    <3>1. CASE y = Head(q)
      BY <2>1, <3>1 DEF Range
    <3>2. CASE y \in Range(Tail(q))
      <4>1. PICK i \in 1 .. Len(q) - 1 : y = Tail(q)[i]
        BY <2>1, <3>2 DEF Range
      <4> QED BY <2>1, <4>1 DEF Range
    <3> QED BY <3>1, <3>2, <2>3
  <2> QED BY <2>2, <2>3
<1> QED BY <1>1, <1>2

(* The header and the payload are written where the message was given room *)
LEMMA WriteStep ==
  ASSUME NEW first \in Nat, NEW size \in Nat, first + size <= Limit, Limit \in Nat,
         NEW id \in 1 .. Len(roll_of), Len(roll_of) \in Nat,
         memory \in [Bytes -> 0 .. Len(roll_of)],
         Overwrite(first, size, id)
  PROVE  /\ memory' \in [Bytes -> 0 .. Len(roll_of)]
         /\ \A b \in first .. first + size - 1 : memory'[b] = id
         /\ \A b \in Bytes : b < first \/ first + size <= b => memory'[b] = memory[b]
<1>1. memory' = [b \in Bytes |-> IF b \in first .. first + size - 1 THEN id ELSE memory[b]]
  BY DEF Overwrite
<1>2. Bytes = 0 .. Limit - 1
  BY DEF Bytes, Limit
<1>3. first .. first + size - 1 \subseteq Bytes
  BY <1>2
<1> QED BY <1>1, <1>2, <1>3

----------------------------------------------------------------------------
(* Types.                                                                  *)
LEMMA LimitInBytes == Limit \in Nat \ {0} /\ Bytes = 0 .. Limit - 1
  BY PoolAssumption DEF Limit, Bytes

LEMMA TypesStep == IngestTypes /\ [IngestNext]_ingestVars => IngestTypes'
<1> SUFFICES ASSUME IngestTypes, [IngestNext]_ingestVars PROVE IngestTypes'
  OBVIOUS
<1> USE DEF IngestTypes
<1>1. ASSUME UNCHANGED poolVars PROVE PoolIInv'
  BY <1>1, PoolStepIInv
<1>2. ASSUME NEW size \in MessageSizes, TooBig(size) PROVE IngestTypes'
  BY <1>1, <1>2 DEF TooBig, Locals, queueVars
<1>3. ASSUME NEW size \in MessageSizes, Reserve(size) PROVE IngestTypes'
  <2>1. GetNextSlab(size)
    BY <1>3 DEF Reserve
  <2>2. /\ PoolIInv' /\ size \in Nat /\ Total(size) \in Nat /\ Total(size) > 0
        /\ RelativeBytes(size) \in Nat /\ RelativeBytes(size) + Total(size) <= Limit
    BY <2>1, NewExtent, PoolAssumption
  <2>3. destination' \in Bytes /\ message' \in Nat
    BY <1>3, <2>2, LimitInBytes DEF Reserve
  <2>4. rolls' \in Nat
    BY <2>2 DEF PoolIInv, PoolTypeOK
  <2>5. roll_of' \in Seq(Nat) /\ Len(roll_of') = Len(roll_of) + 1 /\ Len(roll_of) \in Nat
    BY <1>3, <2>4 DEF Reserve, Locals
  <2>6. log_entry' \in LogEntries /\ log_entry'.log_id = Len(roll_of) + 1
    <3>1. OutOffset(size) \in Nat
      BY <2>2, PoolAssumption DEF OutOffset
    <3> QED BY <1>3, <2>2, <2>5, <3>1 DEF Reserve, LogEntries
  <2>7. memory' \in [Bytes -> 0 .. Len(roll_of')]
    BY <1>3, <2>5 DEF Reserve, Locals
  <2>8. /\ ipc' = "header" /\ UNCHANGED <<disconnected, queue, delivered>>
    BY <1>3 DEF Reserve, queueVars
  <2>9. log_entry'.log_id \in 1 .. Len(roll_of')
    BY <2>5, <2>6
  <2>10. Locals'
    <3>1. UNCHANGED <<disconnected, queue, delivered>> /\ ipc' = "header"
      BY <2>8
    <3>2. /\ disconnected \in BOOLEAN
          /\ queue \in Seq(LogEntries) /\ delivered \in Seq(LogEntries)
      BY Zenon DEF Locals
    <3> QED BY <2>3, <2>5, <2>6, <2>7, <2>9, <3>1, <3>2, Zenon DEF Locals
  <2> QED BY <2>2, <2>10, Zenon
<1>4. ASSUME WriteHeader \/ WritePayload PROVE IngestTypes'
  <2>1. /\ ipc # "idle" /\ ipc' \in {"payload", "push"}
        /\ UNCHANGED <<poolVars, destination, message, log_entry, disconnected, roll_of,
                       queue, delivered>>
    BY <1>4 DEF WriteHeader, WritePayload, queueVars
  <2>2. memory' \in [Bytes -> 0 .. Len(roll_of)]
    <3>1. /\ memory \in [Bytes -> 0 .. Len(roll_of)] /\ Len(roll_of) \in Nat
          /\ log_entry.log_id \in 0 .. Len(roll_of)
      BY <2>1 DEF Locals
    <3>2. \A first, size : Overwrite(first, size, log_entry.log_id) =>
                            memory' \in [Bytes -> 0 .. Len(roll_of)]
      BY <3>1 DEF Overwrite
    <3> QED BY <1>4, <3>2 DEF WriteHeader, WritePayload
  <2> QED BY <1>1, <2>1, <2>2 DEF Locals
<1>5. ASSUME PushEntry PROVE IngestTypes'
  <2>1. /\ ipc' = "idle"
        /\ UNCHANGED <<poolVars, memory, destination, message, log_entry, disconnected, roll_of,
                       delivered>>
        /\ queue' = queue \/ queue' = Append(queue, log_entry)
    BY <1>5 DEF PushEntry, Fifo!Offer, Fifo!Refuse
  <2>2. queue' \in Seq(LogEntries)
    <3>1. queue \in Seq(LogEntries) /\ log_entry \in LogEntries
      BY DEF Locals
    <3> QED BY <2>1, <3>1
  <2>3. PoolIInv'
    BY <1>1, <2>1
  <2> QED BY <2>1, <2>2, <2>3 DEF Locals
<1>6. ASSUME PopEntry PROVE IngestTypes'
  <2>1. /\ UNCHANGED <<poolVars, memory, ipc, destination, message, log_entry, disconnected, roll_of>>
        /\ queue # << >> /\ queue' = Tail(queue) /\ delivered' = Append(delivered, Head(queue))
    BY <1>6 DEF PopEntry, Fifo!Take
  <2>2. queue' \in Seq(LogEntries) /\ delivered' \in Seq(LogEntries)
    BY <2>1 DEF Locals
  <2> QED BY <1>1, <2>1, <2>2 DEF Locals
<1>7. CASE UNCHANGED ingestVars
  BY <1>1, <1>7 DEF ingestVars, poolVars, Locals
<1> QED BY <1>2, <1>3, <1>4, <1>5, <1>6, <1>7 DEF IngestNext

LEMMA InitIngestTypes == IngestInit => IngestTypes
<1> SUFFICES ASSUME IngestInit PROVE IngestTypes
  OBVIOUS
<1>1. PoolIInv
  BY PoolInitIInv DEF IngestInit
<1>2. /\ roll_of = << >> /\ queue = << >> /\ delivered = << >> /\ ipc = "idle"
      /\ memory = [b \in Bytes |-> 0] /\ destination = 0 /\ message = 0
      /\ log_entry = [log_id |-> 0, relative_offset |-> 0, message_lenght |-> 0]
      /\ disconnected = FALSE
  BY DEF IngestInit, Fifo!Init
<1>3. 0 \in Bytes
  BY LimitInBytes
<1>4. Locals
  BY <1>2, <1>3 DEF Locals, LogEntries
<1> QED BY <1>1, <1>4 DEF IngestTypes

(* The locals of parse_and_push() and the channel keep their types         *)
(* (LogServer.cpp:218-243).                                                *)
THEOREM IngestTypeCorrect == IngestSpec => []IngestTypeOK
<1>1. IngestTypes => IngestTypeOK
  BY DEF IngestTypes, PoolIInv, Locals, IngestTypeOK
<1> QED BY <1>1, InitIngestTypes, TypesStep, PTL DEF IngestSpec

----------------------------------------------------------------------------
(* Messages and memory, for max_slabs a power of two and a channel whose   *)
(* offsets fit into 32 bits.                                               *)
SoundChannel == PowerOfTwo /\ Limit <= OffsetRange

(* An entry that is known lies in memory.                                  *)
LEMMA KnownInMemory ==
  ASSUME IngestInv, NEW entry \in Known
  PROVE  /\ entry \in LogEntries /\ entry.log_id \in 1 .. Len(roll_of)
         /\ entry.relative_offset + entry.message_lenght <= Limit
         /\ \A b \in entry.relative_offset .. entry.relative_offset + entry.message_lenght - 1 :
              b \in Bytes
<1>1. entry \in LogEntries
  BY DEF IngestInv, IngestTypes, Locals, Known, Range
<1>2. PICK e \in extents : Names(entry, e)
  BY DEF IngestInv, Named
<1>3. First(e) + e.size <= Limit
  BY MappingInv DEF IngestInv, IngestTypes, WithinTheMapping, Limit
<1>4. /\ entry.log_id \in 1 .. Len(roll_of)
      /\ entry.relative_offset + entry.message_lenght <= Limit
  BY <1>2, <1>3 DEF Names
<1> QED BY <1>1, <1>4, LimitInBytes DEF LogEntries

LEMMA ReserveStep ==
  ASSUME SoundChannel, IngestInv, NEW size \in MessageSizes, Reserve(size), IngestTypes'
  PROVE  (Named /\ Writing /\ IntactUntilReused)'
<1>1. GetNextSlab(size)
  BY DEF Reserve
<1>2. /\ PoolIInv' /\ Total(size) = HeaderSize + size /\ size \in Nat /\ extents \subseteq extents'
      /\ RelativeBytes(size) \in Nat /\ RelativeBytes(size) + Total(size) <= Limit
  BY <1>1, NewExtent DEF IngestInv, IngestTypes
<1>3. PICK new \in extents' : /\ First(new) = RelativeBytes(size)
                              /\ new.size = Total(size) /\ new.roll = rolls'
                              /\ new \notin extents
  BY <1>1, NewExtent DEF IngestInv, IngestTypes
<1>4. /\ ipc' = "header" /\ destination' = RelativeBytes(size) /\ message' = size
      /\ log_entry'.log_id = Len(roll_of) + 1
      /\ log_entry'.message_lenght = Total(size)
      /\ log_entry'.relative_offset = OutOffset(size)
      /\ UNCHANGED <<memory, queue, delivered>> /\ roll_of' = Append(roll_of, rolls')
  BY DEF Reserve, queueVars
<1>5. log_entry'.relative_offset = RelativeBytes(size)
  <2>1. RelativeBytes(size) < OffsetRange /\ OffsetRange \in Nat \ {0}
    BY <1>2, LimitInBytes, PoolAssumption DEF SoundChannel
  <2>2. RelativeBytes(size) % OffsetRange = RelativeBytes(size)
    BY <1>2, <2>1
  <2> QED BY <1>4, <2>2 DEF OutOffset
<1>6. /\ Len(roll_of) \in Nat /\ Len(roll_of') = Len(roll_of) + 1
      /\ \A n \in 1 .. Len(roll_of) : roll_of'[n] = roll_of[n]
      /\ roll_of'[Len(roll_of) + 1] = rolls'
      /\ rolls \in Nat /\ rolls' \in Nat /\ rolls <= rolls'
  <2>1. roll_of \in Seq(Nat) /\ rolls \in Nat
    BY DEF IngestInv, IngestTypes, Locals, PoolIInv, PoolTypeOK
  <2>2. rolls' \in {rolls, rolls + 1}
    BY <1>1 DEF GetNextSlab
  <2>3. rolls' \in Nat /\ rolls <= rolls'
    BY <2>1, <2>2
  <2>4. roll_of' = Append(roll_of, rolls')
    BY <1>4
  <2> QED BY <2>1, <2>3, <2>4
<1>7. Known' = Known
  BY <1>4 DEF Known
<1>8. Named'
  BY <1>2, <1>6, <1>7 DEF IngestInv, Named, Names
<1>9. Names(log_entry, new)'
  BY <1>3, <1>4, <1>5, <1>6 DEF Names, First
<1>10. ASSUME NEW entry \in Known', Fresh(entry)' PROVE Apart(entry, log_entry')
  <2>1. PICK e \in extents : Names(entry, e)
    BY <1>7, <1>10 DEF IngestInv, Named
  <2>2. /\ e # new /\ e \in extents'
        /\ roll_of'[entry.log_id] = e.roll
    BY <1>2, <1>3, <1>6, <2>1 DEF Names
  <2>3. e.roll <= rolls /\ e.roll \in Nat
    BY DEF IngestInv, IngestTypes, PoolIInv, PlaceInv, PoolTypeOK
  <2>4. e.roll <= new.roll /\ new.roll < e.roll + MaxSlabs
    BY <1>3, <1>6, <1>10, <2>2, <2>3 DEF Fresh
  <2>5. Disjoint(e, new)
    BY <1>2, <2>2, <2>4, PoolNextState DEF SoundChannel, RingOfMaxSlabs
  <2> QED BY <1>3, <1>4, <1>5, <2>1, <2>5 DEF Names, Disjoint, Apart
<1>11. Writing'
  <2>1. /\ ipc' \notin {"payload", "push"}
        /\ log_entry'.relative_offset = destination'
        /\ log_entry'.message_lenght = HeaderSize + message'
    BY <1>2, <1>4, <1>5
  <2>2. destination' + HeaderSize + message' <= Limit
    BY <1>2, <1>4, PoolAssumption
  <2>3. \E e \in extents' : Names(log_entry, e)'
    BY <1>9
  <2> QED BY <1>10, <2>1, <2>2, <2>3 DEF Writing
<1>12. IntactUntilReused'
  <2> SUFFICES ASSUME NEW entry \in Known, rolls' < roll_of'[entry.log_id] + MaxSlabs
               PROVE  Intact(entry)'
    BY <1>7 DEF IntactUntilReused, Known
  <2>1. PICK e \in extents : Names(entry, e)
    BY DEF IngestInv, Named
  <2>2. /\ roll_of'[entry.log_id] = roll_of[entry.log_id]
        /\ roll_of[entry.log_id] \in Nat
    <3>1. e.roll \in Nat
      BY DEF IngestInv, IngestTypes, PoolIInv, PoolTypeOK
    <3> QED BY <1>6, <2>1, <3>1 DEF Names
  <2>3. rolls < roll_of[entry.log_id] + MaxSlabs
    BY <1>6, <2>2, PoolAssumption
  <2> QED BY <1>4, <2>3 DEF IngestInv, IntactUntilReused, Known, Intact
<1> QED BY <1>8, <1>11, <1>12

(* A write disturbs nothing but the message it belongs to.                 *)
LEMMA OverwriteStep ==
  ASSUME IngestInv, ipc # "idle", NEW first \in Nat, NEW size \in Nat,
         destination <= first, first + size <= destination + HeaderSize + message,
         Overwrite(first, size, log_entry.log_id),
         UNCHANGED <<poolVars, destination, message, log_entry, roll_of, queue, delivered>>
  PROVE  /\ (Named /\ IntactUntilReused)'
         /\ Known' = Known
         /\ \A b \in first .. first + size - 1 : memory'[b] = log_entry.log_id
         /\ \A b \in Bytes : b < first \/ first + size <= b => memory'[b] = memory[b]
<1>1. /\ destination \in Nat /\ message \in Nat /\ HeaderSize \in Nat
      /\ log_entry.relative_offset = destination
      /\ log_entry.message_lenght = HeaderSize + message
      /\ destination + HeaderSize + message <= Limit
      /\ \A entry \in Known : Fresh(entry) => Apart(entry, log_entry)
      /\ log_entry.log_id \in 1 .. Len(roll_of) /\ Len(roll_of) \in Nat
      /\ memory \in [Bytes -> 0 .. Len(roll_of)]
  <2>1. /\ destination \in Bytes /\ message \in Nat /\ ipc # "idle"
        /\ roll_of \in Seq(Nat) /\ memory \in [Bytes -> 0 .. Len(roll_of)]
        /\ log_entry.log_id \in 1 .. Len(roll_of)
    BY DEF IngestInv, IngestTypes, Locals
  <2>2. /\ log_entry.relative_offset = destination
        /\ log_entry.message_lenght = HeaderSize + message
        /\ destination + HeaderSize + message <= Limit
        /\ \A entry \in Known : Fresh(entry) => Apart(entry, log_entry)
    BY <2>1 DEF IngestInv, Writing
  <2>3. destination \in Nat /\ HeaderSize \in Nat /\ Len(roll_of) \in Nat
    BY <2>1, LimitInBytes, PoolAssumption
  <2> QED BY <2>1, <2>2, <2>3, Zenon
<1>2. /\ \A b \in first .. first + size - 1 : memory'[b] = log_entry.log_id
      /\ \A b \in Bytes : b < first \/ first + size <= b => memory'[b] = memory[b]
  <2>1. first + size <= Limit /\ Limit \in Nat
    BY <1>1, LimitInBytes
  <2> QED BY <1>1, <2>1, WriteStep
<1>3. Known' = Known
  BY DEF Known
<1>4. UNCHANGED <<extents, rolls>>
  BY DEF poolVars
<1>5. Named'
  BY <1>3, <1>4 DEF IngestInv, Named, Names
<1>6. IntactUntilReused'
  <2> SUFFICES ASSUME NEW entry \in Known, Fresh(entry) PROVE Intact(entry)'
    BY <1>3, <1>4 DEF IntactUntilReused, Known, Fresh
  <2>1. Intact(entry) /\ Apart(entry, log_entry)
    BY <1>1 DEF IngestInv, IntactUntilReused, Known, Fresh
  <2>2. /\ entry.relative_offset \in Nat /\ entry.message_lenght \in Nat
        /\ \A b \in entry.relative_offset .. entry.relative_offset + entry.message_lenght - 1 :
             b \in Bytes
    BY KnownInMemory DEF LogEntries
  <2>3. \A b \in entry.relative_offset .. entry.relative_offset + entry.message_lenght - 1 :
          b < first \/ first + size <= b
    <3>1. \/ entry.relative_offset + entry.message_lenght <= destination
          \/ destination + HeaderSize + message <= entry.relative_offset
      BY <1>1, <2>1 DEF Apart
    <3>2. destination \in Nat /\ HeaderSize \in Nat /\ message \in Nat
      BY <1>1
    <3> QED BY <2>2, <3>1, <3>2
  <2> QED BY <1>2, <2>1, <2>2, <2>3 DEF Intact
<1> QED BY <1>2, <1>3, <1>5, <1>6

LEMMA WriteHeaderStep ==
  ASSUME IngestInv, WriteHeader PROVE (Named /\ Writing /\ IntactUntilReused)'
<1>1. /\ ipc = "header" /\ ipc' = "payload"
      /\ Overwrite(destination, HeaderSize, log_entry.log_id)
      /\ UNCHANGED <<poolVars, destination, message, log_entry, roll_of, queue, delivered>>
  BY DEF WriteHeader, queueVars
<1>2. destination \in Nat /\ message \in Nat /\ HeaderSize \in Nat
  BY LimitInBytes, PoolAssumption DEF IngestInv, IngestTypes, Locals
<1>3. /\ (Named /\ IntactUntilReused)' /\ Known' = Known
      /\ \A b \in destination .. destination + HeaderSize - 1 : memory'[b] = log_entry.log_id
  BY <1>1, <1>2, OverwriteStep
<1>4. UNCHANGED <<extents, rolls>>
  BY <1>1 DEF poolVars
<1>5. Writing'
  BY <1>1, <1>3, <1>4 DEF IngestInv, Writing, Written, Names, Fresh
<1> QED BY <1>3, <1>5

LEMMA WritePayloadStep ==
  ASSUME IngestInv, WritePayload PROVE (Named /\ Writing /\ IntactUntilReused)'
<1>1. /\ ipc = "payload" /\ ipc' = "push"
      /\ Overwrite(destination + HeaderSize, message, log_entry.log_id)
      /\ UNCHANGED <<poolVars, destination, message, log_entry, roll_of, queue, delivered>>
  BY DEF WritePayload, queueVars
<1>2. destination \in Nat /\ message \in Nat /\ HeaderSize \in Nat
  BY LimitInBytes, PoolAssumption DEF IngestInv, IngestTypes, Locals
<1>3. /\ (Named /\ IntactUntilReused)' /\ Known' = Known
      /\ \A b \in destination + HeaderSize .. destination + HeaderSize + message - 1 :
           memory'[b] = log_entry.log_id
      /\ \A b \in Bytes : b < destination + HeaderSize => memory'[b] = memory[b]
  <2>1. /\ destination + HeaderSize \in Nat /\ destination <= destination + HeaderSize
        /\ destination + HeaderSize + message <= destination + HeaderSize + message
        /\ ipc # "idle"
    BY <1>1, <1>2
  <2> QED BY <1>1, <1>2, <2>1, OverwriteStep
<1>4. UNCHANGED <<extents, rolls>>
  BY <1>1 DEF poolVars
<1>5. Written(destination, HeaderSize)'
  <2>1. Written(destination, HeaderSize) /\ destination + HeaderSize + message <= Limit
    BY <1>1 DEF IngestInv, Writing
  <2>2. \A b \in destination .. destination + HeaderSize - 1 :
          b \in Bytes /\ b < destination + HeaderSize
    BY <1>2, <2>1, LimitInBytes
  <2> QED BY <1>1, <1>3, <2>1, <2>2 DEF Written
<1>6. Writing'
  BY <1>1, <1>3, <1>4, <1>5 DEF IngestInv, Writing, Written, Names, Fresh
<1> QED BY <1>3, <1>6

LEMMA PushStep ==
  ASSUME IngestInv, PushEntry PROVE (Named /\ Writing /\ IntactUntilReused)'
<1>1. /\ ipc = "push" /\ ipc' = "idle" /\ UNCHANGED <<extents, rolls, memory, roll_of, delivered>>
      /\ queue' = queue \/ queue' = Append(queue, log_entry)
  BY DEF PushEntry, poolVars, Fifo!Offer, Fifo!Refuse
<1>2. Known' \subseteq Known \cup {log_entry}
  <2>1. queue \in Seq(LogEntries) /\ log_entry \in LogEntries
    BY DEF IngestInv, IngestTypes, Locals
  <2>2. Range(Append(queue, log_entry)) = Range(queue) \cup {log_entry}
    BY <2>1, RangeOfSeq
  <2>3. Range(queue') \subseteq Range(queue) \cup {log_entry}
    BY <1>1, <2>2
  <2> QED BY <1>1, <2>3 DEF Known
<1>3. \E e \in extents : Names(log_entry, e)
  BY <1>1 DEF IngestInv, Writing
<1>4. Intact(log_entry)
  <2>1. /\ Written(destination, HeaderSize) /\ Written(destination + HeaderSize, message)
        /\ log_entry.relative_offset = destination
        /\ log_entry.message_lenght = HeaderSize + message
    BY <1>1 DEF IngestInv, Writing
  <2>2. destination \in Nat /\ message \in Nat /\ HeaderSize \in Nat
    BY LimitInBytes, PoolAssumption DEF IngestInv, IngestTypes, Locals
  <2> QED BY <2>1, <2>2 DEF Written, Intact
<1>5. Named'
  BY <1>1, <1>2, <1>3 DEF IngestInv, Named, Names
<1>6. IntactUntilReused'
  BY <1>1, <1>2, <1>4 DEF IngestInv, IntactUntilReused, Known, Intact
<1> QED BY <1>1, <1>5, <1>6 DEF Writing

LEMMA PopStep ==
  ASSUME IngestInv, PopEntry PROVE (Named /\ Writing /\ IntactUntilReused)'
<1>1. /\ UNCHANGED <<extents, rolls, memory, ipc, destination, message, log_entry, roll_of>>
      /\ queue # << >> /\ queue' = Tail(queue) /\ delivered' = Append(delivered, Head(queue))
  BY DEF PopEntry, poolVars, Fifo!Take
<1>2. Known' = Known
  <2>1. /\ queue \in Seq(LogEntries) /\ delivered \in Seq(LogEntries)
        /\ Head(queue) \in LogEntries
    BY <1>1 DEF IngestInv, IngestTypes, Locals
  <2>2. /\ Range(delivered') = Range(delivered) \cup {Head(queue)}
        /\ Range(queue') \cup {Head(queue)} = Range(queue)
    BY <1>1, <2>1, RangeOfSeq
  <2> QED BY <2>2 DEF Known
<1>3. Named'
  BY <1>1, <1>2 DEF IngestInv, Named, Names
<1>4. Writing'
  BY <1>1, <1>2 DEF IngestInv, Writing, Written, Names, Fresh
<1>5. IntactUntilReused'
  BY <1>1, <1>2 DEF IngestInv, IntactUntilReused, Known, Intact
<1> QED BY <1>3, <1>4, <1>5

LEMMA StepIngestInv == ASSUME SoundChannel PROVE IngestInv /\ [IngestNext]_ingestVars => IngestInv'
<1> SUFFICES ASSUME IngestInv, [IngestNext]_ingestVars PROVE IngestInv'
  OBVIOUS
<1>1. IngestTypes'
  BY TypesStep DEF IngestInv
<1>2. ASSUME UNCHANGED <<extents, rolls, memory, ipc, destination, message, log_entry, roll_of,
                         queue, delivered>>
      PROVE  (Named /\ Writing /\ IntactUntilReused)'
  BY <1>2 DEF IngestInv, Named, Writing, IntactUntilReused, Known, Names, Fresh, Written, Intact
<1>3. ASSUME NEW size \in MessageSizes, TooBig(size) PROVE (Named /\ Writing /\ IntactUntilReused)'
  BY <1>2, <1>3 DEF TooBig, poolVars, queueVars
<1>4. CASE UNCHANGED ingestVars
  BY <1>1, <1>2, <1>4 DEF ingestVars, IngestInv
<1>5. CASE IngestNext
  BY <1>1, <1>3, <1>5, ReserveStep, WriteHeaderStep, WritePayloadStep, PushStep, PopStep
     DEF IngestNext, IngestInv
<1> QED BY <1>4, <1>5

(* Whoever follows the entry of a log it was handed finds the header and   *)
(* the payload of that log there, until the pool has gone round all slabs: *)
(* for every power of two of slabs and every channel below 4 GB            *)
(* (LogServer.cpp:218-243, LogServer.h:107-125).                           *)
THEOREM MessagesStayIntact ==
  ASSUME SoundChannel PROVE IngestSpec => []IntactUntilReused
<1>1. IngestInit => IngestInv
  <2> SUFFICES ASSUME IngestInit PROVE IngestInv
    OBVIOUS
  <2>1. IngestTypes
    BY InitIngestTypes
  <2>2. queue = << >> /\ delivered = << >> /\ ipc = "idle"
    BY DEF IngestInit, Fifo!Init
  <2>3. Known = {}
    BY <2>2 DEF Known, Range
  <2> QED BY <2>1, <2>2, <2>3 DEF IngestInv, Named, Writing, IntactUntilReused, Known
<1>2. IngestInv => IntactUntilReused
  BY DEF IngestInv
<1> QED BY <1>1, <1>2, StepIngestInv, PTL DEF IngestSpec

(* The extents of the path are those of its pool, so that the pool's own   *)
(* theorems hold on the path as well.                                      *)
THEOREM PathUsesThePool == IngestSpec => PoolSpec
<1>1. IngestInit => PoolInit
  BY DEF IngestInit
<1>2. [IngestNext]_ingestVars => [PoolNext]_poolVars
  BY DEF IngestNext, TooBig, Reserve, WriteHeader, WritePayload, PushEntry, PopEntry,
         PoolNext, ingestVars, poolVars
<1> QED BY <1>1, <1>2, PTL DEF IngestSpec, PoolSpec
=============================================================================
