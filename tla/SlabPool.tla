------------------------------- MODULE SlabPool -------------------------------
(***************************************************************************)
(* Network::SlabPool (engine/Network/include/LogServer.h): the shared      *)
(* memory of one queue, a ring of slabs in which get_next_slab() reserves  *)
(* the bytes of each message.  Bytes are abstract units: SlabSize of them  *)
(* make a slab and HeaderSize of them a SharedLogEntryHeader.              *)
(*                                                                         *)
(* extents and rolls are history: what was reserved, and how often the     *)
(* pool has moved on to another slab.                                      *)
(***************************************************************************)
EXTENDS Bits

CONSTANTS SlabSize,      \* slab_size
          MaxSlabs,      \* max_slabs
          HeaderSize,    \* sizeof(SharedLogEntryHeader)
          MessageSizes,  \* the sizes messages have
          OffsetRange,   \* 2^32: out_offset is a uint32_t
          WordBits,      \* 64, the bits of a size_t
          MaxRolls       \* bound on the slabs the pool goes through

VARIABLES write_index, current_offset, extents, rolls
poolVars == <<write_index, current_offset, extents, rolls>>

ASSUME PoolAssumption ==
  /\ SlabSize \in Nat \ {0} /\ MaxSlabs \in Nat \ {0} /\ HeaderSize \in Nat \ {0}
  /\ MessageSizes \subseteq Nat
  /\ OffsetRange \in Nat \ {0} /\ MaxRolls \in Nat
  /\ WordBits \in Nat /\ MaxSlabs < Pow2[WordBits]

-----------------------------------------------------------------------------
Mask(x, y) == And[WordBits][x][y]
PowerOfTwo == MaxSlabs \in Powers(WordBits)

NextIndexMutant(i) == Mask(i + 1, MaxSlabs)
NextIndex(i) == Mask(i + 1, MaxSlabs - 1)

Total(size) == HeaderSize + size

Fits(size) == Total(size) <= SlabSize
RollsMutant(size) == current_offset + size > SlabSize
Rolls(size) == current_offset + Total(size) > SlabSize

(* The slab and the place in it where the next message goes.               *)
Slab(size)   == IF Rolls(size) THEN NextIndex(write_index) ELSE write_index
Offset(size) == IF Rolls(size) THEN 0 ELSE current_offset

(* The byte that is returned, and the uint32_t that is reported for it.    *)
RelativeBytes(size) == Slab(size) * SlabSize + Offset(size)
OutOffset(size)     == RelativeBytes(size) % OffsetRange

PoolInit == write_index = 0 /\ current_offset = 0 /\ extents = {} /\ rolls = 0

(* A call that returns nullptr, ~Fits, changes nothing.                    *)
GetNextSlab(size) ==
  /\ Fits(size)
  /\ Rolls(size) => rolls < MaxRolls
  /\ write_index' = Slab(size)
  /\ current_offset' = Offset(size) + Total(size)
  /\ rolls' = IF Rolls(size) THEN rolls + 1 ELSE rolls
  /\ extents' = extents \cup
       {[slab |-> Slab(size), offset |-> Offset(size), size |-> Total(size), roll |-> rolls']}

PoolNext == \E size \in MessageSizes : GetNextSlab(size)

PoolSpec == PoolInit /\ [][PoolNext]_poolVars

-----------------------------------------------------------------------------
First(e) == e.slab * SlabSize + e.offset
Disjoint(e, f) == First(e) + e.size <= First(f) \/ First(f) + f.size <= First(e)

(* The members of SlabPool keep their types (LogServer.h:68-71).           *)
PoolTypeOK ==
  /\ write_index \in 0 .. MaxSlabs - 1
  /\ current_offset \in 0 .. SlabSize
  /\ rolls \in 0 .. MaxRolls
  /\ extents \subseteq [slab : 0 .. MaxSlabs - 1, offset : 0 .. SlabSize,
                        size : Nat, roll : 0 .. MaxRolls]

(* No message is written outside the mapping that InitializeSharedMemory   *)
(* made, nor across the end of its slab (LogServer.h:107-125, 129).        *)
WithinTheMapping ==
  \A e \in extents : /\ e.offset + e.size <= SlabSize
                     /\ First(e) + e.size <= SlabSize * MaxSlabs

(* The slabs form a ring of MaxSlabs: a message keeps its bytes until the  *)
(* pool has moved on MaxSlabs times (LogServer.h:114, README.md:49, 105).  *)
RingOfMaxSlabs ==
  \A e, f \in extents :
    e # f /\ e.roll <= f.roll /\ f.roll < e.roll + MaxSlabs => Disjoint(e, f)
=============================================================================
