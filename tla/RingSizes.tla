------------------------------ MODULE RingSizes ------------------------------
(***************************************************************************)
(* The numbers of a MagicRingBuffer and of the memory it is mapped from.   *)
(***************************************************************************)
EXTENDS Integers

CONSTANTS Sizes,        \* the sizes that are asked for, in bytes
          Granularity,  \* 64 KB, which a size must be a multiple of
          DwordRange,   \* 2^32: the section's size is cut to a DWORD
          CursorRange,  \* 2^64, the range of head and tail
          Word,         \* 4: the bytes that peek() reads
          MaxReceived   \* bound on the bytes of the stream

(* A size is bit_floor of something, hence a power of two or 0, so that    *)
(* & (size - 1) is the remainder of the division by it, and it divides the *)
(* range of the cursors (LogServer.cpp:92).                                *)
ASSUME RingAssumption ==
  /\ Sizes \subseteq Nat /\ Granularity \in Nat \ {0} /\ DwordRange \in Nat \ {0}
  /\ CursorRange \in Nat \ {0} /\ Word \in Nat /\ MaxReceived \in Nat
  /\ \A s \in Sizes \ {0} : s < CursorRange /\ CursorRange % s = 0
=============================================================================
