-------------------------------- MODULE Bits --------------------------------
(***************************************************************************)
(* Unsigned numbers as the code takes them apart: powers of two and the    *)
(* bitwise "&".  The recursions are functions, so that they can be proved  *)
(* about (BitsProof).                                                      *)
(***************************************************************************)
EXTENDS Integers

Pow2[k \in Nat] == IF k = 0 THEN 1 ELSE 2 * Pow2[k - 1]

Powers(bits) == {Pow2[k] : k \in 0 .. bits}

(* "&" of two numbers, of their lowest bits.                               *)
And[bits \in Nat] ==
  [x \in Nat |-> [y \in Nat |->
     IF bits = 0 THEN 0
     ELSE (x % 2) * (y % 2) + 2 * And[bits - 1][x \div 2][y \div 2]]]
=============================================================================
