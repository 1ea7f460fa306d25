------------------------------ MODULE Align32 ------------------------------
(***************************************************************************)
(* align32pow2 of lib/Common.h, which sizes the frame array and the token  *)
(* bag: an unsigned of Width bits is rounded up to a power of two by       *)
(* decrementing, smearing the highest bit downwards, and incrementing.     *)
(*                                                                         *)
(* A word is the set of the places of its one bits: {} is 0 and {k} is 2   *)
(* to the k.  Adding and subtracting 1 carry and borrow from place to      *)
(* place and drop what leaves the word.                                    *)
(***************************************************************************)
EXTENDS Naturals

CONSTANT Width       (* bits of the unsigned type: 32 in the code          *)

ASSUME WidthAssumption == Width \in 1 .. 32

Bits == 0 .. Width - 1

(* A bit stays as it is if there is a zero below it to end the carry, a    *)
(* one below it to end the borrow.                                         *)
Succ(x, w) == {i \in 0 .. w - 1 : i \in x <=> \E j \in 0 .. i - 1 : j \notin x}
Pred(x, w) == {i \in 0 .. w - 1 : i \in x <=> \E j \in 0 .. i - 1 : j \in x}

(* The highest bit in which they differ decides.                           *)
Less(x, y) == \E i \in y \ x : \A j \in x \ y : j < i

(* A size_t argument is cut to the type of the parameter.                  *)
Cut(x) == x \cap Bits

SlipNotDecremented(x) == x
Decrement(x) == Pred(x, Width)

(* x | x >> s *)
OrShift(x, s) == x \cup {i \in Bits : i + s \in x}

Smear(x) == OrShift(OrShift(OrShift(OrShift(OrShift(x, 1), 2), 4), 8), 16)

SlipWider(x) == Succ(x, Width + 1)
Increment(x) == Succ(x, Width)

align32pow2(x) == Increment(Smear(Decrement(Cut(x))))
=============================================================================
