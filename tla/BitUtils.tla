------------------------------- MODULE BitUtils -------------------------------
(***************************************************************************)
(* The bit arithmetic of Common/BitUtils.h, on the words of BitFields.  An *)
(* integral type T has w bits.  C++ computes in int what is narrower, so   *)
(* ExtractBits is given the width of int too; the others cut what they     *)
(* return to what int added.                                               *)
(***************************************************************************)
EXTENDS BitFields

(***************************************************************************)
(* The static_asserts of the forms whose positions are template arguments. *)
(***************************************************************************)
IsBit(bit, w) == bit < w
IsRange(begin, end, w) == begin < end /\ begin < w /\ end < w

ExtractBit(src, bit, w) == ShiftRight(src, bit, w) \cap {0}

(***************************************************************************)
(* The shift to the left drops what lies above end only if it is computed  *)
(* in w bits.                                                              *)
(***************************************************************************)
ExtractBits(src, begin, end, w, int) ==
  LET p == Promoted(w, int)
  IN ShiftRight(ShiftLeft(src, w - 1 - end, p), w - end + begin - 1, p) \cap Bits(w)

RotateLeft(value, amount, w) ==
  LET n == amount % w
  IN IF n = 0 THEN value ELSE ShiftLeft(value, n, w) \cup ShiftRight(value, w - n, w)

RotateRight(value, amount, w) ==
  LET n == amount % w
  IN IF n = 0 THEN value ELSE ShiftRight(value, n, w) \cup ShiftLeft(value, w - n, w)

(***************************************************************************)
(* One is carried into a bit when every bit below it is one.               *)
(***************************************************************************)
PlusOne(word, w) == {b \in Bits(w) : (b \in word) # (Bits(b) \subseteq word)}
IsValidLowMask(mask, w) == mask \cap PlusOne(mask, w) = {}
=============================================================================
