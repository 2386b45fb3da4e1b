----------------------------- MODULE BitFields -----------------------------
(***************************************************************************)
(* BitField and BitFieldArray of Common/BitField.h: a run of bits of a     *)
(* storage word, read and assigned as if it were a member of its own.      *)
(*                                                                         *)
(* A word is the set of its bits that are one, so a storage of any width   *)
(* is handled without its number.  A field is a record: where it starts,   *)
(* how many bits it has, whether T is signed, and the width w of its       *)
(* StorageType.                                                            *)
(***************************************************************************)
EXTENDS Integers, FiniteSets

Bits(w) == 0..(w - 1)
Words(w) == SUBSET Bits(w)

(***************************************************************************)
(* The operators of C++ on a word of w bits: <<, >> of an unsigned word,   *)
(* and >> of a signed one, which repeats the top bit.                      *)
(***************************************************************************)
ShiftLeft(word, n, w) == {b \in Bits(w) : b - n \in word}
ShiftRight(word, n, w) == {b \in Bits(w) : b + n \in word}
ArithmeticShiftRight(word, n, w) ==
  {b \in Bits(w) : IF b + n < w THEN b + n \in word ELSE w - 1 \in word}

(***************************************************************************)
(* The fields the compiler accepts: the static_asserts.  sizeof(T) is not  *)
(* kept apart from the storage, since bits <= 8 * sizeof(T).               *)
(***************************************************************************)
IsField(f) == /\ f.bits + f.pos <= f.w
              /\ f.pos < f.w
              /\ f.bits > 0

GetMask(f) == ShiftLeft(ShiftRight(Bits(f.w), f.w - f.bits, f.w), f.pos, f.w)

(***************************************************************************)
(* operator=(T val): only the bits of the field change.                    *)
(***************************************************************************)
Assign(storage, f, val) ==
  (storage \ GetMask(f)) \cup (ShiftLeft(val, f.pos, f.w) \cap GetMask(f))

(***************************************************************************)
(* C++ computes in int what is narrower, with the sign repeated above it.  *)
(***************************************************************************)
IntBits == 32
Promoted(w, int) == IF w < int THEN int ELSE w
SignExtend(word, w, to) == {b \in Bits(to) : (IF b < w THEN b ELSE w - 1) \in word}

(***************************************************************************)
(* Value(): a signed field is pushed to the top of the word and brought    *)
(* back by an arithmetic shift, an unsigned one is masked and shifted.     *)
(* The bits above a signed field are pushed out only of a storage that is  *)
(* no narrower than int, as all of the repository's are.                   *)
(***************************************************************************)
ValueUnsigned(storage, f) ==  \* mutant: no sign
  ShiftRight(storage \cap GetMask(f), f.pos, f.w)
Value(storage, f) ==
  LET p == Promoted(f.w, IntBits)
      shift_amount == f.w - f.bits
      top == ShiftLeft(SignExtend(storage, f.w, p), shift_amount - f.pos, p)
  IN IF f.signed
     THEN ArithmeticShiftRight(top, shift_amount, p) \cap Bits(f.w)
     ELSE ShiftRight(storage \cap GetMask(f), f.pos, f.w)

(***************************************************************************)
(* What a field keeps of a value: as many bits as it has, and, when it is  *)
(* signed, the last of them above.                                         *)
(***************************************************************************)
Kept(f, val) ==
  IF f.signed
  THEN {b \in Bits(f.w) : (IF b < f.bits THEN b ELSE f.bits - 1) \in val}
  ELSE val \cap Bits(f.bits)

Disjoint(f, g) == \/ f.pos + f.bits <= g.pos
                  \/ g.pos + g.bits <= f.pos

(***************************************************************************)
(* BitFieldArray: size fields of the same width, one after the other.      *)
(* What the proxies and iterators of the array return and assign is the    *)
(* element at their index; a range-for visits 0 to size - 1 in order.      *)
(***************************************************************************)
IsArray(a) == /\ a.bits * a.size + a.pos <= a.w
              /\ a.pos < a.w
              /\ a.bits > 0
              /\ a.size <= a.w
              /\ a.size > 0

ElementAt(a, index) ==
  [pos |-> a.pos + a.bits * index, bits |-> a.bits, signed |-> a.signed, w |-> a.w]

SetValue(storage, a, index, val) == Assign(storage, ElementAt(a, index), val)
ArrayValue(storage, a, index) == Value(storage, ElementAt(a, index))

Iterated(storage, a) == [n \in 1..a.size |-> ArrayValue(storage, a, n - 1)]
=============================================================================
