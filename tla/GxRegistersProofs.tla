--------------------------- MODULE GxRegistersProofs --------------------------
(***************************************************************************)
(* BitField and BitFieldArray for words and fields of every width, and the *)
(* registers that are made of them, for every sequence of assignments; and  *)
(* the equations that the combiners' formatters print.                      *)
(***************************************************************************)
EXTENDS TevEquation, BitUtils, TLAPS

(* The fields the theorems are about: those the compiler accepts, but for    *)
(* signed ones of a storage narrower than int, which Value() misreads.       *)
IsLegal(f) ==
  /\ f.pos \in Nat /\ f.bits \in Nat /\ f.w \in Nat /\ f.signed \in BOOLEAN
  /\ IsField(f)
  /\ f.signed => f.w >= IntBits

-----------------------------------------------------------------------------
(* The mask of a field has its bits and no others. *)
LEMMA MaskIs ==
  ASSUME NEW f, IsLegal(f)
  PROVE  GetMask(f) = f.pos..(f.pos + f.bits - 1)
<1>1. ShiftRight(Bits(f.w), f.w - f.bits, f.w) = 0..(f.bits - 1)
  BY DEF IsLegal, IsField, ShiftRight, Bits
<1> QED BY <1>1 DEF GetMask, ShiftLeft, Bits, IsLegal, IsField

(* A bit of a word after an assignment to a field. *)
LEMMA AssignBit ==
  ASSUME NEW f, IsLegal(f), NEW storage, NEW val, NEW b \in Int
  PROVE  b \in Assign(storage, f, val) <=>
           IF b \in f.pos..(f.pos + f.bits - 1) THEN b - f.pos \in val ELSE b \in storage
<1>1. b \in f.pos..(f.pos + f.bits - 1) => b \in Bits(f.w)
  BY DEF IsLegal, IsField, Bits
<1> QED BY <1>1, MaskIs DEF Assign, ShiftLeft

(* A bit of what is read from a field: its own, or the sign's. *)
LEMMA ValueBit ==
  ASSUME NEW f, IsLegal(f), NEW storage
  PROVE  /\ f.signed => Value(storage, f) =
              {b \in Bits(f.w) : (IF b < f.bits THEN b ELSE f.bits - 1) + f.pos \in storage}
         /\ ~f.signed => Value(storage, f) = {b \in 0..(f.bits - 1) : b + f.pos \in storage}
<1>1. CASE f.signed
  <2> DEFINE word == SignExtend(storage, f.w, f.w)
             top == ShiftLeft(word, f.w - f.bits - f.pos, f.w)
  <2>0. ASSUME NEW b \in Bits(f.w) PROVE b \in word <=> b \in storage
    BY DEF SignExtend, Bits, IsLegal
  <2>1. Value(storage, f) = ArithmeticShiftRight(top, f.w - f.bits, f.w)
    <3>1. f.w \in Nat /\ Promoted(f.w, IntBits) = f.w
      BY <1>1 DEF IsLegal, IntBits, Promoted
    <3>2. Value(storage, f) = ArithmeticShiftRight(top, f.w - f.bits, f.w) \cap Bits(f.w)
      BY <1>1, <3>1 DEF Value
    <3> QED BY <3>2 DEF ArithmeticShiftRight
  <2> HIDE DEF word
  <2>2. ASSUME NEW b \in Bits(f.w)
        PROVE  (IF b + (f.w - f.bits) < f.w THEN b + (f.w - f.bits) \in top ELSE f.w - 1 \in top)
                 <=> (IF b < f.bits THEN b ELSE f.bits - 1) + f.pos \in storage
    <3>1. /\ b \in Nat /\ b < f.w /\ f.w \in Nat /\ f.bits \in Nat /\ f.pos \in Nat
          /\ f.bits + f.pos <= f.w /\ f.bits > 0
      BY DEF IsLegal, IsField, Bits
    <3>2. CASE b < f.bits
      <4>1. b + (f.w - f.bits) \in Bits(f.w)
        BY <3>1, <3>2 DEF Bits
      <4>2. (b + (f.w - f.bits)) - (f.w - f.bits - f.pos) = b + f.pos
        BY <3>1
      <4>3. b + (f.w - f.bits) \in top <=> b + f.pos \in storage
        <5>1. b + f.pos \in Bits(f.w)
          BY <3>1, <3>2 DEF Bits
        <5> QED BY <4>1, <4>2, <5>1, <2>0 DEF ShiftLeft
      <4>4. b + (f.w - f.bits) < f.w
        BY <3>1, <3>2
      <4> QED BY <3>2, <4>3, <4>4
    <3>3. CASE ~(b < f.bits)
      <4>1. f.w - 1 \in Bits(f.w)
        BY <3>1 DEF Bits
      <4>2. (f.w - 1) - (f.w - f.bits - f.pos) = f.bits - 1 + f.pos
        BY <3>1
      <4>3. f.w - 1 \in top <=> f.bits - 1 + f.pos \in storage
        <5>1. f.bits - 1 + f.pos \in Bits(f.w)
          BY <3>1 DEF Bits
        <5> QED BY <4>1, <4>2, <5>1, <2>0 DEF ShiftLeft
      <4>4. ~(b + (f.w - f.bits) < f.w)
        BY <3>1, <3>3
      <4> QED BY <3>3, <4>3, <4>4
    <3> QED BY <3>2, <3>3
  <2> HIDE DEF top
  <2> QED BY <1>1, <2>1, <2>2 DEF ArithmeticShiftRight
<1>2. CASE ~f.signed
  <2>1. Value(storage, f) = ShiftRight(storage \cap GetMask(f), f.pos, f.w)
    BY <1>2 DEF Value
  <2> QED BY <1>2, <2>1, MaskIs DEF ShiftRight, Bits, IsLegal, IsField
<1> QED BY <1>1, <1>2 DEF IsLegal

-----------------------------------------------------------------------------
(* BitField's promise: what is assigned to a field is read back, cut to its  *)
(* width and sign extended, whatever was in the word and in the value        *)
(* (operator= and Value() of BitField.h).                                    *)
THEOREM FieldReadsBack ==
  ASSUME NEW f, IsLegal(f), NEW storage, NEW val
  PROVE  Value(Assign(storage, f, val), f) = Kept(f, val)
<1> DEFINE word == Assign(storage, f, val)
<1>1. ASSUME NEW b \in 0..(f.bits - 1) PROVE b + f.pos \in word <=> b \in val
  <2>1. b + f.pos \in Int /\ b + f.pos \in f.pos..(f.pos + f.bits - 1) /\ (b + f.pos) - f.pos = b
    BY DEF IsLegal
  <2> QED BY <2>1, AssignBit
<1>2. CASE f.signed
  <2>1. \A b \in Bits(f.w) : (IF b < f.bits THEN b ELSE f.bits - 1) \in 0..(f.bits - 1)
    BY DEF IsLegal, IsField, Bits
  <2>2. Value(word, f) = {b \in Bits(f.w) : (IF b < f.bits THEN b ELSE f.bits - 1) + f.pos \in word}
    BY <1>2, ValueBit
  <2>3. \A b \in Bits(f.w) : (IF b < f.bits THEN b ELSE f.bits - 1) + f.pos \in word
                             <=> (IF b < f.bits THEN b ELSE f.bits - 1) \in val
    BY <1>1, <2>1
  <2> HIDE DEF word
  <2>4. Value(word, f) = {b \in Bits(f.w) : (IF b < f.bits THEN b ELSE f.bits - 1) \in val}
    BY <2>2, <2>3
  <2>5. Kept(f, val) = {b \in Bits(f.w) : (IF b < f.bits THEN b ELSE f.bits - 1) \in val}
    BY <1>2 DEF Kept
  <2> QED BY <2>4, <2>5 DEF word
<1>3. CASE ~f.signed
  <2>1. Value(word, f) = {b \in 0..(f.bits - 1) : b + f.pos \in word}
    BY <1>3, ValueBit
  <2> HIDE DEF word
  <2>2. Value(word, f) = {b \in 0..(f.bits - 1) : b \in val}
    BY <1>1, <2>1
  <2>3. Kept(f, val) = val \cap 0..(f.bits - 1)
    BY <1>3 DEF Kept, Bits
  <2> QED BY <2>2, <2>3 DEF word
<1> QED BY <1>2, <1>3 DEF IsLegal

(* An assignment to a field changes no field that is disjoint from it.       *)
THEOREM OthersKeep ==
  ASSUME NEW f, NEW g, IsLegal(f), IsLegal(g), Disjoint(f, g), NEW storage, NEW val
  PROVE  Value(Assign(storage, f, val), g) = Value(storage, g)
<1> DEFINE word == Assign(storage, f, val)
<1>1. ASSUME NEW b \in 0..(g.bits - 1) PROVE b + g.pos \in word <=> b + g.pos \in storage
  <2>1. b + g.pos \in Int /\ b + g.pos \notin f.pos..(f.pos + f.bits - 1)
    BY DEF IsLegal, IsField, Disjoint
  <2> QED BY <2>1, AssignBit
<1>2. CASE g.signed
  <2>1. \A b \in Bits(g.w) : (IF b < g.bits THEN b ELSE g.bits - 1) \in 0..(g.bits - 1)
    BY DEF IsLegal, IsField, Bits
  <2>2. /\ Value(storage, g) =
             {b \in Bits(g.w) : (IF b < g.bits THEN b ELSE g.bits - 1) + g.pos \in storage}
        /\ Value(word, g) =
             {b \in Bits(g.w) : (IF b < g.bits THEN b ELSE g.bits - 1) + g.pos \in word}
    BY <1>2, ValueBit
  <2>3. \A b \in Bits(g.w) : (IF b < g.bits THEN b ELSE g.bits - 1) + g.pos \in word
                             <=> (IF b < g.bits THEN b ELSE g.bits - 1) + g.pos \in storage
    BY <1>1, <2>1
  <2> HIDE DEF word
  <2>4. Value(word, g) = Value(storage, g)
    BY <2>2, <2>3
  <2> QED BY <2>4 DEF word
<1>3. CASE ~g.signed
  <2>1. /\ Value(storage, g) = {b \in 0..(g.bits - 1) : b + g.pos \in storage}
        /\ Value(word, g) = {b \in 0..(g.bits - 1) : b + g.pos \in word}
    BY <1>3, ValueBit
  <2> HIDE DEF word
  <2>2. Value(word, g) = Value(storage, g)
    BY <1>1, <2>1
  <2> QED BY <2>2 DEF word
<1> QED BY <1>2, <1>3 DEF IsLegal

(* BitFieldArray's promise: SetValue changes the element at its index and no *)
(* other, for arrays of every width, size and position, but for signed ones  *)
(* narrower than int.                                                        *)
THEOREM ElementsApart ==
  ASSUME NEW a, a.pos \in Nat, a.bits \in Nat, a.size \in Nat, a.w \in Nat,
         a.signed \in BOOLEAN, a.signed => a.w >= IntBits, IsArray(a),
         NEW storage, NEW val, NEW i \in 0..(a.size - 1), NEW j \in 0..(a.size - 1)
  PROVE  ArrayValue(SetValue(storage, a, i, val), a, j) =
           IF i = j THEN Kept(ElementAt(a, i), val) ELSE ArrayValue(storage, a, j)
<1>1. ASSUME NEW k \in 0..(a.size - 1)
      PROVE  a.bits * k \in Nat /\ a.bits * k + a.bits <= a.bits * a.size
  <2>1. PICK n \in Nat : a.size = k + 1 + n
    <3>1. a.size - k - 1 \in Nat /\ a.size = k + 1 + (a.size - k - 1)
      OBVIOUS
    <3> QED BY <3>1
  <2>2. a.bits * (k + 1 + n) = a.bits * k + a.bits + a.bits * n /\ a.bits * n \in Nat
    BY <2>1
  <2> QED BY <2>1, <2>2
<1>2. ASSUME NEW k \in 0..(a.size - 1) PROVE IsLegal(ElementAt(a, k))
  <2> DEFINE p == a.bits * k
             q == a.bits * a.size
  <2>1. p \in Nat /\ q \in Nat /\ p + a.bits <= q
    BY <1>1
  <2>2. q + a.pos <= a.w /\ a.bits > 0
    BY DEF IsArray
  <2>3. ElementAt(a, k) = [pos |-> a.pos + p, bits |-> a.bits, signed |-> a.signed, w |-> a.w]
    BY DEF ElementAt
  <2> HIDE DEF p, q
  <2> QED BY <2>1, <2>2, <2>3 DEF IsLegal, IsField
<1>3. ASSUME NEW k \in 0..(a.size - 1), NEW l \in 0..(a.size - 1), k < l
      PROVE  a.bits * k + a.bits <= a.bits * l
  <2>1. PICK n \in Nat : l = k + 1 + n
    <3>1. l - k - 1 \in Nat /\ l = k + 1 + (l - k - 1)
      BY <1>3
    <3> QED BY <3>1
  <2>2. a.bits * (k + 1 + n) = a.bits * k + a.bits + a.bits * n /\ a.bits * n \in Nat
    BY <2>1
  <2>3. a.bits * k \in Nat
    BY <1>1
  <2> QED BY <2>1, <2>2, <2>3
<1>4. CASE i = j
  BY <1>2, <1>4, FieldReadsBack DEF ArrayValue, SetValue
<1>5. CASE i # j
  <2>1. i < j \/ j < i
    BY <1>5
  <2>2. Disjoint(ElementAt(a, i), ElementAt(a, j))
    <3>1. a.bits * i \in Nat /\ a.bits * j \in Nat
      BY <1>1
    <3> QED BY <2>1, <1>3, <3>1 DEF Disjoint, ElementAt
  <2>3. IsLegal(ElementAt(a, i)) /\ IsLegal(ElementAt(a, j))
    BY <1>2
  <2> QED BY <1>5, <2>2, <2>3, OthersKeep DEF ArrayValue, SetValue
<1> QED BY <1>4, <1>5

-----------------------------------------------------------------------------
(* What a program assigned and may still rely on.                            *)
IInv ==
  /\ register \in DOMAIN Layout
  /\ DOMAIN meant \subseteq DOMAIN Layout[register].field
  /\ KeepsMeaning
  /\ KeepsAddress

LEMMA FieldIsLegal ==
  ASSUME NEW r \in DOMAIN Layout, NEW n \in DOMAIN Layout[r].field
  PROVE  /\ IsLegal(Layout[r].field[n])
         /\ r \in OfBp => Layout[r].field[n].pos + Layout[r].field[n].bits <= 24
         /\ \A m \in DOMAIN Layout[r].field \ {n} :
              Shares(n, m) \/ Disjoint(Layout[r].field[n], Layout[r].field[m])
  BY LayoutsApart DEF IsLegal

LEMMA SharesBothWays ==
  ASSUME NEW n, NEW m, Shares(n, m)
  PROVE  Shares(m, n)
<1>1. {m, n} = {n, m}
  OBVIOUS
<1> QED BY <1>1 DEF Shares

(* No sequence of assignments makes a field read as anything but the last    *)
(* value meant for it, nor the word another register's.                      *)
THEOREM Invariance == Spec => []IInv
<1>1. Init => IInv
  <2> SUFFICES ASSUME Init PROVE IInv
    OBVIOUS
  <2>1. register \in DOMAIN Layout /\ DOMAIN meant = {}
    BY ChosenExist DEF Init
  <2>2. hex = start
    BY DEF Init
  <2> QED BY <2>1, <2>2 DEF IInv, KeepsMeaning, KeepsAddress
<1>2. IInv /\ [Next]_vars => IInv'
  <2> SUFFICES ASSUME IInv, [Next]_vars PROVE IInv'
    OBVIOUS
  <2>1. ASSUME NEW name \in DOMAIN Layout[register].field, NEW val, Set(name, val)
        PROVE  IInv'
    <3> DEFINE f == Layout[register].field[name]
               kept == {n \in DOMAIN meant : ~Shares(n, name)} \cup {name}
    <3>1. register' = register /\ start' = start /\ hex' = Assign(hex, f, val)
      BY <2>1 DEF Set, Field
    <3>2. meant' = [n \in kept |-> IF n = name THEN Kept(f, val) ELSE meant[n]]
      BY <2>1 DEF Set, Field
    <3>3. register \in DOMAIN Layout /\ DOMAIN meant \subseteq DOMAIN Layout[register].field
      BY DEF IInv
    <3>4. IsLegal(f)
      BY <3>3, FieldIsLegal
    <3>5. DOMAIN meant' = kept /\ kept \subseteq DOMAIN Layout[register].field
      BY <3>2, <3>3
    <3>6. ASSUME NEW n \in kept PROVE Value(hex', Layout[register].field[n]) = meant'[n]
      <4> DEFINE g == Layout[register].field[n]
      <4>1. CASE n = name
        BY <3>1, <3>2, <3>4, <4>1, FieldReadsBack
      <4>2. CASE n # name
        <5>1. n \in DOMAIN meant /\ ~Shares(n, name)
          BY <4>2
        <5>2. IsLegal(g) /\ Disjoint(f, g)
          <6>1. ~Shares(name, n)
            BY <5>1, SharesBothWays
          <6>2. n \in DOMAIN Layout[register].field \ {name}
            BY <3>3, <4>2, <5>1
          <6> QED BY <3>3, <6>1, <6>2, FieldIsLegal
        <5>3. Value(Assign(hex, f, val), g) = Value(hex, g)
          BY <3>4, <5>2, OthersKeep
        <5>4. Value(hex, g) = meant[n]
          BY <5>1 DEF IInv, KeepsMeaning, Field
        <5> QED BY <3>1, <3>2, <4>2, <5>3, <5>4
      <4> QED BY <4>1, <4>2
    <3>7. KeepsMeaning'
      <4> HIDE DEF kept
      <4> QED BY <3>1, <3>5, <3>6 DEF KeepsMeaning, Field
    <3>8. KeepsAddress'
      <4> SUFFICES ASSUME register \in OfBp PROVE hex' \cap (24..31) = start \cap (24..31)
        BY <3>1 DEF KeepsAddress
      <4>1. f.pos + f.bits <= 24
        BY <3>3, FieldIsLegal
      <4>2. \A b \in 24..31 : b \in hex' <=> b \in hex
        <5> TAKE b \in 24..31
        <5>1. b \in Int /\ b \notin f.pos..(f.pos + f.bits - 1)
          BY <3>4, <4>1 DEF IsLegal
        <5> HIDE DEF f
        <5> QED BY <3>1, <3>4, <5>1, AssignBit
      <4>3. hex \cap (24..31) = start \cap (24..31)
        BY DEF IInv, KeepsAddress
      <4> QED BY <4>2, <4>3
    <3> QED BY <3>1, <3>3, <3>5, <3>7, <3>8 DEF IInv
  <2>2. CASE UNCHANGED vars
    BY <2>2 DEF vars, IInv, KeepsMeaning, KeepsAddress, Field
  <2> QED BY <2>1, <2>2 DEF Next
<1> QED BY <1>1, <1>2, PTL DEF Spec

(* Every field of every union reads as what was last assigned to it.         *)
THEOREM MeaningKept == Spec => []KeepsMeaning
  BY Invariance, PTL DEF IInv

(* No assignment to a field changes which register a word is loaded into.    *)
THEOREM AddressKept == Spec => []KeepsAddress
  BY Invariance, PTL DEF IInv

-----------------------------------------------------------------------------
(* ExtractBits' promise, for a type no narrower than int: the unsigned field *)
(* of the bits from begin to end (BitUtils.h).                               *)
THEOREM ExtractBitsIsField ==
  ASSUME NEW w \in Nat, NEW int \in Nat, int <= w,
         NEW begin \in Nat, NEW end \in Nat, begin <= end, end < w, NEW src
  PROVE  ExtractBits(src, begin, end, w, int) =
           Value(src, [pos |-> begin, bits |-> end - begin + 1, signed |-> FALSE, w |-> w])
<1> DEFINE f == [pos |-> begin, bits |-> end - begin + 1, signed |-> FALSE, w |-> w]
           top == ShiftLeft(src, w - 1 - end, w)
<1>1. IsLegal(f)
  BY DEF IsLegal, IsField
<1>2. Value(src, f) = {b \in 0..(end - begin) : b + begin \in src}
  <2>1. ~f.signed /\ f.bits - 1 = end - begin /\ f.pos = begin
    OBVIOUS
  <2> HIDE DEF f
  <2> QED BY <1>1, <2>1, ValueBit
<1>3. ExtractBits(src, begin, end, w, int) = {b \in Bits(w) : b + (w - end + begin - 1) \in top}
  BY DEF ExtractBits, Promoted, ShiftRight
<1>4. ASSUME NEW b \in Bits(w)
      PROVE  b + (w - end + begin - 1) \in top <=> b \in 0..(end - begin) /\ b + begin \in src
  <2>1. b + (w - end + begin - 1) - (w - 1 - end) = b + begin
    BY DEF Bits
  <2>2. b + (w - end + begin - 1) \in Bits(w) <=> b \in 0..(end - begin)
    BY DEF Bits
  <2> QED BY <2>1, <2>2 DEF ShiftLeft
<1>5. 0..(end - begin) \subseteq Bits(w)
  BY DEF Bits
<1> HIDE DEF top, f
<1>6. ExtractBits(src, begin, end, w, int) = Value(src, f)
  BY <1>2, <1>3, <1>4, <1>5
<1> QED BY <1>6 DEF f

(* For a type at most half as wide as int, u8 and u16, the bits above end    *)
(* are extracted too: the cast to Result comes after both shifts.            *)
THEOREM NarrowKeepsAbove ==
  ASSUME NEW w \in Nat, NEW int \in Nat, 2 * w <= int,
         NEW begin \in Nat, NEW end \in Nat, begin <= end, end < w, NEW src \in Words(w)
  PROVE  ExtractBits(src, begin, end, w, int) = ShiftRight(src, begin, w)
<1> DEFINE top == ShiftLeft(src, w - 1 - end, int)
<1>1. w < int
  OBVIOUS
<1>2. ExtractBits(src, begin, end, w, int) =
        {b \in Bits(int) : b + (w - end + begin - 1) \in top} \cap Bits(w)
  BY <1>1 DEF ExtractBits, Promoted, ShiftRight
<1>3. ASSUME NEW b \in Bits(w)
      PROVE  b \in Bits(int) /\ (b + (w - end + begin - 1) \in top <=> b + begin \in src)
  <2>1. b + (w - end + begin - 1) - (w - 1 - end) = b + begin
    BY DEF Bits
  <2>2. b + begin \in src => b + begin < w
    BY DEF Words, Bits
  <2>3. b + begin < w => b + (w - end + begin - 1) \in Bits(int)
    BY DEF Bits
  <2> QED BY <1>1, <2>1, <2>2, <2>3 DEF ShiftLeft, Bits
<1> HIDE DEF top
<1> QED BY <1>2, <1>3 DEF ShiftRight

(* RotateRight undoes RotateLeft, for every width and amount (BitUtils.h).   *)
THEOREM RotationsInverse ==
  ASSUME NEW w \in Nat \ {0}, NEW amount \in Nat, NEW value \in Words(w)
  PROVE  RotateRight(RotateLeft(value, amount, w), amount, w) = value
<1> DEFINE n == amount % w
           turned == RotateLeft(value, amount, w)
<1>1. n \in Nat /\ n < w
  OBVIOUS
<1>2. CASE n = 0
  BY <1>2 DEF RotateLeft, RotateRight
<1>3. CASE n # 0
  <2>1. turned = ShiftLeft(value, n, w) \cup ShiftRight(value, w - n, w)
    BY <1>3 DEF RotateLeft
  <2>2. RotateRight(turned, amount, w) = ShiftRight(turned, n, w) \cup ShiftLeft(turned, w - n, w)
    BY <1>3 DEF RotateRight
  <2> HIDE DEF n, turned
  <2>3. ASSUME NEW c \in Bits(w)
        PROVE  c \in turned <=> IF c < n THEN c - n + w \in value ELSE c - n \in value
    <3>1. c + (w - n) = c - n + w
      BY <1>1 DEF Bits
    <3>2. c < n => c - n \notin value
      BY <1>1 DEF Words, Bits
    <3>3. c >= n => c - n + w \notin value
      BY <1>1 DEF Words, Bits
    <3>4. c < n \/ c >= n
      BY <1>1 DEF Bits
    <3> QED BY <1>1, <2>1, <3>1, <3>2, <3>3, <3>4 DEF ShiftLeft, ShiftRight, Bits
  <2>4. turned \subseteq Bits(w)
    BY <2>1 DEF ShiftLeft, ShiftRight
  <2>5. ASSUME NEW b \in Bits(w)
        PROVE  b \in RotateRight(turned, amount, w) <=> b \in value
    <3>1. b \in RotateRight(turned, amount, w) <=> b + n \in turned \/ b - (w - n) \in turned
      BY <2>2 DEF ShiftRight, ShiftLeft
    <3>2. CASE b + n < w
      <4>1. b + n \in Bits(w) /\ ~(b + n < n) /\ (b + n) - n = b
        BY <1>1, <3>2 DEF Bits
      <4>2. b - (w - n) \notin turned
        BY <1>1, <2>4, <3>2 DEF Bits
      <4> QED BY <2>3, <3>1, <4>1, <4>2
    <3>3. CASE ~(b + n < w)
      <4>1. b - (w - n) \in Bits(w) /\ b - (w - n) < n /\ (b - (w - n)) - n + w = b
        BY <1>1, <3>3 DEF Bits
      <4>2. b + n \notin turned
        BY <1>1, <2>4, <3>3 DEF Bits
      <4> QED BY <2>3, <3>1, <4>1, <4>2
    <3> QED BY <3>2, <3>3
  <2>6. RotateRight(turned, amount, w) \subseteq Bits(w) /\ value \subseteq Bits(w)
    BY <2>2 DEF ShiftRight, ShiftLeft, Words
  <2>7. RotateRight(turned, amount, w) = value
    BY <2>5, <2>6
  <2> QED BY <2>7 DEF turned
<1> QED BY <1>2, <1>3
-----------------------------------------------------------------------------
(* The names of the arguments of a combiner all differ, so that what a     *)
(* reader takes a name for is the argument it was printed for.             *)
Distinct(names) == \A i, j \in DOMAIN names : names[i] = names[j] => i = j

LEMMA NameReads ==
  ASSUME NEW names, NEW v, Distinct(names),
         NEW i \in DOMAIN names
  PROVE  Env(names, v)[names[i]] = v[i]
<1> DEFINE j == CHOOSE j \in DOMAIN names : names[j] = names[i]
<1>1. j \in DOMAIN names /\ names[j] = names[i]
  OBVIOUS
<1>2. j = i
  BY <1>1 DEF Distinct
<1>3. Env(names, v)[names[i]] = v[j]
  BY DEF Env
<1> QED BY <1>2, <1>3

LEMMA Negated ==
  \A x \in Int : -x = 0 - x
  OBVIOUS

(* Only the constants have the names of constants. *)
LEMMA ColorNames ==
  /\ DOMAIN alt_names = 1..16
  /\ \A i, j \in 1..16 : alt_names[i] = alt_names[j] => i = j
  /\ \A i \in 1..16 : alt_names[i] # None
  /\ \A i \in 1..16 :
       (alt_names[i] = "1" <=> i = 13) /\ (alt_names[i] = ".5" <=> i = 14) /\ (alt_names[i] = "0" <=> i = 16)
  BY SMTT(60) DEF alt_names, None

LEMMA AlphaNames ==
  LET names == TevAlphaArg.names IN
  /\ DOMAIN names = 1..8
  /\ \A i, j \in 1..8 : names[i] = names[j] => i = j
  /\ \A i \in 1..8 : names[i] \notin {None, "1", ".5", "0"}
  BY SMTT(60) DEF TevAlphaArg, Enum, None

(* The enumerators that the formatters treat apart. *)
LEMMA EnumNumbers ==
  /\ TevBias.member.Zero = 0 /\ TevBias.member.AddHalf = 1
  /\ TevOp.member.Sub = 1 /\ TevOutput.member.Prev = 0 /\ TevScale.member.Scale1 = 0
  /\ Arg.Zero = 15 /\ Arg.One = 12 /\ Arg.Half = 13 /\ AlphaArg.Zero = 7
  BY DEF TevBias, TevOp, TevOutput, TevScale, Arg, AlphaArg, TevColorArg, TevAlphaArg, Enum

(* What is printed around a term: d is printed or zero, the term is worth X *)
(* or not printed and zero; then the whole is worth Total.                 *)
IsCombiner(comb) ==
  comb.op \in 0..1 /\ comb.bias \in 0..2 /\ comb.scale \in 0..3 /\ comb.dest \in 0..3
IsName(d, env, D) ==
  D \in Int /\ (d # None => NameValue(d, env) = D) /\ (d = None => D = 0)
IsTerm(term, env, X) ==
  X \in Int /\ TermValue(term, env) = X

Total(comb, D, X) ==
  (4 * D + (IF comb.op = 1 THEN -X ELSE X) + <<0, 8, -8>>[comb.bias + 1]) * <<2, 4, 8, 1>>[comb.scale + 1]

(* The value of each form of a term. *)
LEMMA NothingReads ==
  ASSUME NEW term, NEW env, term.form = None
  PROVE  TermValue(term, env) = 0
  BY DEF TermValue, None

LEMMA NoneReads ==
  ASSUME NEW env
  PROVE  TermValue(Term(None, <<>>), env) = 0
  BY DEF TermValue, Term, None

LEMMA AverageReads ==
  ASSUME NEW env, NEW x, NEW y
  PROVE  TermValue(Term("average", <<x, y>>), env) = 2 * (NameValue(x, env) + NameValue(y, env))
  BY DEF TermValue, Term, None

LEMMA LerpReads ==
  ASSUME NEW env, NEW x, NEW y, NEW z
  PROVE  TermValue(Term("lerp", <<x, y, z>>), env) =
           (4 - NameValue(z, env)) * NameValue(x, env) + NameValue(z, env) * NameValue(y, env)
  BY DEF TermValue, Term, None

LEMMA PlainReads ==
  ASSUME NEW env, NEW x
  PROVE  TermValue(Term("plain", <<x>>), env) = 4 * NameValue(x, env)
  BY DEF TermValue, Term, None

LEMMA ComplementReads ==
  ASSUME NEW env, NEW x, NEW y
  PROVE  TermValue(Term("complement", <<x, y>>), env) = (4 - NameValue(x, env)) * NameValue(y, env)
  BY DEF TermValue, Term, None

LEMMA ProductReads ==
  ASSUME NEW env, NEW x, NEW y
  PROVE  TermValue(Term("product", <<x, y>>), env) = NameValue(x, env) * NameValue(y, env)
  BY DEF TermValue, Term, None

LEMMA AroundReads ==
  ASSUME NEW comb, NEW env, NEW d, NEW term, NEW D, NEW X,
         IsCombiner(comb), IsName(d, env, D), IsTerm(term, env, X)
  PROVE  ReadValue(Around(comb, d, term), env) = Total(comb, D, X)
<1> DEFINE eq == Around(comb, d, term)
           term_value == TermValue(eq.term, env)
           d_value == IF eq.d = None THEN 0 ELSE 4 * NameValue(eq.d, env)
           signed == IF eq.sign = "-" THEN -term_value ELSE term_value
           bias == CASE eq.bias \in {"+.5", ".5"} -> 8
                     [] eq.bias = "-.5" -> -8
                     [] OTHER -> 0
           sum == d_value + signed + bias
<1> USE DEF IsCombiner, IsName, IsTerm
<1>1. eq.d = d /\ eq.term = term
  BY DEF Around
<1>3. term_value = X
  BY <1>1
<1>4. d_value = 4 * D
  BY <1>1
<1>5. signed = IF comb.op = 1 THEN -X ELSE X
  <2>1. eq.sign = (IF term.form # None /\ (d # None \/ comb.op = 1)
                     THEN (IF comb.op = 1 THEN "-" ELSE "+") ELSE None)
    BY EnumNumbers DEF Around
  <2>2. CASE term.form # None
    BY <1>3, <2>1, <2>2 DEF None
  <2>3. CASE term.form = None
    <3>1. eq.sign # "-"
      BY <2>1, <2>3 DEF None
    <3>2. X = 0
      BY <2>3, NothingReads
    <3>3. -X = 0
      <4>1. -X = 0 - X
        BY Negated
      <4> HIDE DEF eq
      <4> QED BY <4>1, <3>2
    <3> HIDE DEF eq
    <3> QED BY <1>3, <3>1, <3>2, <3>3
  <2> QED BY <2>2, <2>3
<1>6. bias = <<0, 8, -8>>[comb.bias + 1]
  <2> DEFINE has_some == term.form # None \/ d # None
  <2>1. eq.bias = (CASE comb.bias # 0 /\ has_some -> IF comb.bias = 1 THEN "+.5" ELSE "-.5"
                     [] comb.bias # 0 /\ ~has_some -> IF comb.bias = 1 THEN ".5" ELSE "-.5"
                     [] ~(comb.bias # 0) /\ has_some -> None
                     [] OTHER -> "0")
    BY EnumNumbers DEF Around, None
  <2>2. comb.bias = 0 \/ comb.bias = 1 \/ comb.bias = 2
    OBVIOUS
  <2> HIDE DEF eq
  <2>3. CASE comb.bias = 0
    BY <2>1, <2>3 DEF None
  <2>4. CASE comb.bias = 1
    BY <2>1, <2>4
  <2>5. CASE comb.bias = 2
    BY <2>1, <2>5
  <2> QED BY <2>2, <2>3, <2>4, <2>5
<1>7. eq.scale = IF comb.scale = 0 THEN None ELSE TevScale.names[comb.scale + 1]
  BY EnumNumbers DEF Around, None
<1>8. ReadValue(eq, env) = (CASE eq.scale = None -> 2 * sum
                              [] eq.scale = "2" -> 4 * sum
                              [] eq.scale = "4" -> 8 * sum
                              [] OTHER -> sum)
  BY DEF ReadValue
<1>9. TevScale.names[2] = "2" /\ TevScale.names[3] = "4" /\ TevScale.names[4] = "0.5"
  BY DEF TevScale, Enum
<1>10. sum \in Int /\ sum = 4 * D + (IF comb.op = 1 THEN -X ELSE X) + <<0, 8, -8>>[comb.bias + 1]
  <2>1. /\ <<0, 8, -8>>[comb.bias + 1] \in Int
    OBVIOUS
  <2> HIDE DEF d_value, signed, bias
  <2> QED BY <1>4, <1>5, <1>6, <2>1
<1> HIDE DEF sum, eq
<1>11. ReadValue(eq, env) = sum * <<2, 4, 8, 1>>[comb.scale + 1]
  <2>1. CASE comb.scale = 0
    BY <1>7, <1>8, <1>10, <2>1 DEF None
  <2>2. CASE comb.scale = 1
    BY <1>7, <1>8, <1>9, <1>10, <2>2 DEF None
  <2>3. CASE comb.scale = 2
    BY <1>7, <1>8, <1>9, <1>10, <2>3 DEF None
  <2>4. CASE comb.scale = 3
    BY <1>7, <1>8, <1>9, <1>10, <2>4 DEF None
  <2> QED BY <2>1, <2>2, <2>3, <2>4
<1> QED BY <1>10, <1>11 DEF eq, Total

(* ColorCombiner's formatter: a case for each of the terms it may print,    *)
(* with the products it leaves out worth zero.                              *)
LEMMA ColorReads ==
  ASSUME NEW cc \in Combiners(ColorArgs), NEW v \in ColorValues
  PROVE  ReadValue(ColorEquation(cc), Env(alt_names, v)) = Combination(cc, v)
<1> DEFINE env == Env(alt_names, v)
           Name(arg) == alt_names[arg + 1]
           V(arg) == v[arg + 1]
           d == IF cc.d = 15 THEN None ELSE Name(cc.d)
           has_ac == cc.a # 15 /\ cc.c # 12
           has_bc == cc.b # 15 /\ cc.c # 15
           term ==
             CASE ~has_ac /\ ~has_bc -> Term(None, <<>>)
               [] has_ac /\ has_bc /\ cc.c = 13 -> Term("average", <<Name(cc.a), Name(cc.b)>>)
               [] has_ac /\ has_bc /\ cc.c # 13 -> Term("lerp", <<Name(cc.a), Name(cc.b), Name(cc.c)>>)
               [] has_ac /\ ~has_bc /\ cc.c = 15 -> Term("plain", <<Name(cc.a)>>)
               [] has_ac /\ ~has_bc /\ cc.c = 13 -> Term("product", <<".5", Name(cc.a)>>)
               [] has_ac /\ ~has_bc /\ cc.c \notin {15, 13} -> Term("complement", <<Name(cc.c), Name(cc.a)>>)
               [] ~has_ac /\ has_bc /\ cc.c = 12 -> Term("plain", <<Name(cc.b)>>)
               [] OTHER -> Term("product", <<Name(cc.c), Name(cc.b)>>)
           X == (4 - V(cc.c)) * V(cc.a) + V(cc.c) * V(cc.b)
<1>1. /\ cc.a \in 0..15 /\ cc.b \in 0..15 /\ cc.c \in 0..15 /\ cc.d \in 0..15
      /\ cc.op \in 0..1 /\ cc.bias \in 0..2 /\ cc.scale \in 0..3 /\ cc.dest \in 0..3
  BY ArgsAreNumbered DEF Combiners
<1>2. v \in [1..16 -> Int] /\ V(12) = 4 /\ V(13) = 2 /\ V(15) = 0
  BY ColorsHaveValues
<1>3. ASSUME NEW arg \in 0..15
      PROVE  Name(arg) # None /\ NameValue(Name(arg), env) = V(arg) /\ V(arg) \in Int
  <2>1. arg + 1 \in 1..16
    OBVIOUS
  <2>2. env[Name(arg)] = V(arg)
    <3> DEFINE i == arg + 1
    <3>1. i \in DOMAIN alt_names
      BY ColorNames
    <3>2. Distinct(alt_names)
      BY ColorNames DEF Distinct
    <3> HIDE DEF i
    <3>3. Env(alt_names, v)[alt_names[i]] = v[i]
      BY <3>1, <3>2, NameReads, Zenon
    <3> QED BY <3>3 DEF i
  <2>3. Name(arg) # None
    BY <2>1, ColorNames
  <2>4. NameValue(Name(arg), env) = V(arg)
    <3>1. (Name(arg) = "1" <=> arg = 12) /\ (Name(arg) = ".5" <=> arg = 13) /\ (Name(arg) = "0" <=> arg = 15)
      BY <2>1, ColorNames
    <3> HIDE DEF Name, V, env
    <3> QED BY <1>2, <2>2, <3>1 DEF NameValue
  <2>5. V(arg) \in Int
    BY <1>2, <2>1
  <2> QED BY <2>3, <2>4, <2>5
<1>4. ColorEquation(cc) = Around(cc, d, term)
  BY EnumNumbers DEF ColorEquation, HasA, HasB
<1> HIDE DEF Name, V, env
<1>6. TermValue(term, env) = X
  <2>0. NameValue(".5", env) = 2
    BY DEF NameValue
  <2>1. CASE has_ac /\ has_bc /\ cc.c = 13
    <3>1. term = Term("average", <<Name(cc.a), Name(cc.b)>>)
      BY <2>1
    <3>2. TermValue(term, env) = 2 * (V(cc.a) + V(cc.b))
      <4> HIDE DEF term
      <4> QED BY <1>1, <1>3, <3>1, AverageReads
    <3> QED BY <1>1, <1>2, <1>3, <2>1, <3>2
  <2>2. CASE has_ac /\ has_bc /\ cc.c # 13
    <3>1. term = Term("lerp", <<Name(cc.a), Name(cc.b), Name(cc.c)>>)
      BY <2>2
    <3> HIDE DEF term
    <3> QED BY <1>1, <1>3, <3>1, LerpReads
  <2>3. CASE has_ac /\ ~has_bc /\ cc.c = 15
    <3>1. term = Term("plain", <<Name(cc.a)>>)
      BY <2>3
    <3>2. TermValue(term, env) = 4 * V(cc.a)
      <4> HIDE DEF term
      <4> QED BY <1>1, <1>3, <3>1, PlainReads
    <3> QED BY <1>1, <1>2, <1>3, <2>3, <3>2
  <2>4. CASE has_ac /\ ~has_bc /\ cc.c = 13
    <3>1. term = Term("product", <<".5", Name(cc.a)>>)
      BY <2>4
    <3>2. TermValue(term, env) = 2 * V(cc.a)
      <4> HIDE DEF term
      <4> QED BY <1>1, <1>3, <2>0, <3>1, ProductReads
    <3>3. V(cc.b) = 0
      BY <1>2, <2>4
    <3> QED BY <1>1, <1>2, <1>3, <2>4, <3>2, <3>3
  <2>5. CASE has_ac /\ ~has_bc /\ cc.c \notin {15, 13}
    <3>1. term = Term("complement", <<Name(cc.c), Name(cc.a)>>)
      BY <2>5
    <3>2. TermValue(term, env) = (4 - V(cc.c)) * V(cc.a)
      <4> HIDE DEF term
      <4> QED BY <1>1, <1>3, <3>1, ComplementReads
    <3>3. V(cc.b) = 0
      BY <1>2, <2>5
    <3>4. V(cc.a) \in Int /\ V(cc.b) \in Int /\ V(cc.c) \in Int
      BY <1>1, <1>3
    <3> HIDE DEF term
    <3> QED BY <3>2, <3>3, <3>4
  <2>6. CASE ~has_ac /\ has_bc /\ cc.c = 12
    <3>1. term = Term("plain", <<Name(cc.b)>>)
      BY <2>6
    <3>2. TermValue(term, env) = 4 * V(cc.b)
      <4> HIDE DEF term
      <4> QED BY <1>1, <1>3, <3>1, PlainReads
    <3> QED BY <1>1, <1>2, <1>3, <2>6, <3>2
  <2>7. CASE ~has_ac /\ has_bc /\ cc.c # 12
    <3>1. term = Term("product", <<Name(cc.c), Name(cc.b)>>)
      BY <2>7
    <3>2. TermValue(term, env) = V(cc.c) * V(cc.b)
      <4> HIDE DEF term
      <4> QED BY <1>1, <1>3, <3>1, ProductReads
    <3>3. V(cc.a) = 0
      BY <1>2, <2>7
    <3>4. V(cc.a) \in Int /\ V(cc.b) \in Int /\ V(cc.c) \in Int
      BY <1>1, <1>3
    <3> HIDE DEF term
    <3> QED BY <3>2, <3>3, <3>4
  <2>8. CASE ~has_ac /\ ~has_bc
    <3>1. term = Term(None, <<>>)
      BY <2>8
    <3>2. TermValue(term, env) = 0
      BY <3>1, NoneReads
    <3>3. X = 0
      <4>1. CASE cc.c = 12 /\ cc.b = 15
        BY <1>1, <1>2, <1>3, <4>1
      <4>2. CASE cc.a = 15 /\ cc.b = 15
        BY <1>1, <1>2, <1>3, <4>2
      <4>3. CASE cc.a = 15 /\ cc.c = 15
        <5>1. V(cc.a) = 0 /\ V(cc.c) = 0 /\ V(cc.b) \in Int
          BY <1>1, <1>2, <1>3, <4>3
        <5> QED BY <5>1
      <4> QED BY <2>8, <4>1, <4>2, <4>3
    <3> QED BY <3>2, <3>3
  <2> QED BY <2>1, <2>2, <2>3, <2>4, <2>5, <2>6, <2>7, <2>8
<1>7. X \in Int
  <2>1. V(cc.a) \in Int /\ V(cc.b) \in Int /\ V(cc.c) \in Int
    BY <1>1, <1>3
  <2> QED BY <2>1
<1>8. Combination(cc, v) = Total(cc, V(cc.d), X)
  BY DEF Combination, Total, V
<1> DEFINE D == V(cc.d)
<1>9. IsCombiner(cc)
  BY <1>1 DEF IsCombiner
<1>10. IsName(d, env, D)
  BY <1>1, <1>2, <1>3 DEF IsName
<1>11. IsTerm(term, env, X)
  BY <1>6, <1>7 DEF IsTerm
<1> HIDE DEF d, term, X, D
<1>12. ReadValue(Around(cc, d, term), env) = Total(cc, D, X)
  BY <1>9, <1>10, <1>11, AroundReads
<1> QED BY <1>4, <1>8, <1>12 DEF env, D
(* AlphaCombiner's formatter, in the same way. *)
LEMMA AlphaReads ==
  ASSUME NEW ac \in Combiners(AlphaArgs), NEW v \in AlphaValues
  PROVE  ReadValue(AlphaEquation(ac), Env(TevAlphaArg.names, v)) = Combination(ac, v)
<1> DEFINE env == Env(TevAlphaArg.names, v)
           Name(arg) == TevAlphaArg.names[arg + 1]
           V(arg) == v[arg + 1]
           d == IF ac.d = 7 THEN None ELSE Name(ac.d)
           has_ac == ac.a # 7
           has_bc == ac.b # 7 /\ ac.c # 7
           term ==
             CASE ~has_ac /\ ~has_bc -> Term(None, <<>>)
               [] has_ac /\ has_bc -> Term("lerp", <<Name(ac.a), Name(ac.b), Name(ac.c)>>)
               [] has_ac /\ ~has_bc /\ ac.c = 7 -> Term("plain", <<Name(ac.a)>>)
               [] has_ac /\ ~has_bc /\ ac.c # 7 -> Term("complement", <<Name(ac.c), Name(ac.a)>>)
               [] OTHER -> Term("product", <<Name(ac.c), Name(ac.b)>>)
           X == (4 - V(ac.c)) * V(ac.a) + V(ac.c) * V(ac.b)
<1>1. /\ ac.a \in 0..7 /\ ac.b \in 0..7 /\ ac.c \in 0..7 /\ ac.d \in 0..7
      /\ ac.op \in 0..1 /\ ac.bias \in 0..2 /\ ac.scale \in 0..3 /\ ac.dest \in 0..3
  BY ArgsAreNumbered DEF Combiners
<1>2. v \in [1..8 -> Int] /\ V(7) = 0
  BY AlphasHaveValues
<1>3. ASSUME NEW arg \in 0..7
      PROVE  Name(arg) # None /\ NameValue(Name(arg), env) = V(arg) /\ V(arg) \in Int
  <2>1. arg + 1 \in 1..8
    OBVIOUS
  <2>2. env[Name(arg)] = V(arg)
    <3> DEFINE i == arg + 1
    <3>1. i \in DOMAIN TevAlphaArg.names
      BY AlphaNames
    <3>2. Distinct(TevAlphaArg.names)
      BY AlphaNames DEF Distinct
    <3> HIDE DEF i
    <3>3. Env(TevAlphaArg.names, v)[TevAlphaArg.names[i]] = v[i]
      BY <3>1, <3>2, NameReads, Zenon
    <3> QED BY <3>3 DEF i
  <2>3. Name(arg) # None
    BY <2>1, AlphaNames
  <2>4. NameValue(Name(arg), env) = V(arg)
    <3>1. Name(arg) # "1" /\ Name(arg) # ".5" /\ Name(arg) # "0"
      BY <2>1, AlphaNames
    <3> HIDE DEF Name, V, env
    <3> QED BY <1>2, <2>2, <3>1 DEF NameValue
  <2>5. V(arg) \in Int
    BY <1>2, <2>1
  <2> QED BY <2>3, <2>4, <2>5
<1>4. AlphaEquation(ac) = Around(ac, d, term)
  BY EnumNumbers DEF AlphaEquation
<1> HIDE DEF Name, V, env
<1>6. TermValue(term, env) = X
  <2>1. CASE has_ac /\ has_bc
    <3>1. term = Term("lerp", <<Name(ac.a), Name(ac.b), Name(ac.c)>>)
      BY <2>1
    <3> HIDE DEF term
    <3> QED BY <1>1, <1>3, <3>1, LerpReads
  <2>2. CASE has_ac /\ ~has_bc /\ ac.c = 7
    <3>1. term = Term("plain", <<Name(ac.a)>>)
      BY <2>2
    <3>2. TermValue(term, env) = 4 * V(ac.a)
      <4> HIDE DEF term
      <4> QED BY <1>1, <1>3, <3>1, PlainReads
    <3> QED BY <1>1, <1>2, <1>3, <2>2, <3>2
  <2>3. CASE has_ac /\ ~has_bc /\ ac.c # 7
    <3>1. term = Term("complement", <<Name(ac.c), Name(ac.a)>>)
      BY <2>3
    <3>2. TermValue(term, env) = (4 - V(ac.c)) * V(ac.a)
      <4> HIDE DEF term
      <4> QED BY <1>1, <1>3, <3>1, ComplementReads
    <3>3. V(ac.b) = 0
      BY <1>2, <2>3
    <3>4. V(ac.a) \in Int /\ V(ac.b) \in Int /\ V(ac.c) \in Int
      BY <1>1, <1>3
    <3> HIDE DEF term
    <3> QED BY <3>2, <3>3, <3>4
  <2>4. CASE ~has_ac /\ has_bc
    <3>1. term = Term("product", <<Name(ac.c), Name(ac.b)>>)
      BY <2>4
    <3>2. TermValue(term, env) = V(ac.c) * V(ac.b)
      <4> HIDE DEF term
      <4> QED BY <1>1, <1>3, <3>1, ProductReads
    <3>3. V(ac.a) = 0
      BY <1>2, <2>4
    <3>4. V(ac.a) \in Int /\ V(ac.b) \in Int /\ V(ac.c) \in Int
      BY <1>1, <1>3
    <3> HIDE DEF term
    <3> QED BY <3>2, <3>3, <3>4
  <2>5. CASE ~has_ac /\ ~has_bc
    <3>1. term = Term(None, <<>>)
      BY <2>5
    <3>2. TermValue(term, env) = 0
      BY <3>1, NoneReads
    <3>3. V(ac.a) = 0 /\ V(ac.b) \in Int /\ V(ac.c) \in Int /\ (V(ac.b) = 0 \/ V(ac.c) = 0)
      BY <1>1, <1>2, <1>3, <2>5
    <3>4. X = 0
      BY <3>3
    <3> QED BY <3>2, <3>4
  <2> QED BY <2>1, <2>2, <2>3, <2>4, <2>5
<1>7. X \in Int
  <2>1. V(ac.a) \in Int /\ V(ac.b) \in Int /\ V(ac.c) \in Int
    BY <1>1, <1>3
  <2> QED BY <2>1
<1>8. Combination(ac, v) = Total(ac, V(ac.d), X)
  BY DEF Combination, Total, V
<1> DEFINE D == V(ac.d)
<1>9. IsCombiner(ac)
  BY <1>1 DEF IsCombiner
<1>10. IsName(d, env, D)
  BY <1>1, <1>2, <1>3 DEF IsName
<1>11. IsTerm(term, env, X)
  BY <1>6, <1>7 DEF IsTerm
<1> HIDE DEF d, term, X, D
<1>12. ReadValue(Around(ac, d, term), env) = Total(ac, D, X)
  BY <1>9, <1>10, <1>11, AroundReads
<1> QED BY <1>4, <1>8, <1>12 DEF env, D

(* The equation printed for a stage (the formatters of ColorCombiner and    *)
(* AlphaCombiner) is worth what its comment says, for every argument, bias, *)
(* operation and scale, and whatever the names in it are worth.            *)
THEOREM EquationsExact == Spec => []EquationExact
<1>1. ColorsExact /\ AlphasExact
  BY ColorReads, AlphaReads DEF ColorsExact, AlphasExact
<1>2. EquationExact
  BY <1>1 DEF EquationExact
<1> QED BY <1>2, PTL
=============================================================================
