--------------------------- MODULE CpuTestsProofs ---------------------------
(* What TLC checks of GetTimebase, of load.cpp, of what the integer and the         *)
(* floating point tests expect, and of those that set a mode of the CPU, for words,  *)
(* doubles, registers and addresses of any size: Timebase, LoadAsm, CpuReferences    *)
(* and CpuModes.                                                            *)
EXTENDS Timebase, LoadAsm, CpuReferences, CpuModes, WellFoundedInduction, TLAPS

(***************************************************************************)
(* Timebase                                                                *)
(***************************************************************************)
(* Chronological order is transitive on pairs of integers. *)
LEMMA BeforeTransitive ==
    ASSUME NEW s \in Int \X Int, NEW t \in Int \X Int, NEW u \in Int \X Int,
           Before(s, t), Before(t, u)
    PROVE  Before(s, u)
  BY DEF Before, Upper, Lower

(* Counter values are pairs of integers. *)
LEMMA TimesArePairs == Time \subseteq Int \X Int
  BY WordSize, UpperBound DEF Time

(* The registers hold integers. *)
LEMMA RegistersAreInts == TypeOK => r0 \in Int /\ r3 \in Int /\ r4 \in Int
  BY WordSize, UpperBound DEF TypeOK

(* The time a tick leads to is a value of the counter, and a later one. *)
LEMMA TickAdvances ==
    ASSUME tb \in Time, Tick
    PROVE  tb' \in Time /\ Before(tb, tb')
  BY WordSize, UpperBound DEF Tick, Time, Before, Upper, Lower

(* The initial states satisfy the inductive invariant. *)
LEMMA InitIInv == Init => IInv
  BY WordSize, UpperBound DEF Init, IInv, TypeOK, Time, Before, Upper, Lower

(* Every step of the hardware and of GetTimebase preserves it. *)
LEMMA NextIInv == IInv /\ [Next]_vars => IInv'
<1> SUFFICES ASSUME IInv, [Next]_vars PROVE IInv'
  OBVIOUS
<1> USE WordSize, UpperBound DEF IInv, TypeOK, Sampled
<1>1. CASE Tick
  <2>1. tb \in Time /\ tb' \in Time /\ Before(tb, tb')
    BY <1>1, TickAdvances
  <2>2. UNCHANGED <<pc, r0, r4, r3, entry, last>>
    BY <1>1 DEF Tick
  <2>3. ASSUME NEW t \in Int \X Int, Before(t, tb) PROVE Before(t, tb')
    <3>1. tb \in Int \X Int /\ tb' \in Int \X Int
      BY <2>1, TimesArePairs
    <3> QED BY ONLY <2>1, <2>3, <3>1, BeforeTransitive
  <2>4. TypeOK'
    BY <2>1, <2>2
  <2>5. Before(entry, tb)' /\ (pc = "idle" => Before(last, tb))'
    BY <2>2, <2>3, TimesArePairs
  <2>6. ASSUME NEW u \in 0 .. MaxUpper, Sampled(u) PROVE Sampled(u)'
    <3>1. u \in Int /\ r4 \in Int
      BY RegistersAreInts
    <3>2. <<u, r4>> \in Int \X Int
      BY ONLY <3>1
    <3> QED BY <2>2, <2>3, <2>6, <3>2
  <2>7. Upper(tb) <= Upper(tb')
    BY <2>1, TimesArePairs DEF Before, Upper, Lower
  <2>8. (pc = "mftb4" => r0 <= Upper(tb))'
    <3>1. Upper(tb) \in Int /\ Upper(tb') \in Int /\ r0 \in Int
      BY <2>1, TimesArePairs DEF Upper
    <3> QED BY <2>2, <2>7, <3>1
  <2> QED BY <2>2, <2>4, <2>5, <2>6, <2>8
<1>2. CASE Call
  BY <1>2 DEF Call, Before, Upper, Lower, Time
<1>3. CASE ReadUpper
  BY <1>3 DEF ReadUpper, Before, Upper, Lower, Time
<1>4. CASE ReadLower
  <2>1. Upper(tb) \in 0 .. MaxUpper /\ <<Upper(tb), Lower(tb)>> = tb
    BY DEF Time, Upper, Lower
  <2>2. Before(tb, tb)
    BY TimesArePairs DEF Before, Upper, Lower
  <2>3. Sampled(Upper(tb))'
    BY <1>4, <2>1, <2>2 DEF ReadLower
  <2>4. TypeOK'
    BY <1>4 DEF ReadLower, Lower, Time
  <2> QED BY <1>4, <2>1, <2>3, <2>4 DEF ReadLower
<1>5. CASE ReadUpperAgain
  <2>1. PICK u \in 0 .. MaxUpper : Sampled(u)
    BY <1>5 DEF ReadUpperAgain
  <2>2. u <= Upper(tb)
    BY <2>1, TimesArePairs DEF Before, Upper, Lower
  <2>3. Sampled(u)'
    BY <1>5, <2>1, <2>2 DEF ReadUpperAgain
  <2>4. TypeOK'
    BY <1>5, TimesArePairs DEF ReadUpperAgain, Upper, Time
  <2>5. pc' = "cmpw" /\ UNCHANGED <<tb, entry, last>> /\ pc # "idle"
    BY <1>5 DEF ReadUpperAgain
  <2>6. \E v \in 0 .. MaxUpper : Sampled(v)'
    BY <2>3
  <2>7. Before(entry, tb)' /\ Before(last, entry)'
    BY <2>5
  <2> QED BY <2>4, <2>5, <2>6, <2>7
<1>6. CASE Compare
  BY <1>6 DEF Compare, Before, Upper, Lower, Time, Stable
<1>7. CASE Return
  BY <1>7 DEF Return, Before, Upper, Lower, Time, Returned
<1>8. CASE UNCHANGED vars
  BY <1>8 DEF vars, Before, Upper, Lower, Time
<1> QED BY <1>1, <1>2, <1>3, <1>4, <1>5, <1>6, <1>7, <1>8 DEF Next

(* The inductive invariant holds in every reachable state. *)
THEOREM Invariance == Spec => []IInv
  BY InitIInv, NextIInv, PTL DEF Spec

(* A value about to be returned lies between the counter's value when        *)
(* GetTimebase was entered and its value now, however the carry interleaves. *)
THEOREM NeverTorn == Spec => []NotTorn
<1>1. IInv => NotTorn
  BY WordSize, UpperBound DEF IInv, TypeOK, NotTorn, Sampled, Returned, Before, Upper, Lower, Time
<1> QED BY <1>1, Invariance, PTL

(* Successive calls of GetTimebase return values in chronological order. *)
THEOREM NeverBackwards == Spec => Monotonic
<1>1. IInv /\ [Next]_vars => [Before(last, last')]_vars
  <2> SUFFICES ASSUME IInv, Next PROVE Before(last, last') \/ UNCHANGED vars
    OBVIOUS
  <2>1. last \in Int \X Int
    BY TimesArePairs DEF IInv, TypeOK
  <2>2. CASE Return
    <3>1. /\ pc = "beqlr" /\ last' = <<r3, r4>>
      BY <2>2 DEF Return, Returned
    <3>2. Before(last, entry) /\ Before(entry, <<r3, r4>>)
      <4>1. Before(last, entry) /\ r0 = r3
        BY <3>1 DEF IInv
      <4>2. PICK u \in 0 .. MaxUpper : Sampled(u)
        BY <3>1 DEF IInv
      <4>3. u = r3
        BY <3>1, <4>1, <4>2, UpperBound DEF Sampled, IInv, TypeOK
      <4> QED BY <4>1, <4>2, <4>3 DEF Sampled
    <3>3. entry \in Int \X Int /\ <<r3, r4>> \in Int \X Int
      <4>1. entry \in Int \X Int
        BY TimesArePairs DEF IInv, TypeOK
      <4>2. r3 \in Int /\ r4 \in Int
        BY RegistersAreInts DEF IInv
      <4> QED BY ONLY <4>1, <4>2
    <3> QED BY <2>1, <3>1, <3>2, <3>3, BeforeTransitive
  <2>3. CASE ~Return
    <3>1. last' = last
      BY <2>3 DEF Next, Tick, Call, ReadUpper, ReadLower, ReadUpperAgain, Compare
    <3> QED BY <2>1, <3>1 DEF Before, Upper, Lower
  <2> QED BY <2>2, <2>3
<1> QED BY <1>1, Invariance, PTL DEF Spec, Monotonic

(***************************************************************************)
(* LoadAsm                                                                 *)
(***************************************************************************)
(* What the sixteen loads have in common: an updated base is an output of its own, *)
(* and base, index and displacement together are the current element's address.   *)
WellFormed(t) ==
    /\ t.bytes \in {Word, Half, Byte} /\ t.base \in {"address", "offset"}
    /\ t.update \in BOOLEAN /\ t.update => t.base \in t.outs
    /\ \/ /\ t.index = NoIndex /\ t.base = "address"
          /\ (t.start = "first" /\ t.disp = "steps") \/ (t.start = "current" /\ t.disp = "none")
       \/ /\ t.index \in {"address", "offset"} \ {t.base} /\ t.start = "first"

LEMMA LoadsWellFormed == \A t \in Loads : WellFormed(t)
<1> USE DEF WellFormed, Direct, Indexed, Load, NoIndex, Word, Half, Byte
<1>1. WellFormed(lwz) BY DEF lwz
<1>2. WellFormed(lwzu) BY DEF lwzu
<1>3. WellFormed(lwzx) BY DEF lwzx
<1>4. WellFormed(lwzux) BY DEF lwzux
<1>5. WellFormed(lhz) BY DEF lhz
<1>6. WellFormed(lhzx) BY DEF lhzx
<1>7. WellFormed(lhzu) BY DEF lhzu
<1>8. WellFormed(lhzux) BY DEF lhzux
<1>9. WellFormed(lha) BY DEF lha
<1>10. WellFormed(lhax) BY DEF lhax
<1>11. WellFormed(lhau) BY DEF lhau
<1>12. WellFormed(lhaux) BY DEF lhaux
<1>13. WellFormed(lbz) BY DEF lbz
<1>14. WellFormed(lbzx) BY DEF lbzx
<1>15. WellFormed(lbzu) BY DEF lbzu
<1>16. WellFormed(lbzux) BY DEF lbzux
<1> HIDE DEF WellFormed
<1> QED BY <1>1, <1>2, <1>3, <1>4, <1>5, <1>6, <1>7, <1>8, <1>9, <1>10, <1>11, <1>12,
           <1>13, <1>14, <1>15, <1>16 DEF Loads

(* Whatever the registers, base and index or displacement add up to the address of  *)
(* the current element, unless the base is in register 0.                     *)
LEMMA EffectiveIsElement ==
    ASSUME NEW t \in Loads, NEW k \in Nat, NEW r \in Allocations(t), r[t.base] # 0
    PROVE  Effective(t, k, r) = AddressOf(t, k) /\ AddressOf(t, k) \in Int
<1>1. WellFormed(t)
  BY LoadsWellFormed
<1>2. AddressOf(t, k) \in Int /\ Array \in Int
  BY <1>1, ArrayAddress DEF WellFormed, AddressOf, Word, Half, Byte
<1>3. Given(t, k)["offset"] = AddressOf(t, k) - Array
  BY DEF Given
<1>4. Given(t, k)["address"] = IF t.start = "first" THEN Array ELSE AddressOf(t, k)
  BY DEF Given
<1> QED BY <1>1, <1>2, <1>3, <1>4 DEF WellFormed, Effective, Displacement, NoIndex

(* An array is indexed from 1 to its length. *)
LEMMA ValuesAreSequences ==
    \A bytes \in {Word, Half, Byte} :
        Len(values(bytes)) \in Nat /\ DOMAIN values(bytes) = 1 .. Len(values(bytes))
<1> USE DEF values, Word, Half, Byte
<1>1. Len(values(Word)) = 4 /\ DOMAIN values(Word) = 1 .. 4
  OBVIOUS
<1>2. Len(values(Half)) = 6 /\ DOMAIN values(Half) = 1 .. 6
  OBVIOUS
<1>3. Len(values(Byte)) = 256 /\ DOMAIN values(Byte) = 1 .. 256
  OBVIOUS
<1> HIDE DEF values
<1> QED BY <1>1, <1>2, <1>3

(* What is loaded from the address of an element is that element, once it is stored. *)
LEMMA LoadedIsElement ==
    ASSUME NEW t \in Loads, NEW k \in DOMAIN values(t.bytes)
    PROVE  k \in Nat /\ Loaded(t, AddressOf(t, k), TRUE) = <<Expected(t, k)>>
<1>1. t.bytes \in {1, 2, 4}
  BY LoadsWellFormed DEF WellFormed, Word, Half, Byte
<1>2. k \in Nat \ {0}
  BY <1>1, ValuesAreSequences DEF Word, Half, Byte
<1>3. AddressOf(t, k) >= Array /\ ((AddressOf(t, k) - Array) \div t.bytes) + 1 = k
  BY <1>1, <1>2, ArrayAddress DEF AddressOf
<1> QED BY <1>2, <1>3 DEF Loaded

(* An allocation with a base that is not in register 0 passes both DO_TESTs. *)
LEMMA BaseElsewherePasses ==
    ASSUME NEW t \in Loads, NEW k \in DOMAIN values(t.bytes), NEW r \in Allocations(t),
           r[t.base] # 0, stored = TRUE
    PROVE  Passes(t, k, r)
<1>1. Effective(t, k, r) = AddressOf(t, k)
  BY EffectiveIsElement, LoadedIsElement
<1>2. Loaded(t, AddressOf(t, k), stored) = <<Expected(t, k)>>
  BY LoadedIsElement
<1>3. ~(t.update /\ (r[t.base] = 0 \/ r[t.base] = r["result"]))
  BY LoadsWellFormed DEF WellFormed, Allocations
<1> QED BY <1>1, <1>2, <1>3 DEF Passes, After

(* The test called is one of the sixteen and its counter is a number. *)
LoadIInv ==
    /\ load \in Loads \cup {None}
    /\ n \in Nat
    /\ stored \in BOOLEAN
    /\ LoadsSound

LEMMA LoadStep == LoadIInv /\ [LoadNext]_loadVars => LoadIInv'
<1> SUFFICES ASSUME LoadIInv, [LoadNext]_loadVars PROVE LoadIInv'
  OBVIOUS
<1> USE DEF LoadIInv, LoadsSound
<1>1. CASE CallLoad
  BY <1>1 DEF CallLoad
<1>2. CASE Iterate
  <2>1. load \in Loads /\ n + 1 \in DOMAIN values(load.bytes)
    <3>1. load \in Loads /\ load.bytes \in {Word, Half, Byte}
      BY <1>2, LoadsWellFormed DEF Iterate, WellFormed
    <3>2. n < Len(values(load.bytes))
      BY <1>2 DEF Iterate
    <3> QED BY <3>1, <3>2, ValuesAreSequences
  <2>2. PICK r \in Allocations(load) :
          regs' = r /\ outcome' = IF Passes(load, n + 1, r) THEN "passed" ELSE "failed"
    BY <1>2 DEF Iterate
  <2>3. r[load.base] # 0 /\ stored => Passes(load, n + 1, r)
    BY <2>1, BaseElsewherePasses
  <2>4. load' = load /\ n' = n + 1 /\ stored' = TRUE /\ (readEarly' <=> ~stored)
    BY <1>2 DEF Iterate
  <2>5. LoadsSound'
    <3>1. CASE Passes(load, n + 1, r)
      BY <2>2, <3>1
    <3>2. CASE ~Passes(load, n + 1, r)
      <4>1. r[load.base] = 0 \/ ~stored
        BY <2>3, <3>2, Zenon
      <4>2. regs'[load'.base] = r[load.base]
        BY <2>2, <2>4, Zenon
      <4> QED BY <2>4, <4>1, <4>2, Zenon
    <3> QED BY <3>1, <3>2
  <2>6. load' \in Loads \cup {None} /\ stored' \in BOOLEAN
    BY <2>4, Zenon
  <2>7. n' \in Nat
    BY <2>4
  <2> QED BY <2>5, <2>6, <2>7, Zenon
<1>3. CASE ReturnLoad
  BY <1>3 DEF ReturnLoad
<1>4. CASE UNCHANGED loadVars
  BY <1>4 DEF loadVars
<1> QED BY <1>1, <1>2, <1>3, <1>4 DEF LoadNext

(* For any number of registers and any place of the array, a subtest of load.cpp    *)
(* fails only with a base in register 0, or before its array was stored.        *)
THEOREM LoadsAreSound == LoadSpec => []LoadsSound
<1>1. LoadInit => LoadIInv
  <2>1. LoadInit => n \in Nat /\ outcome # "failed"
    BY DEF LoadInit
  <2>2. LoadInit => load \in Loads \cup {None} /\ stored \in BOOLEAN
    BY Zenon DEF LoadInit
  <2> QED BY <2>1, <2>2, Zenon DEF LoadIInv, LoadsSound
<1>2. LoadIInv => LoadsSound
  BY DEF LoadIInv
<1> QED BY <1>1, <1>2, LoadStep, PTL DEF LoadSpec

(***************************************************************************)
(* CpuReferences                                                           *)
(***************************************************************************)
(* The mask GetHelperMask makes is the run from bit mb to bit me, around the end if  *)
(* it has to be: for every mb and me.                                        *)
LEMMA HelperMaskIsRun ==
    ASSUME NEW mb \in Bits, NEW me \in Bits
    PROVE  GetHelperMask(mb, me) = {b \in Bits : InRun(b, mb, me)}
<1> USE DEF Bits
<1>1. ASSUME NEW s \in 0 .. 32
      PROVE  Shr(AllOnes, s) = {b \in Bits : b >= s}
  <2>1. ASSUME NEW b \in Bits, b >= s PROVE b \in Shr(AllOnes, s)
    <3>1. b - s \in AllOnes /\ (b - s) + s <= 31 /\ b = (b - s) + s
      BY <2>1 DEF AllOnes
    <3> QED BY <3>1 DEF Shr
  <2>2. ASSUME NEW b \in Shr(AllOnes, s) PROVE b \in Bits /\ b >= s
    BY <2>2 DEF Shr, AllOnes
  <2> QED BY <2>1, <2>2
<1>2. Shr(AllOnes, mb) = {b \in Bits : b >= mb}
  BY <1>1
<1>3. (IF me < 31 THEN Shr(AllOnes, me + 1) ELSE {}) = {b \in Bits : b > me}
  <2>1. me < 31 => Shr(AllOnes, me + 1) = {b \in Bits : b >= me + 1}
    BY <1>1
  <2>2. me = 31 => {b \in Bits : b > me} = {}
    OBVIOUS
  <2>3. {b \in Bits : b >= me + 1} = {b \in Bits : b > me}
    OBVIOUS
  <2> QED BY <2>1, <2>2, <2>3
<1>4. MaskBetween(mb, me) = {b \in Bits : ~(b >= mb <=> b > me)}
  BY <1>2, <1>3 DEF MaskBetween, Xor
<1>5. ASSUME NEW b \in Bits
      PROVE  InRun(b, mb, me) <=> IF me < mb THEN b >= mb \/ b <= me ELSE b >= mb /\ b <= me
  <2>1. (b - mb) % 32 = IF b >= mb THEN b - mb ELSE b - mb + 32
    OBVIOUS
  <2>2. (me - mb) % 32 = IF me >= mb THEN me - mb ELSE me - mb + 32
    OBVIOUS
  <2> QED BY <2>1, <2>2 DEF InRun
<1>6. CASE me < mb
  BY <1>4, <1>5, <1>6 DEF GetHelperMask
<1>7. CASE ~(me < mb)
  BY <1>4, <1>5, <1>7 DEF GetHelperMask
<1> QED BY <1>6, <1>7

(* _rotl rotates: bit b of the result is bit b + shift of the word, around the end,  *)
(* a shift of 0 included, for which the code has a case of its own.              *)
LEMMA RotlRotates ==
    ASSUME NEW x \in SUBSET Bits, NEW shift \in Bits
    PROVE  _rotl(x, shift) = {b \in Bits : (b + shift) % 32 \in x}
<1> USE DEF Bits
<1>1. shift % 32 = shift
  OBVIOUS
<1>2. CASE shift = 0
  <2>1. \A b \in Bits : (b + shift) % 32 = b
    BY <1>2
  <2>2. _rotl(x, shift) = x
    BY <1>1, <1>2 DEF _rotl
  <2> QED BY <2>1, <2>2
<1>3. CASE shift # 0
  <2>1. _rotl(x, shift) = Shl(x, shift) \cup Shr(x, 32 - shift)
    BY <1>1, <1>3 DEF _rotl
  <2>2. ASSUME NEW b \in Bits
        PROVE  (b + shift) % 32 = IF b + shift <= 31 THEN b + shift ELSE b + shift - 32
    OBVIOUS
  <2>3. ASSUME NEW b \in Shl(x, shift)
        PROVE  b \in Bits /\ (b + shift) % 32 \in x
    BY <2>2, <2>3 DEF Shl
  <2>4. ASSUME NEW b \in Shr(x, 32 - shift)
        PROVE  b \in Bits /\ (b + shift) % 32 \in x
    <3>1. PICK c \in x : c + (32 - shift) <= 31 /\ b = c + (32 - shift)
      BY <2>4 DEF Shr
    <3>2. b \in Bits /\ b + shift - 32 = c /\ ~(b + shift <= 31)
      BY <3>1
    <3> QED BY <2>2, <3>2
  <2>5. ASSUME NEW b \in Bits, (b + shift) % 32 \in x
        PROVE  b \in Shl(x, shift) \/ b \in Shr(x, 32 - shift)
    <3>1. CASE b + shift <= 31
      <4>1. b + shift \in x /\ b + shift >= shift /\ b = (b + shift) - shift
        BY <2>2, <2>5, <3>1
      <4> QED BY <4>1 DEF Shl
    <3>2. CASE ~(b + shift <= 31)
      <4>1. b + shift - 32 \in x /\ (b + shift - 32) + (32 - shift) = b
        BY <2>2, <2>5, <3>2
      <4> QED BY <4>1 DEF Shr
    <3> QED BY <3>1, <3>2
  <2> QED BY <2>1, <2>3, <2>4, <2>5
<1> QED BY <1>2, <1>3

(* What rlw.cpp computes is what the instruction does, for every pair of words: for     *)
(* rlwimi an insertion, for the others a mask, which inserts into nothing.         *)
LEMMA InsertionExact ==
    ASSUME NEW A \in SUBSET Bits, NEW S \in SUBSET Bits, NEW sh \in Bits, NEW mb \in Bits, NEW me \in Bits
    PROVE  Inserted(A, S, sh, GetHelperMask(mb, me)) = RotatedAndMasked(A, S, sh, mb, me)
<1>1. GetHelperMask(mb, me) = {b \in Bits : InRun(b, mb, me)}
  BY HelperMaskIsRun
<1>2. _rotl(S, sh) = {b \in Bits : (b + sh) % 32 \in S}
  BY RotlRotates
<1> QED BY <1>1, <1>2, Zenon DEF Inserted, RotatedAndMasked

LEMMA MaskExact ==
    ASSUME NEW S \in SUBSET Bits, NEW sh \in Bits, NEW mb \in Bits, NEW me \in Bits
    PROVE  Masked(S, sh, GetHelperMask(mb, me)) = RotatedAndMasked({}, S, sh, mb, me)
<1>1. GetHelperMask(mb, me) = {b \in Bits : InRun(b, mb, me)}
  BY HelperMaskIsRun
<1>2. _rotl(S, sh) = {b \in Bits : (b + sh) % 32 \in S}
  BY RotlRotates
<1> QED BY <1>1, <1>2, Zenon DEF Masked, RotatedAndMasked

(* Quotient and remainder of an integer by a positive one. *)
LEMMA Divided ==
    ASSUME NEW a \in Int, NEW d \in Nat \ {0}
    PROVE  /\ a \div d \in Int /\ a % d \in 0 .. d - 1
           /\ a = (a \div d) * d + (a % d)
  OBVIOUS

(* Integers less than d apart are no different multiples of d. *)
LEMMA OneQuotient ==
    ASSUME NEW d \in Nat \ {0}, NEW q \in Int, NEW p \in Int, NEW e \in Int,
           (q - p) * d = e, -d < e, e < d
    PROVE  q = p
<1>1. CASE q >= p + 1
  <2>1. (q - p) * d >= d
    BY <1>1
  <2> QED BY <2>1
<1>2. CASE q <= p - 1
  <2>1. (q - p) * d <= -d
    BY <1>2
  <2> QED BY <2>1
<1>3. CASE q = p
  BY <1>3
<1> QED BY <1>1, <1>2, <1>3

(* GetCarry is what a shift to the right, which rounds down, lacks of a division      *)
(* that rounds towards zero: for every integer and every power of two, and so for     *)
(* the word and the shift of srawi whatever the width of a word.                 *)
LEMMA CarryRoundsTowardsZero ==
    ASSUME NEW value \in Int, NEW shift \in 0 .. N - 1
    PROVE  ShiftRight(value, shift) + GetCarry(value, shift) = TowardsZeroQuotient(value, 2 ^ shift)
<1> DEFINE d == 2 ^ shift
           q == value \div d
           r == value % d
           opposite == -value
           p == opposite \div d
           t == opposite % d
<1>1. d \in Nat \ {0} /\ (shift = 0 => d = 1)
  <2>1. 2 ^ 0 = 1
    OBVIOUS
  <2> QED BY <2>1, WordBits
<1>2. q \in Int /\ r \in 0 .. d - 1 /\ value = q * d + r
  BY <1>1, Divided
<1>3. p \in Int /\ t \in 0 .. d - 1 /\ opposite = p * d + t
  <2>1. opposite \in Int
    OBVIOUS
  <2> HIDE DEF opposite, d
  <2> QED BY <1>1, <2>1, Divided
<1>4. ShiftRight(value, shift) = q /\ TowardsZeroQuotient(value, d) = IF value < 0 THEN -p ELSE q
  BY DEF ShiftRight, TowardsZeroQuotient
<1>5. GetCarry(value, shift) = IF shift # 0 /\ value < 0 /\ q * d # value THEN 1 ELSE 0
  BY DEF GetCarry, ShiftRight
<1> HIDE DEF q, r, p, t, d, opposite
<1>6. (q + p) * d = -(r + t)
  BY <1>1, <1>2, <1>3 DEF opposite
<1>7. CASE r = 0
  <2>1. q = -p
    <3>1. (q - (-p)) * d = -t /\ -d < -t /\ -t < d
      BY <1>1, <1>2, <1>3, <1>6, <1>7
    <3> QED BY <1>1, <1>2, <1>3, <3>1, OneQuotient
  <2>2. q * d = value
    BY <1>1, <1>2, <1>7
  <2> QED BY <1>2, <1>3, <1>4, <1>5, <2>1, <2>2 DEF d
<1>8. CASE r # 0
  <2>1. q + 1 = -p
    <3>1. ((q + 1) - (-p)) * d = d - (r + t)
      BY <1>1, <1>2, <1>3, <1>6
    <3>2. -d < d - (r + t) /\ d - (r + t) < d
      BY <1>1, <1>2, <1>3, <1>8
    <3> QED BY <1>1, <1>2, <1>3, <3>1, <3>2, OneQuotient
  <2>2. q * d # value /\ shift # 0
    <3>1. q * d # value
      <4>1. q * d \in Int
        BY <1>1, <1>2
      <4> QED BY <1>1, <1>2, <1>8, <4>1
    <3>2. shift # 0
      BY <1>1, <1>2, <1>8
    <3> QED BY <3>1, <3>2
  <2> QED BY <1>2, <1>3, <1>4, <1>5, <2>1, <2>2 DEF d
<1> QED BY <1>7, <1>8

(* What is asked is one of the tests' requests, and what is computed of the two kinds  *)
(* whose result is an integer is what the instruction gives.                     *)
Rotations == {"rlwimi", "rlwinm", "rlwnm"}
IsRotation(q) ==
    /\ q[2][1] \in SUBSET Bits /\ q[2][2] \in SUBSET Bits
    /\ q[3] \in Bits /\ q[4] \in Bits /\ q[5] \in Bits
    /\ q[1] # "rlwimi" => q[2][1] = {}
IsShift(q) == q[2] \in Int /\ q[3] \in 0 .. N - 1
RefIInv ==
    /\ Instruction \in Rotations => IsRotation(asked)
    /\ Instruction = "srawi" => IsShift(asked)
    /\ Instruction = "none" => Idle /\ computed = <<>>
    /\ IntegersExact

(* The operands of the tests are words, and their shifts and masks are bits of one. *)
LEMMA TestsAskRotations ==
    \A q \in rlwimixTest \cup rlwinmxTest \cup rlwnmxTest : q[1] \in Rotations /\ IsRotation(q)
<1>1. \A digits : Nibbles(digits) \in SUBSET Bits
  BY Zenon DEF Nibbles
<1>2. \A v \in rlwimi_values : v[1] \in SUBSET Bits /\ v[2] \in SUBSET Bits
  BY <1>1 DEF rlwimi_values, AllOnes, Fours, Each
<1>3. \A v \in rlwinm_values : v \in SUBSET Bits
  BY <1>1 DEF rlwinm_values, AllOnes, Fours, Each
<1>4. \A s \in ImmediateShifts : s[1] \in Bits /\ s[2] \in Bits /\ s[3] \in Bits
  BY DEF ImmediateShifts, Bits
<1>5. \A s \in Bits \X {0, 7, 15, 23, 31} \X {0, 7, 15, 23, 31} : s[1] \in Bits /\ s[2] \in Bits /\ s[3] \in Bits
  BY DEF Bits
<1>6. ASSUME NEW q \in rlwimixTest PROVE q[1] \in Rotations /\ IsRotation(q)
  <2>1. PICK v \in rlwimi_values, s \in ImmediateShifts : q = <<"rlwimi", v, s[1], s[2], s[3]>>
    BY <1>6, SMT DEF rlwimixTest
  <2> HIDE DEF Bits
  <2> QED BY <1>2, <1>4, <2>1 DEF Rotations, IsRotation
<1>7. ASSUME NEW q \in rlwinmxTest PROVE q[1] \in Rotations /\ IsRotation(q)
  <2>1. PICK v \in rlwinm_values, s \in ImmediateShifts : q = <<"rlwinm", <<{}, v>>, s[1], s[2], s[3]>>
    BY <1>7, SMT DEF rlwinmxTest
  <2>2. q[2][1] = {} /\ q[2][2] = v
    BY <2>1
  <2> QED BY <1>3, <1>4, <2>1, <2>2 DEF Rotations, IsRotation
<1>8. ASSUME NEW q \in rlwnmxTest PROVE q[1] \in Rotations /\ IsRotation(q)
  <2>1. PICK v \in rlwinm_values, s \in Bits \X {0, 7, 15, 23, 31} \X {0, 7, 15, 23, 31} :
            q = <<"rlwnm", <<{}, v>>, s[1], s[2], s[3]>>
    BY <1>8, SMT DEF rlwnmxTest
  <2>2. q[2][1] = {} /\ q[2][2] = v
    BY <2>1
  <2> QED BY <1>3, <1>5, <2>1, <2>2 DEF Rotations, IsRotation
<1> QED BY <1>6, <1>7, <1>8

LEMMA RefStep == RefIInv /\ [RefNext]_refVars => RefIInv'
<1> SUFFICES ASSUME RefIInv, [RefNext]_refVars PROVE RefIInv'
  OBVIOUS
<1>1. CASE Ask
  <2>1. computed' = <<>>
    BY <1>1 DEF Ask, Idle, NoRequest, RefIInv, Instruction
  <2>2. CASE asked' \in rlwimixTest \cup rlwinmxTest \cup rlwnmxTest
    <3>1. asked'[1] \in Rotations /\ IsRotation(asked')
      BY <2>2, TestsAskRotations, Zenon
    <3> QED BY <2>1, <3>1 DEF RefIInv, IntegersExact, Expects, Instruction, Rotations
  <2>3. CASE asked' \in srawixTest
    <3>1. asked'[1] = "srawi" /\ IsShift(asked')
      BY <2>3 DEF srawixTest, IsShift, Words
    <3> QED BY <2>1, <3>1 DEF RefIInv, IntegersExact, Expects, Instruction, Rotations
  <2>4. CASE asked' \in FctiwTest \cup ReciprocalTest
    <3>1. asked'[1] \in {"fctiw", "fres", "frsqrte"}
      BY <2>4 DEF FctiwTest, ReciprocalTest
    <3> QED BY <2>1, <3>1 DEF RefIInv, IntegersExact, Expects, Instruction, Rotations
  <2> QED BY <1>1, <2>2, <2>3, <2>4 DEF Ask
<1>2. CASE Shift
  BY <1>2 DEF Shift, RefIInv, IntegersExact, Expects, Instruction, Idle
<1>3. CASE Compute
  <2>1. computed' = <<Answer>> /\ asked' = asked /\ ~Idle
    BY <1>3 DEF Compute
  <2>2. CASE Instruction \in Rotations
    <3>1. IsRotation(asked)
      BY <2>2 DEF RefIInv
    <3>2. Answer = RotatedAndMasked(asked[2][1], asked[2][2], asked[3], asked[4], asked[5])
      <4>0. /\ asked[2][1] \in SUBSET Bits /\ asked[2][2] \in SUBSET Bits
            /\ asked[3] \in Bits /\ asked[4] \in Bits /\ asked[5] \in Bits
        BY <3>1, Zenon DEF IsRotation
      <4>1. CASE Instruction = "rlwimi"
        <5>1. Answer = Inserted(asked[2][1], asked[2][2], asked[3], GetHelperMask(asked[4], asked[5]))
          BY <4>1 DEF Answer
        <5>2. Inserted(asked[2][1], asked[2][2], asked[3], GetHelperMask(asked[4], asked[5]))
                = RotatedAndMasked(asked[2][1], asked[2][2], asked[3], asked[4], asked[5])
          BY <4>0, InsertionExact, Zenon
        <5> QED BY <5>1, <5>2, Zenon
      <4>2. CASE Instruction \in {"rlwinm", "rlwnm"}
        <5>1. Answer = Masked(asked[2][2], asked[3], GetHelperMask(asked[4], asked[5]))
          BY <4>2 DEF Answer
        <5>2. asked[2][1] = {}
          BY <3>1, <4>2 DEF IsRotation, Instruction
        <5>3. Masked(asked[2][2], asked[3], GetHelperMask(asked[4], asked[5]))
                = RotatedAndMasked({}, asked[2][2], asked[3], asked[4], asked[5])
          BY <4>0, MaskExact, Zenon
        <5> QED BY <5>1, <5>2, <5>3, Zenon
      <4> QED BY <2>2, <4>1, <4>2 DEF Rotations
    <3>3. IntegersExact'
      BY <2>1, <2>2, <3>2 DEF IntegersExact, Expects, Instruction, Rotations
    <3> QED BY <2>1, <2>2, <3>1, <3>3 DEF RefIInv, Instruction, Rotations
  <2>3. CASE Instruction = "srawi"
    <3>1. IsShift(asked)
      BY <2>3 DEF RefIInv
    <3>2. Answer = <<ShiftRight(asked[2], asked[3]), GetCarry(asked[2], asked[3])>>
      BY <2>3 DEF Answer
    <3>3. ShiftRight(asked[2], asked[3]) + GetCarry(asked[2], asked[3])
            = TowardsZeroQuotient(asked[2], 2 ^ asked[3])
      BY <3>1, CarryRoundsTowardsZero, Zenon DEF IsShift
    <3>4. IntegersExact'
      BY <2>1, <2>3, <3>2, <3>3 DEF IntegersExact, Expects, Instruction
    <3> QED BY <2>1, <2>3, <3>1, <3>4 DEF RefIInv, Instruction, Rotations
  <2>4. CASE Instruction \notin Rotations \cup {"srawi"}
    BY <2>1, <2>4 DEF RefIInv, IntegersExact, Expects, Instruction, Rotations, Idle
  <2> QED BY <2>2, <2>3, <2>4
<1>4. CASE Done
  BY <1>4 DEF Done, RefIInv, IntegersExact, Expects, Instruction, Rotations, Idle, NoRequest
<1>5. CASE UNCHANGED refVars
  BY <1>5 DEF refVars, RefIInv, IntegersExact, Expects, Instruction, Idle
<1> QED BY <1>1, <1>2, <1>3, <1>4, <1>5 DEF RefNext

(* Whatever rlw.cpp and srawix.cpp ask for, with words of any width for srawi, the      *)
(* result they expect is the instruction's.                                    *)
THEOREM IntegersAreExact == RefSpec => []IntegersExact
<1>1. RefInit => RefIInv
  BY DEF RefInit, RefIInv, IntegersExact, Expects, Instruction, Rotations, Idle, NoRequest
<1>2. RefIInv => IntegersExact
  BY DEF RefIInv
<1> QED BY <1>1, <1>2, RefStep, PTL DEF RefSpec

(* What the three bits tell of those that the loop has shifted out of frac: whether     *)
(* they are half of what is left's last bit or more, and whether they are anything    *)
(* but none or that half.                                                  *)
ShiftedOut(b, s) ==
    LET all == FctiwStart(b).frac
        lost == all % (2 ^ s.i)
    IN  /\ s.frac = all \div (2 ^ s.i)
        /\ s.gbit <=> 2 * lost >= 2 ^ s.i
        /\ s.rbit \/ s.xbit <=> 2 * lost \notin {0, 2 ^ s.i}
Turns(b) == IF IsNan(b) \/ Unbiased(b) >= W - 1 THEN 0 ELSE W - 1 - Unbiased(b)
ConversionsIInv ==
    /\ Instruction = "fctiw" =>
           /\ asked \in FctiwTest
           /\ fctiw.i \in 0 .. Turns(asked[2])
           /\ ShiftedOut(asked[2], fctiw)
    /\ ConversionsExact

(* A multiple of d and less than d more: they are the quotient and the remainder.       *)
LEMMA Quotient ==
    ASSUME NEW a \in Int, NEW d \in Nat \ {0}, NEW q \in Int, NEW r \in 0 .. d - 1, a = q * d + r
    PROVE  a \div d = q /\ a % d = r
<1> DEFINE p == a \div d
           t == a % d
<1>1. p \in Int /\ t \in 0 .. d - 1 /\ a = p * d + t
  BY Divided
<1> HIDE DEF p, t
<1>2. p = q
  <2>1. (p - q) * d = r - t
    BY <1>1
  <2> QED BY <1>1, <2>1, OneQuotient
<1> QED BY <1>1, <1>2 DEF p, t

LEMMA QuotientIsNumber ==
    ASSUME NEW a \in Nat, NEW d \in Nat \ {0}
    PROVE  a \div d \in Nat
<1> DEFINE q == a \div d
           r == a % d
<1>1. q \in Int /\ r \in 0 .. d - 1 /\ a = q * d + r
  BY Divided
<1> HIDE DEF q, r
<1>2. q <= -1 => q * d <= -d
  BY <1>1
<1>3. q \in Nat
  BY <1>1, <1>2
<1> QED BY <1>3 DEF q

(* A set of natural numbers that is not empty has a least one. *)
Below == {pair \in Nat \X Nat : pair[1] < pair[2]}
LEMMA LeastNumber ==
    ASSUME NEW Numbers \in SUBSET Nat, Numbers # {}
    PROVE  \E least \in Numbers : \A y \in Numbers : least <= y
<1>1. IsWellFoundedOn(Below, Nat)
  BY NatLessThanWellFounded, Zenon DEF OpToRel, Below
<1>2. PICK least \in Numbers : \A y \in Numbers : <<y, least>> \notin Below
  BY <1>1, WFMin, Numbers \subseteq Nat, Numbers # {}
<1>3. Numbers \subseteq Nat /\ \A y \in Numbers : ~ (y < least)
  BY <1>2 DEF Below
<1> QED BY <1>3

Top == W + Bias + 1
(* The powers of two that fctiw_expected's numbers are made of multiply as they should. *)
LEMMA PowersAreNumbers == \A s \in 0 .. Top : 2 ^ s \in Nat \ {0}
<1> SUFFICES ASSUME NEW s \in 0 .. Top PROVE 2 ^ s \in Nat \ {0}
  OBVIOUS
<1>1. CASE s = Top
  <2>1. s - 1 \in 0 .. W + Bias /\ (s - 1) + 1 = s
    BY <1>1, DoubleBits DEF Top
  <2> QED BY <2>1, PowersOfTwo
<1>2. CASE s # Top
  BY <1>2, PowersOfTwo, DoubleBits DEF Top
<1> QED BY <1>1, <1>2

LEMMA PowersMultiply ==
    ASSUME NEW a \in Nat, NEW b \in Nat, a + b <= Top
    PROVE  2 ^ (a + b) = 2 ^ a * 2 ^ b
<1> DEFINE Wrong == {c \in Nat : a + c <= Top /\ 2 ^ (a + c) # 2 ^ a * 2 ^ c}
<1>1. Top \in Nat
  BY DoubleBits DEF Top
<1>2. ASSUME Wrong # {} PROVE FALSE
  <2>1. PICK c \in Wrong : \A y \in Wrong : c <= y
    BY <1>2, LeastNumber
  <2>2. c # 0
    <3>1. 2 ^ a \in Nat /\ 2 ^ 0 = 1 /\ a + 0 = a
      BY <1>1, PowersAreNumbers, PowersOfTwo
    <3>2. 2 ^ (a + 0) = 2 ^ a * 2 ^ 0
      BY <3>1
    <3>3. 0 \notin Wrong
      BY <3>2
    <3> QED BY <2>1, <3>3
  <2>3. c - 1 \in Nat /\ c - 1 \notin Wrong /\ a + (c - 1) \in 0 .. W + Bias
    BY <2>1, <2>2, DoubleBits DEF Top
  <2>4. 2 ^ (a + (c - 1)) = 2 ^ a * 2 ^ (c - 1)
    BY <1>1, <2>1, <2>3
  <2>5. 2 ^ (a + c) = 2 * 2 ^ (a + (c - 1)) /\ 2 ^ c = 2 * 2 ^ (c - 1)
    <3>1. (a + (c - 1)) + 1 = a + c /\ (c - 1) + 1 = c /\ c - 1 \in 0 .. W + Bias
      BY <2>1, <2>3, DoubleBits
    <3> QED BY <2>3, <3>1, PowersOfTwo
  <2>6. 2 ^ a \in Nat /\ 2 ^ (c - 1) \in Nat
    BY <1>1, <2>1, <2>3, PowersAreNumbers
  <2>7. 2 ^ (a + c) = 2 ^ a * 2 ^ c
    BY ONLY <2>4, <2>5, <2>6
  <2> QED BY <2>1, <2>7
<1> QED BY <1>2

(* Of a double's parts: its exponent is one of a double's, its mantissa a number, with   *)
(* the hidden bit if it is normal.                                           *)
LEMMA PartsOfDouble ==
    ASSUME NEW b \in Doubles
    PROVE  /\ b.sign \in {0, 1} /\ b.exp \in 0 .. 2 * Bias + 1 /\ MaxExponent = 2 * Bias + 1
           /\ Unbiased(b) \in 1 - Bias .. Bias + 1
           /\ Mantissa(b) \in Nat /\ (b.exp > 0 => Mantissa(b) >= 2 ^ M)
<1>1. MaxExponent = 2 * Bias + 1
  <2>1. ExpBits - 1 \in 0 .. W + Bias /\ (ExpBits - 1) + 1 = ExpBits
    BY DoubleBits
  <2>2. 2 ^ ExpBits = 2 * 2 ^ (ExpBits - 1) /\ 2 ^ (ExpBits - 1) \in Nat
    BY <2>1, PowersOfTwo
  <2> QED BY <2>2 DEF MaxExponent, Bias
<1>2. M \in 0 .. Top
  BY DoubleBits DEF Top
<1>3. 2 ^ M \in Nat
  BY <1>2, PowersAreNumbers
<1>4. b.sign \in {0, 1} /\ b.exp \in 0 .. MaxExponent /\ b.frac \in 0 .. 2 ^ M - 1
  BY DEF Doubles
<1> QED BY <1>1, <1>3, <1>4, DoubleBits DEF Unbiased, Mantissa

(* frac starts as the mantissa, at the upper end of the W bits.                   *)
LEMMA StartIsNumber ==
    ASSUME NEW b \in Doubles
    PROVE  /\ FctiwStart(b).frac = Mantissa(b) * 2 ^ (W - 1 - M) /\ FctiwStart(b).frac \in Nat
           /\ 2 ^ (W - 1 - M) \in Nat \ {0}
<1>1. W - 1 - M \in 0 .. Top
  BY DoubleBits DEF Top
<1>2. 2 ^ (W - 1 - M) \in Nat \ {0}
  BY <1>1, PowersAreNumbers
<1>3. Mantissa(b) \in Nat
  BY PartsOfDouble
<1> QED BY <1>2, <1>3 DEF FctiwStart

(* Before the loop nothing is shifted out.                                     *)
LEMMA NothingShiftedOut ==
    ASSUME NEW b \in Doubles
    PROVE  ShiftedOut(b, FctiwStart(b))
<1> DEFINE all == FctiwStart(b).frac
<1>1. all \in Nat
  BY StartIsNumber
<1>2. /\ FctiwStart(b).i = 0 /\ ~FctiwStart(b).gbit /\ ~FctiwStart(b).rbit /\ ~FctiwStart(b).xbit
  BY DEF FctiwStart
<1>3. 2 ^ 0 = 1
  BY PowersOfTwo
<1> HIDE DEF all
<1>4. all \div 1 = all /\ all % 1 = 0
  BY <1>1
<1> QED BY <1>2, <1>3, <1>4 DEF ShiftedOut, all

(* One more turn of the loop halves what is left and doubles what one bit of it is worth.  *)
LEMMA HalvingShifts ==
    ASSUME NEW all \in Nat, NEW p \in Nat \ {0}
    PROVE  LET left == all \div p
               lost == all % p
           IN  /\ left \div 2 = all \div (2 * p)
               /\ all % (2 * p) = (left % 2) * p + lost
<1> DEFINE left == all \div p
           lost == all % p
           q == left \div 2
           bit == left % 2
<1>1. left \in Int /\ lost \in 0 .. p - 1 /\ all = left * p + lost
  BY Divided
<1> HIDE DEF left, lost
<1>2. q \in Int /\ bit \in 0 .. 1 /\ left = q * 2 + bit
  BY <1>1
<1> HIDE DEF q, bit
<1>3. bit * p \in {0, p}
  BY <1>2
<1>4. all = q * (2 * p) + (bit * p + lost) /\ bit * p + lost \in 0 .. 2 * p - 1
  BY <1>1, <1>2, <1>3
<1>5. 2 * p \in Nat \ {0}
  OBVIOUS
<1>6. all \div (2 * p) = q /\ all % (2 * p) = bit * p + lost
  <2> DEFINE d == 2 * p
             r == bit * p + lost
  <2>1. d \in Nat \ {0} /\ r \in 0 .. d - 1 /\ all = q * d + r /\ all \in Int /\ q \in Int
    BY <1>2, <1>4, <1>5
  <2> HIDE DEF d, r
  <2>2. all \div d = q /\ all % d = r
    BY <2>1, Quotient
  <2> QED BY <2>2 DEF d, r
<1> QED BY <1>6 DEF q, bit, left, lost

(* A turn of the loop keeps what the three bits tell.                            *)
LEMMA ShiftKeepsTrack ==
    ASSUME NEW b \in Doubles, NEW s, s.i \in 0 .. W + Bias, ShiftedOut(b, s)
    PROVE  ShiftedOut(b, FctiwShift(s))
<1> DEFINE all == FctiwStart(b).frac
           p == 2 ^ s.i
           t == FctiwShift(s)
           lost == all % p
           left == all \div p
<1>1. all \in Nat
  BY StartIsNumber
<1>2. p \in Nat \ {0} /\ 2 ^ (s.i + 1) = 2 * p
  BY PowersOfTwo
<1>3. /\ t.i = s.i + 1 /\ t.frac = s.frac \div 2 /\ (t.gbit <=> s.frac % 2 = 1)
      /\ (t.rbit <=> s.gbit) /\ (t.xbit <=> s.xbit \/ s.rbit)
  BY DEF FctiwShift
<1>4. /\ s.frac = left /\ (s.gbit <=> 2 * lost >= p)
      /\ (s.rbit \/ s.xbit <=> 2 * lost \notin {0, p})
  BY DEF ShiftedOut
<1> HIDE DEF all, p, t, lost, left
<1>5. /\ left \div 2 = all \div (2 * p) /\ all % (2 * p) = (left % 2) * p + lost
      /\ left \in Int /\ lost \in 0 .. p - 1
  <2>1. (all \div p) \div 2 = all \div (2 * p) /\ all % (2 * p) = ((all \div p) % 2) * p + (all % p)
    BY <1>1, <1>2, HalvingShifts
  <2>2. all \in Int
    BY <1>1
  <2>3. all \div p \in Int /\ all % p \in 0 .. p - 1
    BY <1>2, <2>2, Divided
  <2> QED BY <2>1, <2>3 DEF left, lost
<1>6. left % 2 \in {0, 1} /\ (left % 2) * p \in {0, p} /\ (left % 2 = 1 <=> (left % 2) * p = p)
  <2>1. left % 2 \in {0, 1}
    BY <1>5
  <2> QED BY <1>2, <2>1
<1> DEFINE next == all % (2 * p)
<1>7. (left % 2 = 1 <=> 2 * next >= 2 * p) /\ (lost # 0 <=> 2 * next \notin {0, 2 * p})
  BY <1>2, <1>5, <1>6
<1>8. lost # 0 <=> 2 * lost >= p \/ 2 * lost \notin {0, p}
  BY <1>2, <1>5
<1> HIDE DEF next
<1>9. t.rbit \/ t.xbit <=> lost # 0
  <2>1. t.rbit \/ t.xbit <=> s.gbit \/ s.xbit \/ s.rbit
    BY <1>3, Zenon
  <2> QED BY <1>4, <1>8, <2>1, Zenon
<1>10. t.gbit <=> 2 * next >= 2 * p
  BY <1>3, <1>4, <1>7, Zenon
<1>11. t.rbit \/ t.xbit <=> 2 * next \notin {0, 2 * p}
  BY <1>7, <1>9, Zenon
<1>12. t.frac = all \div (2 * p) /\ 2 ^ t.i = 2 * p
  BY <1>2, <1>3, <1>4, <1>5
<1> QED BY <1>10, <1>11, <1>12, Zenon DEF ShiftedOut, all, next, t

(* What numbers fctiw_expected rounds: the quotient of two natural numbers and a sign.    *)
Signed(sign, k) == IF sign = 1 THEN -k ELSE k
Whole(b) == Mantissa(b) * (2 ^ (IF Scale(b) > 0 THEN Scale(b) ELSE 0))

(* A number that the loop shifts is left as its quotient, and what is shifted out is in    *)
(* the same proportion to what frac's last bit is worth as the remainder is to the         *)
(* divisor.                                                                  *)
LEMMA LoopDivides ==
    ASSUME NEW b \in Doubles, Unbiased(b) < W - 1
    PROVE  LET all == FctiwStart(b).frac
               p == 2 ^ (W - 1 - Unbiased(b))
               d == Denominator(b)
           IN  /\ Whole(b) \in Nat /\ d \in Nat \ {0} /\ p \in Nat \ {0}
               /\ \E c \in Nat \ {0} : p = d * c /\ all = Whole(b) * c
<1> DEFINE e == Unbiased(b)
           m == Mantissa(b)
<1>1. e \in 1 - Bias .. Bias + 1 /\ m \in Nat /\ e < W - 1
  BY PartsOfDouble
<1>2. FctiwStart(b).frac = m * 2 ^ (W - 1 - M)
  BY StartIsNumber
<1>3. Scale(b) = e - M
  BY DEF Scale
<1> HIDE DEF e, m
<1>4. CASE e < M
  <2>1. M - e \in Nat /\ W - 1 - M \in Nat /\ (M - e) + (W - 1 - M) = W - 1 - e /\ W - 1 - e <= Top
    BY <1>1, <1>4, DoubleBits DEF Top
  <2>2. 2 ^ (W - 1 - e) = 2 ^ (M - e) * 2 ^ (W - 1 - M)
    <3> DEFINE x == M - e
               y == W - 1 - M
    <3>1. x \in Nat /\ y \in Nat /\ x + y = W - 1 - e /\ x + y <= Top
      BY <2>1
    <3> HIDE DEF x, y
    <3>2. 2 ^ (x + y) = 2 ^ x * 2 ^ y
      BY <3>1, PowersMultiply
    <3> QED BY <3>1, <3>2 DEF x, y
  <2>3. 2 ^ (M - e) \in Nat \ {0} /\ 2 ^ (W - 1 - M) \in Nat \ {0} /\ 2 ^ (W - 1 - e) \in Nat \ {0}
    <3>1. M - e \in 0 .. Top /\ W - 1 - M \in 0 .. Top /\ W - 1 - e \in 0 .. Top
      BY <1>1, <1>4, DoubleBits DEF Top
    <3> QED BY <3>1, PowersAreNumbers
  <2>4. Denominator(b) = 2 ^ (M - e)
    <3>1. Scale(b) < 0 /\ -Scale(b) = M - e
      BY <1>1, <1>3, <1>4, DoubleBits
    <3> QED BY <3>1 DEF Denominator
  <2>5. Whole(b) = m
    <3>1. ~ (Scale(b) > 0) /\ m * 1 = m
      BY <1>1, <1>3, <1>4, DoubleBits
    <3> QED BY <3>1, PowersOfTwo DEF Whole, m
  <2> QED BY <1>1, <1>2, <2>2, <2>3, <2>4, <2>5 DEF e
<1>5. CASE e >= M
  <2>1. e - M \in Nat /\ W - 1 - e \in Nat /\ (e - M) + (W - 1 - e) = W - 1 - M /\ W - 1 - M <= Top
    BY <1>1, <1>5, DoubleBits DEF Top
  <2>2. 2 ^ (W - 1 - M) = 2 ^ (e - M) * 2 ^ (W - 1 - e)
    <3> DEFINE x == e - M
               y == W - 1 - e
    <3>1. x \in Nat /\ y \in Nat /\ x + y = W - 1 - M /\ x + y <= Top
      BY <2>1
    <3> HIDE DEF x, y
    <3>2. 2 ^ (x + y) = 2 ^ x * 2 ^ y
      BY <3>1, PowersMultiply
    <3> QED BY <3>1, <3>2 DEF x, y
  <2>3. 2 ^ (e - M) \in Nat \ {0} /\ 2 ^ (W - 1 - M) \in Nat \ {0} /\ 2 ^ (W - 1 - e) \in Nat \ {0}
    <3>1. e - M \in 0 .. Top /\ W - 1 - M \in 0 .. Top /\ W - 1 - e \in 0 .. Top
      BY <1>1, <1>5, DoubleBits DEF Top
    <3> QED BY <3>1, PowersAreNumbers
  <2>4. Denominator(b) = 1
    <3>1. ~ (Scale(b) < 0)
      BY <1>1, <1>3, <1>5, DoubleBits
    <3> QED BY <3>1, PowersOfTwo DEF Denominator
  <2>5. Whole(b) = m * 2 ^ (e - M)
    <3>1. CASE Scale(b) > 0
      BY <1>3, <3>1 DEF Whole, m
    <3>2. CASE ~ (Scale(b) > 0)
      <4>1. e - M = 0
        BY <1>1, <1>3, <1>5, <3>2, DoubleBits
      <4> QED BY <3>2, <4>1 DEF Whole, m
    <3> QED BY <3>1, <3>2
  <2>6. FctiwStart(b).frac = Whole(b) * 2 ^ (W - 1 - e)
    <3> DEFINE x == 2 ^ (e - M)
               y == 2 ^ (W - 1 - e)
    <3>1. x \in Nat /\ y \in Nat /\ FctiwStart(b).frac = m * (x * y) /\ Whole(b) = m * x
      BY <1>2, <2>2, <2>3, <2>5
    <3> HIDE DEF x, y
    <3>2. m * (x * y) = (m * x) * y
      BY <1>1, <3>1
    <3> QED BY <3>1, <3>2 DEF y
  <2>7. Whole(b) \in Nat
    BY <1>1, <2>3, <2>5
  <2>8. 2 ^ (W - 1 - e) = Denominator(b) * 2 ^ (W - 1 - e)
    BY <2>3, <2>4
  <2> QED BY <2>3, <2>4, <2>6, <2>7, <2>8 DEF e
<1> QED BY <1>1, <1>4, <1>5, DoubleBits

(* Multiplying both by the same number keeps the quotient, and the proportion.           *)
LEMMA SameProportion ==
    ASSUME NEW a \in Nat, NEW d \in Nat \ {0}, NEW c \in Nat \ {0}
    PROVE  LET lost == (a * c) % (d * c)
           IN  /\ (a * c) \div (d * c) = a \div d
               /\ 2 * lost >= d * c <=> 2 * (a % d) >= d
               /\ 2 * lost \in {0, d * c} <=> 2 * (a % d) \in {0, d}
<1> DEFINE q == a \div d
           r == a % d
           num == a * c
           p == d * c
<1>1. q \in Int /\ r \in 0 .. d - 1 /\ a = q * d + r
  BY Divided
<1> HIDE DEF q, r
<1>2. num \in Int /\ p \in Nat \ {0} /\ num = q * p + r * c
  BY <1>1
<1>3. r * c \in 0 .. p - 1
  <2>1. r + 1 <= d
    BY <1>1
  <2>2. (r + 1) * c <= d * c
    BY <1>1, <2>1
  <2> QED BY <1>1, <2>2
<1> HIDE DEF num
<1>4. num \div p = q /\ num % p = r * c
  <2> DEFINE t == r * c
  <2>1. t \in 0 .. p - 1 /\ num = q * p + t
    BY <1>2, <1>3
  <2> HIDE DEF t, p
  <2>2. num \div p = q /\ num % p = t
    BY <1>1, <1>2, <2>1, Quotient
  <2> QED BY <2>2 DEF t
<1>5. 2 * (r * c) = (2 * r) * c
  BY <1>1
<1>6. 2 * (r * c) >= p <=> 2 * r >= d
  <2>1. (2 * r) * c >= d * c <=> 2 * r >= d
    BY <1>1
  <2> QED BY <1>5, <2>1
<1>7. 2 * (r * c) \in {0, p} <=> 2 * r \in {0, d}
  <2>1. ((2 * r) * c = 0 <=> 2 * r = 0) /\ ((2 * r) * c = d * c <=> 2 * r = d)
    BY <1>1
  <2> QED BY <1>5, <2>1
<1> QED BY <1>4, <1>6, <1>7 DEF num, q, r

(* Rounding a number of either sign is rounding its magnitude up or down.              *)
RoundsUp(a, d, sign, mode) ==
    LET rest == 2 * (a % d)
    IN  \/ mode = Nearest /\ (rest > d \/ (rest = d /\ (a \div d) % 2 = 1))
        \/ mode = TowardsPositiveInfinity /\ sign = 0 /\ rest # 0
        \/ mode = TowardsNegativeInfinity /\ sign = 1 /\ rest # 0
Magnitude(a, d, sign, mode) == (a \div d) + (IF RoundsUp(a, d, sign, mode) THEN 1 ELSE 0)

LEMMA OppositeDivided ==
    ASSUME NEW a \in Nat, NEW d \in Nat \ {0}
    PROVE  LET num == -a
           IN  IF a % d = 0 THEN num \div d = -(a \div d) /\ num % d = 0
               ELSE num \div d = -(a \div d) - 1 /\ num % d = d - (a % d)
<1> DEFINE q == a \div d
           r == a % d
           num == -a
<1>1. q \in Int /\ r \in 0 .. d - 1 /\ a = q * d + r
  BY Divided
<1> HIDE DEF q, r
<1>2. CASE r = 0
  <2> DEFINE p == -q
  <2>1. num \in Int /\ p \in Int /\ num = p * d + 0 /\ 0 \in 0 .. d - 1
    BY <1>1, <1>2
  <2> HIDE DEF num, p
  <2>2. num \div d = p /\ num % d = 0
    BY <2>1, Quotient
  <2> QED BY <1>2, <2>2 DEF num, p, q, r
<1>3. CASE r # 0
  <2> DEFINE p == -q - 1
             t == d - r
  <2>1. num \in Int /\ p \in Int /\ num = p * d + t /\ t \in 0 .. d - 1
    BY <1>1, <1>3
  <2> HIDE DEF num, p, t
  <2>2. num \div d = p /\ num % d = t
    BY <2>1, Quotient
  <2> QED BY <1>3, <2>2 DEF num, p, q, r, t
<1> QED BY <1>2, <1>3

LEMMA RoundedBySign ==
    ASSUME NEW a \in Nat, NEW d \in Nat \ {0}, NEW sign \in {0, 1},
           NEW mode \in Nearest .. TowardsNegativeInfinity
    PROVE  Rounded(Signed(sign, a), d, mode) = Signed(sign, Magnitude(a, d, sign, mode))
<1> USE DEF Nearest, TowardsZero, TowardsPositiveInfinity, TowardsNegativeInfinity
<1> DEFINE q == a \div d
           r == a % d
<1>1. q \in Int /\ r \in 0 .. d - 1
  BY Divided
<1>2. mode = 0 \/ mode = 1 \/ mode = 2 \/ mode = 3
  OBVIOUS
<1>3. CASE sign = 0
  <2>1. Signed(sign, a) = a
    BY <1>3 DEF Signed
  <2>2. Rounded(a, d, mode) =
            IF r = 0 THEN q
            ELSE IF mode = 0 THEN (IF 2 * r > d \/ (2 * r = d /\ q % 2 = 1) THEN q + 1 ELSE q)
            ELSE IF mode = 2 THEN q + 1
            ELSE q
    BY <1>2 DEF Rounded
  <2>3. RoundsUp(a, d, sign, mode) <=>
            \/ mode = 0 /\ (2 * r > d \/ (2 * r = d /\ q % 2 = 1))
            \/ mode = 2 /\ 2 * r # 0
    BY <1>2, <1>3 DEF RoundsUp
  <2>4. Magnitude(a, d, sign, mode) = q + (IF RoundsUp(a, d, sign, mode) THEN 1 ELSE 0)
    BY DEF Magnitude
  <2> HIDE DEF q, r
  <2> QED BY <1>1, <1>2, <1>3, <2>1, <2>2, <2>3, <2>4 DEF Signed
<1>4. CASE sign = 1
  <2> DEFINE num == -a
             low == num \div d
             rest == num % d
  <2>1. Signed(sign, a) = num
    BY <1>4 DEF Signed
  <2>2. Rounded(num, d, mode) =
            IF rest = 0 THEN low
            ELSE IF mode = 0 THEN (IF 2 * rest > d \/ (2 * rest = d /\ low % 2 = 1) THEN low + 1 ELSE low)
            ELSE IF mode = 1 THEN (IF num < 0 THEN low + 1 ELSE low)
            ELSE IF mode = 2 THEN low + 1
            ELSE low
    BY <1>2 DEF Rounded
  <2>3. RoundsUp(a, d, sign, mode) <=>
            \/ mode = 0 /\ (2 * r > d \/ (2 * r = d /\ q % 2 = 1))
            \/ mode = 3 /\ 2 * r # 0
    BY <1>2, <1>4 DEF RoundsUp
  <2>4. Magnitude(a, d, sign, mode) = q + (IF RoundsUp(a, d, sign, mode) THEN 1 ELSE 0)
    BY DEF Magnitude
  <2>5. IF r = 0 THEN low = -q /\ rest = 0 ELSE low = -q - 1 /\ rest = d - r
    BY OppositeDivided
  <2>6. r # 0 => num < 0
    <3>1. a % d # 0 => a # 0
      BY OppositeDivided
    <3> QED BY <3>1
  <2> HIDE DEF q, r, low, rest, num
  <2>7. (-q - 1) % 2 = 1 <=> ~ (q % 2 = 1)
    BY <1>1
  <2> QED BY <1>1, <1>2, <1>4, <2>1, <2>2, <2>3, <2>4, <2>5, <2>6, <2>7 DEF Signed
<1> QED BY <1>3, <1>4

(* The code holds a magnitude within a word as the word holds the number.            *)
LEMMA SaturatedHolds ==
    ASSUME NEW k \in Nat, NEW sign \in {0, 1}
    PROVE  Saturated(k, sign) =
               LET h == Held(Signed(sign, k))
               IN  IF sign = 1 /\ h = 0 THEN 2 ^ N ELSE h % (2 ^ N)
<1> DEFINE half == 2 ^ (N - 1)
<1>1. half \in Nat \ {0} /\ 2 ^ N = 2 * half
  <2>1. N - 1 \in 0 .. W + Bias /\ (N - 1) + 1 = N
    BY WordBits, DoubleBits
  <2> QED BY <2>1, PowersOfTwo
<1>2. Words = -half .. half - 1
  BY DEF Words
<1>3. Saturated(k, sign) = IF sign = 0 /\ k > half - 1 THEN half - 1
                           ELSE IF k > half THEN half
                           ELSE IF sign = 1 THEN (2 * half - 1 - k) + 1 ELSE k
  BY <1>1 DEF Saturated
<1> DEFINE h == Held(Signed(sign, k))
<1>4. h = IF sign = 0 THEN (IF k <= half - 1 THEN k ELSE half - 1)
          ELSE (IF k <= half THEN -k ELSE -half)
  BY <1>1, <1>2 DEF Held, Signed
<1> HIDE DEF half, h
<1>5. \A j \in 0 .. half - 1 : j % (2 * half) = j
  BY <1>1
<1>6. \A j \in 1 .. half : (-j) % (2 * half) = 2 * half - j
  <2> SUFFICES ASSUME NEW j \in 1 .. half PROVE (-j) % (2 * half) = 2 * half - j
    OBVIOUS
  <2> DEFINE num == -j
             d == 2 * half
             r == 2 * half - j
  <2>1. num \in Int /\ d \in Nat \ {0} /\ r \in 0 .. d - 1 /\ num = (-1) * d + r
    BY <1>1
  <2> HIDE DEF num, d, r
  <2>2. num % d = r
    BY <2>1, Quotient
  <2> QED BY <2>2 DEF num, d, r
<1>7. CASE sign = 0
  BY <1>1, <1>3, <1>4, <1>5, <1>7 DEF h
<1>8. CASE sign = 1
  <2>1. CASE k <= 0
    <3>1. h = 0 /\ Saturated(k, sign) = 2 * half
      <4>1. k <= half /\ ~ (k > half) /\ sign # 0 /\ -k = 0
        BY <1>1, <1>8, <2>1
      <4>2. h = 0
        BY <1>4, <4>1
      <4>3. Saturated(k, sign) = (2 * half - 1 - k) + 1
        BY <1>3, <1>8, <4>1
      <4>4. (2 * half - 1 - k) + 1 = 2 * half
        BY <1>1, <2>1
      <4> QED BY <4>2, <4>3, <4>4
    <3> QED BY <1>1, <1>8, <3>1 DEF h
  <2>2. CASE k \in 1 .. half
    <3>1. h = -k /\ h # 0 /\ h % (2 * half) = 2 * half - k
      BY <1>1, <1>4, <1>6, <1>8, <2>2
    <3> QED BY <1>1, <1>3, <1>8, <2>2, <3>1 DEF h
  <2>3. CASE k > half
    <3>1. h = -half /\ h # 0 /\ h % (2 * half) = half
      BY <1>1, <1>4, <1>6, <1>8, <2>3
    <3> QED BY <1>1, <1>3, <1>8, <2>3, <3>1 DEF h
  <2> QED BY <1>1, <2>1, <2>2, <2>3
<1> QED BY <1>7, <1>8

(* Magnitudes larger than any word's are held alike.                             *)
LEMMA LargeSaturate ==
    ASSUME NEW j \in Nat, NEW k \in Nat, j > 2 ^ (N - 1), k > 2 ^ (N - 1), NEW sign \in {0, 1}
    PROVE  Saturated(j, sign) = Saturated(k, sign)
<1>1. N - 1 \in 0 .. Top
  BY WordBits, DoubleBits DEF Top
<1>2. 2 ^ (N - 1) \in Nat
  BY <1>1, PowersAreNumbers
<1> QED BY <1>2 DEF Saturated

(* The three bits make the code round up when the number has to be.               *)
LEMMA IncrementRoundsUp ==
    ASSUME NEW s, NEW a \in Nat, NEW d \in Nat \ {0}, NEW sign \in {0, 1},
           NEW mode \in Nearest .. TowardsNegativeInfinity,
           s.frac = a \div d, s.gbit <=> 2 * (a % d) >= d,
           s.rbit \/ s.xbit <=> 2 * (a % d) \notin {0, d}
    PROVE  Increment(s, sign, mode) <=> RoundsUp(a, d, sign, mode)
<1> USE DEF Nearest, TowardsZero, TowardsPositiveInfinity, TowardsNegativeInfinity
<1> DEFINE twice == 2 * (a % d)
<1>1. a \div d \in Int /\ a % d \in 0 .. d - 1
  BY Divided
<1>2. twice \in Nat
  BY <1>1
<1>3. (s.gbit <=> twice >= d) /\ (s.rbit \/ s.xbit <=> twice \notin {0, d})
  OBVIOUS
<1>4. RoundsUp(a, d, sign, mode) <=>
          \/ mode = 0 /\ (twice > d \/ (twice = d /\ s.frac % 2 = 1))
          \/ mode = 2 /\ sign = 0 /\ twice # 0
          \/ mode = 3 /\ sign = 1 /\ twice # 0
  BY DEF RoundsUp
<1> HIDE DEF twice
<1>5. (twice >= d \/ twice \notin {0, d} <=> twice # 0)
      /\ (twice >= d /\ (s.frac % 2 = 1 \/ twice \notin {0, d})
            <=> twice > d \/ (twice = d /\ s.frac % 2 = 1))
  BY <1>2
<1>6. Inexact(s) <=> twice # 0
  BY <1>3, <1>5, Zenon DEF Inexact
<1>7. s.gbit /\ (s.frac % 2 = 1 \/ s.rbit \/ s.xbit) <=> twice > d \/ (twice = d /\ s.frac % 2 = 1)
  BY <1>3, <1>5, Zenon
<1>8. CASE mode = 0
  <2>1. Increment(s, sign, mode) <=> s.gbit /\ (s.frac % 2 = 1 \/ s.rbit \/ s.xbit)
    BY <1>8 DEF Increment
  <2> QED BY <1>4, <1>7, <1>8, <2>1
<1>9. CASE mode = 1
  <2>1. Increment(s, sign, mode) <=> FALSE
    BY <1>9 DEF Increment
  <2> QED BY <1>4, <1>9, <2>1
<1>10. CASE mode = 2
  <2>1. Increment(s, sign, mode) <=> sign = 0 /\ Inexact(s)
    BY <1>10 DEF Increment
  <2> QED BY <1>4, <1>6, <1>10, <2>1
<1>11. CASE mode = 3
  <2>1. Increment(s, sign, mode) <=> sign = 1 /\ Inexact(s)
    BY <1>11 DEF Increment
  <2> QED BY <1>4, <1>6, <1>11, <2>1
<1> QED BY <1>8, <1>9, <1>10, <1>11

(* The number to convert, and the conversion in terms of its magnitude.             *)
LEMMA ConvertedByMagnitude ==
    ASSUME NEW b \in Doubles, ~IsNan(b), NEW mode \in Nearest .. TowardsNegativeInfinity,
           Whole(b) \in Nat, Denominator(b) \in Nat \ {0}
    PROVE  Converted(b, mode) = Saturated(Magnitude(Whole(b), Denominator(b), b.sign, mode), b.sign)
<1>1. b.sign \in {0, 1} /\ Mantissa(b) \in Nat
  BY PartsOfDouble
<1> DEFINE a == Whole(b)
           d == Denominator(b)
           power == 2 ^ (IF Scale(b) > 0 THEN Scale(b) ELSE 0)
           size == Magnitude(a, d, b.sign, mode)
<1>2. Numerator(b) = Signed(b.sign, a)
  <2>1. a = Mantissa(b) * power /\ Numerator(b) = (IF b.sign = 1 THEN -1 ELSE 1) * Mantissa(b) * power
    BY DEF Whole, Numerator
  <2>2. power \in Int
    <3>1. Scale(b) > 0 => Scale(b) \in 0 .. Top
      BY PartsOfDouble, DoubleBits DEF Scale, Top
    <3>2. 0 \in 0 .. Top
      BY DoubleBits DEF Top
    <3> QED BY <3>1, <3>2, PowersAreNumbers
  <2> HIDE DEF power
  <2>3. (-1) * Mantissa(b) * power = -(Mantissa(b) * power)
    BY <1>1, <2>2
  <2> QED BY <1>1, <2>1, <2>2, <2>3 DEF Signed
<1>3. Rounded(Numerator(b), d, mode) = Signed(b.sign, size)
  BY <1>1, <1>2, RoundedBySign
<1>4. size \in Nat
  <2>1. a \div d \in Nat
    BY QuotientIsNumber
  <2> QED BY <2>1 DEF Magnitude
<1>5. Converted(b, mode) = LET h == Held(Signed(b.sign, size))
                           IN  IF b.sign = 1 /\ h = 0 THEN 2 ^ N ELSE h % (2 ^ N)
  BY <1>3 DEF Converted
<1> HIDE DEF size
<1> QED BY <1>1, <1>4, <1>5, SaturatedHolds DEF size

(* When the loop ends, fctiw_expected's result is the converted number.              *)
LEMMA LoopConverts ==
    ASSUME NEW b \in Doubles, NEW s, NEW mode \in Nearest .. TowardsNegativeInfinity,
           s.i = Turns(b), ShiftedOut(b, s)
    PROVE  FctiwResult(b, s, mode) = Converted(b, mode)
<1> DEFINE all == FctiwStart(b).frac
           a == Whole(b)
           d == Denominator(b)
           p == 2 ^ s.i
<1>0. b.sign \in {0, 1}
  BY PartsOfDouble
<1>1. CASE IsNan(b)
  BY <1>1 DEF FctiwResult, Converted
<1>2. CASE ~IsNan(b) /\ Unbiased(b) < W - 1
  <2>1. s.i = W - 1 - Unbiased(b)
    BY <1>2, PartsOfDouble, DoubleBits DEF Turns
  <2>2. PICK c \in Nat \ {0} : p = d * c /\ all = a * c
    BY <1>2, <2>1, LoopDivides
  <2>3. a \in Nat /\ d \in Nat \ {0}
    BY <1>2, LoopDivides
  <2>4. /\ s.frac = all \div p /\ (s.gbit <=> 2 * (all % p) >= p)
        /\ (s.rbit \/ s.xbit <=> 2 * (all % p) \notin {0, p})
    BY DEF ShiftedOut
  <2> HIDE DEF all, a, d, p
  <2>5. /\ all \div p = a \div d /\ (2 * (all % p) >= p <=> 2 * (a % d) >= d)
        /\ (2 * (all % p) \in {0, p} <=> 2 * (a % d) \in {0, d})
    BY <2>2, <2>3, SameProportion
  <2>6. /\ s.frac = a \div d /\ (s.gbit <=> 2 * (a % d) >= d)
        /\ (s.rbit \/ s.xbit <=> 2 * (a % d) \notin {0, d})
    BY <2>4, <2>5, Zenon
  <2>7. Increment(s, b.sign, mode) <=> RoundsUp(a, d, b.sign, mode)
    BY <1>0, <2>3, <2>6, IncrementRoundsUp
  <2>8. s.frac + (IF Increment(s, b.sign, mode) THEN 1 ELSE 0) = Magnitude(a, d, b.sign, mode)
    BY <2>6, <2>7 DEF Magnitude
  <2>9. FctiwResult(b, s, mode) = Saturated(Magnitude(a, d, b.sign, mode), b.sign)
    BY <1>2, <2>8 DEF FctiwResult
  <2> QED BY <1>2, <2>3, <2>9, ConvertedByMagnitude DEF a, d
<1>3. CASE ~IsNan(b) /\ ~ (Unbiased(b) < W - 1)
  <2>1. s.i = 0 /\ Unbiased(b) >= W - 1
    BY <1>3, PartsOfDouble, DoubleBits DEF Turns
  <2>2. all \in Nat /\ all = Mantissa(b) * 2 ^ (W - 1 - M)
    BY StartIsNumber
  <2>3. s.frac = all /\ ~Increment(s, b.sign, mode)
    <3>1. p = 1
      BY <2>1, PowersOfTwo
    <3>2. /\ s.frac = all \div p /\ (s.gbit <=> 2 * (all % p) >= p)
          /\ (s.rbit \/ s.xbit <=> 2 * (all % p) \notin {0, p})
      BY DEF ShiftedOut
    <3> HIDE DEF all, p
    <3>3. all \div p = all /\ all % p = 0
      BY <2>2, <3>1
    <3>4. s.frac = all /\ ~s.gbit /\ ~ (s.rbit \/ s.xbit)
      <4>1. 2 * (all % p) = 0 /\ ~ (2 * (all % p) >= p)
        BY <3>1, <3>3
      <4> QED BY <3>2, <3>3, <4>1
    <3>5. ~Inexact(s)
      BY <3>4, Zenon DEF Inexact
    <3>6. mode = 0 \/ mode = 1 \/ mode = 2 \/ mode = 3
      BY DEF Nearest, TowardsNegativeInfinity
    <3>7. ~Increment(s, b.sign, mode)
      BY <3>4, <3>5, <3>6 DEF Increment, Nearest, TowardsZero, TowardsPositiveInfinity, TowardsNegativeInfinity
    <3> QED BY <3>4, <3>7
  <2>4. FctiwResult(b, s, mode) = Saturated(all, b.sign)
    BY <1>3, <2>2, <2>3 DEF FctiwResult
  <2>5. d = 1 /\ a = Mantissa(b) * 2 ^ (Unbiased(b) - M) /\ Mantissa(b) \in Nat /\ Mantissa(b) >= 2 ^ M
    <3>1. Scale(b) = Unbiased(b) - M /\ Scale(b) \in Nat /\ b.exp > 0
      BY <2>1, PartsOfDouble, DoubleBits DEF Scale, Unbiased
    <3>2. (IF Scale(b) > 0 THEN Scale(b) ELSE 0) = Scale(b)
      BY <3>1
    <3>3. d = 1
      <4>1. ~ (Scale(b) < 0)
        BY <3>1
      <4> QED BY <4>1, PowersOfTwo DEF Denominator
    <3>4. a = Mantissa(b) * 2 ^ Scale(b)
      BY <3>2 DEF Whole
    <3> QED BY <3>1, <3>3, <3>4, PartsOfDouble
  <2>6. \A x \in Nat : x + M <= Top /\ W - 1 <= x + M =>
            2 ^ x \in Nat /\ Mantissa(b) * 2 ^ x > 2 ^ (N - 1)
    <3> SUFFICES ASSUME NEW x \in Nat, x + M <= Top, W - 1 <= x + M
                 PROVE  2 ^ x \in Nat /\ Mantissa(b) * 2 ^ x > 2 ^ (N - 1)
      OBVIOUS
    <3> DEFINE y == x + M - N
    <3>1. y \in Nat /\ N + y = M + x /\ N + y <= Top /\ (N - 1) + 1 = N
      BY WordBits, DoubleBits
    <3>2. M \in Nat /\ M + x <= Top /\ N \in Nat /\ N - 1 \in 0 .. W + Bias
          /\ M \in 0 .. Top /\ x \in 0 .. Top /\ y \in 0 .. Top
      BY WordBits, DoubleBits DEF Top
    <3> HIDE DEF y
    <3>3. 2 ^ (M + x) = 2 ^ M * 2 ^ x /\ 2 ^ (N + y) = 2 ^ N * 2 ^ y
      BY <3>1, <3>2, PowersMultiply
    <3>4. 2 ^ N = 2 * 2 ^ (N - 1) /\ 2 ^ (N - 1) \in Nat \ {0}
      BY <3>1, <3>2, PowersOfTwo
    <3>5. 2 ^ M \in Nat /\ 2 ^ x \in Nat /\ 2 ^ y \in Nat \ {0}
      BY <3>2, PowersAreNumbers
    <3>6. 2 ^ N * 2 ^ y > 2 ^ (N - 1)
      BY <3>4, <3>5
    <3>7. Mantissa(b) * 2 ^ x >= 2 ^ M * 2 ^ x
      BY <2>5, <3>5
    <3> QED BY <2>5, <3>1, <3>3, <3>4, <3>5, <3>6, <3>7
  <2>7. all > 2 ^ (N - 1) /\ a > 2 ^ (N - 1) /\ a \in Nat
    <3>1. W - 1 - M \in Nat /\ (W - 1 - M) + M <= Top /\ W - 1 <= (W - 1 - M) + M
      BY DoubleBits DEF Top
    <3>2. /\ Unbiased(b) - M \in Nat /\ (Unbiased(b) - M) + M <= Top
          /\ W - 1 <= (Unbiased(b) - M) + M
      BY <2>1, PartsOfDouble, DoubleBits DEF Top
    <3>3. all > 2 ^ (N - 1)
      BY <2>2, <2>6, <3>1
    <3>4. a > 2 ^ (N - 1) /\ 2 ^ (Unbiased(b) - M) \in Nat
      BY <2>5, <2>6, <3>2
    <3> QED BY <2>5, <3>3, <3>4
  <2>8. Magnitude(a, d, b.sign, mode) = a
    <3>1. a \div 1 = a /\ a % 1 = 0
      BY <2>7
    <3>2. ~RoundsUp(a, 1, b.sign, mode)
      BY <3>1 DEF RoundsUp
    <3> QED BY <2>5, <2>7, <3>1, <3>2 DEF Magnitude
  <2>9. Converted(b, mode) = Saturated(a, b.sign)
    BY <1>3, <2>5, <2>7, <2>8, ConvertedByMagnitude
  <2> QED BY <1>0, <2>2, <2>4, <2>7, <2>9, LargeSaturate
<1> QED BY <1>1, <1>2, <1>3

LEMMA WholeIsNumber ==
    ASSUME NEW b \in Doubles
    PROVE  Whole(b) \in Nat /\ Denominator(b) \in Nat \ {0}
<1>1. Mantissa(b) \in Nat /\ Scale(b) \in 1 - Bias - M .. Bias + 1 - M
  BY PartsOfDouble, DoubleBits DEF Scale
<1> DEFINE up == IF Scale(b) > 0 THEN Scale(b) ELSE 0
           down == IF Scale(b) < 0 THEN -Scale(b) ELSE 0
<1>2. up \in 0 .. Top /\ down \in 0 .. Top
  BY <1>1, DoubleBits DEF Top
<1>3. Whole(b) = Mantissa(b) * 2 ^ up /\ Denominator(b) = 2 ^ down
  BY DEF Whole, Denominator
<1> HIDE DEF up, down
<1>4. 2 ^ up \in Nat /\ 2 ^ down \in Nat \ {0}
  BY <1>2, PowersAreNumbers
<1> QED BY <1>1, <1>3, <1>4

(* Towards zero, a number that is not a NaN converts to its quotient.              *)
LEMMA TruncatedConverts ==
    ASSUME NEW b \in Doubles, ~IsNan(b)
    PROVE  Converted(b, TowardsZero) = Saturated(Whole(b) \div Denominator(b), b.sign)
<1>1. Whole(b) \in Nat /\ Denominator(b) \in Nat \ {0}
  BY WholeIsNumber
<1>2. ~RoundsUp(Whole(b), Denominator(b), b.sign, TowardsZero)
  BY DEF RoundsUp, Nearest, TowardsZero, TowardsPositiveInfinity, TowardsNegativeInfinity
<1>3. Magnitude(Whole(b), Denominator(b), b.sign, TowardsZero) = Whole(b) \div Denominator(b)
  <2>1. Whole(b) \div Denominator(b) \in Nat
    BY <1>1, QuotientIsNumber
  <2> QED BY <1>2, <2>1 DEF Magnitude
<1>4. TowardsZero \in Nearest .. TowardsNegativeInfinity
  BY DEF Nearest, TowardsZero, TowardsNegativeInfinity
<1> QED BY <1>1, <1>3, <1>4, ConvertedByMagnitude

(* The quotient of a power of two is that power.                                *)
LEMMA PowerOfTwoConverts ==
    ASSUME NEW b \in Doubles, b.exp > 0, b.frac = 0, Unbiased(b) >= 0
    PROVE  Whole(b) \div Denominator(b) = 2 ^ Unbiased(b)
<1> DEFINE e == Unbiased(b)
<1>1. e \in 0 .. Bias + 1 /\ e \in 0 .. Top /\ M \in 0 .. Top
  BY PartsOfDouble, DoubleBits DEF Top
<1>2. Mantissa(b) = 2 ^ M /\ Scale(b) = e - M /\ 2 ^ M \in Nat /\ 2 ^ e \in Nat
  BY <1>1, PowersAreNumbers DEF Mantissa, Scale
<1> HIDE DEF e
<1>3. CASE e >= M
  <2>1. Denominator(b) = 1
    <3>1. ~ (Scale(b) < 0)
      BY <1>1, <1>2, <1>3
    <3> QED BY <3>1, PowersOfTwo DEF Denominator
  <2>2. Whole(b) = 2 ^ M * 2 ^ (e - M)
    <3>1. (IF Scale(b) > 0 THEN Scale(b) ELSE 0) = e - M
      BY <1>1, <1>2, <1>3
    <3> QED BY <1>2, <3>1 DEF Whole
  <2>3. 2 ^ e = 2 ^ M * 2 ^ (e - M)
    <3> DEFINE x == e - M
    <3>1. x \in Nat /\ M \in Nat /\ M + x = e /\ M + x <= Top
      BY <1>1, <1>3
    <3> HIDE DEF x
    <3>2. 2 ^ (M + x) = 2 ^ M * 2 ^ x
      BY <3>1, PowersMultiply
    <3> QED BY <3>1, <3>2 DEF x
  <2>4. 2 ^ e \div 1 = 2 ^ e
    BY <1>2
  <2> QED BY <2>1, <2>2, <2>3, <2>4 DEF e
<1>4. CASE e < M
  <2> DEFINE x == M - e
  <2>1. x \in Nat /\ x \in 0 .. Top /\ e \in Nat /\ e + x = M /\ e + x <= Top
    BY <1>1, <1>4, DoubleBits DEF Top
  <2>2. Denominator(b) = 2 ^ x
    <3>1. Scale(b) < 0 /\ -Scale(b) = x
      BY <1>1, <1>2, <1>4
    <3> QED BY <3>1 DEF Denominator
  <2>3. Whole(b) = 2 ^ M
    <3>1. (IF Scale(b) > 0 THEN Scale(b) ELSE 0) = 0
      BY <1>1, <1>2, <1>4
    <3>2. 2 ^ M * 1 = 2 ^ M
      BY <1>2
    <3> QED BY <1>2, <3>1, <3>2, PowersOfTwo DEF Whole
  <2> HIDE DEF x
  <2>4. 2 ^ M = 2 ^ e * 2 ^ x
    <3>1. 2 ^ (e + x) = 2 ^ e * 2 ^ x
      BY <2>1, PowersMultiply
    <3> QED BY <2>1, <3>1
  <2> DEFINE num == 2 ^ M
             d == 2 ^ x
             q == 2 ^ e
  <2>5. num \in Int /\ d \in Nat \ {0} /\ q \in Int /\ num = q * d + 0 /\ 0 \in 0 .. d - 1
    BY <1>2, <2>1, <2>4, PowersAreNumbers
  <2> HIDE DEF num, d, q
  <2>6. num \div d = q
    BY <2>5, Quotient
  <2> QED BY <2>2, <2>3, <2>6 DEF num, d, q, e
<1> QED BY <1>1, <1>3, <1>4, DoubleBits

(* The largest word of the table: all bits but the sign.                          *)
LEMMA LargestConverts ==
    ASSUME NEW b, b = Double(0, Bias + N - 2, (2 ^ (N - 2) - 1) * (2 ^ (M - (N - 2)))), b \in Doubles
    PROVE  Whole(b) \div Denominator(b) = 2 ^ (N - 1) - 1
<1> DEFINE x == M - (N - 2)
           p == 2 ^ (N - 2)
           d == 2 ^ x
           q == 2 ^ (N - 1) - 1
<1>1. x \in Nat /\ x \in 0 .. Top /\ N - 2 \in 0 .. W + Bias /\ N - 2 \in 0 .. Top
  BY WordBits, DoubleBits DEF Top
<1>2. p \in Nat \ {0} /\ d \in Nat \ {0} /\ q = 2 * p - 1
  <2>1. (N - 2) + 1 = N - 1
    BY WordBits
  <2> QED BY <1>1, <2>1, PowersAreNumbers, PowersOfTwo
<1>3. 2 ^ M = p * d
  <2> DEFINE y == N - 2
  <2>1. x \in Nat /\ y \in Nat /\ y + x = M /\ y + x <= Top
    BY <1>1, DoubleBits DEF Top
  <2> HIDE DEF x, y
  <2>2. 2 ^ (y + x) = 2 ^ y * 2 ^ x
    BY <2>1, PowersMultiply
  <2> QED BY <2>1, <2>2 DEF y
<1>4. b.exp = Bias + N - 2 /\ b.exp > 0 /\ b.frac = (p - 1) * d
  <2>1. b.exp = Bias + N - 2 /\ b.frac = (p - 1) * d
    BY DEF Double
  <2> QED BY <2>1, WordBits, DoubleBits
<1> HIDE DEF x
<1>5. Mantissa(b) = p * d + (p - 1) * d
  BY <1>3, <1>4 DEF Mantissa
<1>6. Scale(b) = (N - 2) - M
  BY <1>4, WordBits, DoubleBits DEF Scale, Unbiased
<1>7. Whole(b) = Mantissa(b)
  <2>1. (IF Scale(b) > 0 THEN Scale(b) ELSE 0) = 0
    BY <1>6, WordBits, DoubleBits
  <2>2. p * d + (p - 1) * d \in Nat
    BY <1>2
  <2>3. Mantissa(b) * 1 = Mantissa(b)
    BY <1>5, <2>2
  <2> QED BY <2>1, <2>3, PowersOfTwo DEF Whole
<1>8. Denominator(b) = d
  <2>1. (IF Scale(b) < 0 THEN -Scale(b) ELSE 0) = x
    BY <1>6, WordBits, DoubleBits DEF x
  <2> QED BY <2>1 DEF Denominator
<1> DEFINE num == p * d + (p - 1) * d
<1> HIDE DEF p, d, q
<1>9. num \in Int /\ q \in Int /\ num = q * d + 0 /\ 0 \in 0 .. d - 1
  BY <1>2
<1> HIDE DEF num
<1>10. num \div d = q
  BY <1>2, <1>9, Quotient
<1> QED BY <1>5, <1>7, <1>8, <1>10 DEF num, q

(* Every row of fctiwz.cpp's table agrees with fctiw_expected in the mode that truncates.  *)
LEMMA TableAgrees ==
    ASSUME NEW row_ \in FctiwzValues, row_[1] \in Doubles
    PROVE  Converted(row_[1], TowardsZero) = row_[2]
<1> DEFINE b == row_[1]
           half == 2 ^ (N - 1)
<1>1. half \in Nat /\ half >= 2 /\ 2 ^ N = 2 * half
  <2>1. N - 1 \in 0 .. W + Bias /\ (N - 1) + 1 = N /\ N - 2 \in 0 .. W + Bias /\ (N - 2) + 1 = N - 1
    BY WordBits, DoubleBits
  <2>2. 2 ^ N = 2 * half /\ half = 2 * 2 ^ (N - 2) /\ 2 ^ (N - 2) \in Nat \ {0}
    BY <2>1, PowersOfTwo
  <2> QED BY <2>2
<1>2. \A k \in Nat, sign \in {0, 1} :
          Saturated(k, sign) = IF sign = 0 /\ k > half - 1 THEN half - 1
                               ELSE IF k > half THEN half
                               ELSE IF sign = 1 THEN (2 * half - 1 - k) + 1 ELSE k
  BY <1>1 DEF Saturated
<1>3. MaxExponent = 2 * Bias + 1 /\ Bias >= 1 /\ N >= 2
  BY PartsOfDouble, WordBits, DoubleBits
<1>4. ~IsNan(b) => Converted(b, TowardsZero) = Saturated(Whole(b) \div Denominator(b), b.sign)
  BY TruncatedConverts
<1>5. IsNan(b) => Converted(b, TowardsZero) = half
  BY DEF Converted
<1>6. Whole(b) \in Nat /\ Denominator(b) \in Nat \ {0}
  BY WholeIsNumber
<1>7. CASE \E sign \in {0, 1} : row_ = <<Double(sign, 0, 0), IF sign = 0 THEN 0 ELSE 2 ^ N>>
  <2>1. PICK sign \in {0, 1} : row_ = <<Double(sign, 0, 0), IF sign = 0 THEN 0 ELSE 2 ^ N>>
    BY <1>7
  <2>2. b.exp = 0 /\ b.frac = 0 /\ b.sign = sign
    BY <2>1 DEF Double
  <2>3. Mantissa(b) = 0 /\ ~IsNan(b)
    BY <2>2 DEF Mantissa, IsNan
  <2>4. Whole(b) = 0
    <3>1. Scale(b) > 0 => Scale(b) \in 0 .. Top
      BY PartsOfDouble, DoubleBits DEF Scale, Top
    <3>2. 0 \in 0 .. Top
      BY DoubleBits DEF Top
    <3>3. 2 ^ (IF Scale(b) > 0 THEN Scale(b) ELSE 0) \in Nat
      BY <3>1, <3>2, PowersAreNumbers
    <3> QED BY <2>3, <3>3 DEF Whole
  <2>5. Whole(b) \div Denominator(b) = 0
    BY <1>6, <2>4
  <2> QED BY <1>1, <1>2, <1>4, <2>1, <2>2, <2>3, <2>5
<1>8. CASE row_ \in {<<Double(0, 0, 1), 0>>, <<Double(0, 0, 2 ^ M - 1), 0>>}
  <2>1. b.exp = 0 /\ b.frac \in {1, 2 ^ M - 1} /\ b.sign = 0 /\ row_[2] = 0
    BY <1>8 DEF Double
  <2>2. Scale(b) = 1 - Bias - M /\ Scale(b) < 0 /\ ~IsNan(b)
    BY <1>3, <2>1, DoubleBits DEF Scale, Unbiased, IsNan
  <2>3. M + (Bias - 1) = -Scale(b) /\ M \in Nat /\ Bias - 1 \in Nat /\ M + (Bias - 1) <= Top
        /\ M \in 0 .. Top /\ Bias - 1 \in 0 .. Top /\ 1 + (M - 1) = M /\ M - 1 \in 0 .. W + Bias
    BY <1>3, <2>2, DoubleBits DEF Top
  <2>4. 2 ^ M \in Nat /\ 2 ^ M >= 2 /\ 2 ^ (Bias - 1) \in Nat \ {0} /\ 2 ^ (M + (Bias - 1)) = 2 ^ M * 2 ^ (Bias - 1)
    <3>1. 2 ^ M = 2 * 2 ^ (M - 1) /\ 2 ^ (M - 1) \in Nat \ {0}
      <4>1. (M - 1) + 1 = M
        BY <2>3
      <4> QED BY <2>3, <4>1, PowersOfTwo
    <3>2. 2 ^ (Bias - 1) \in Nat \ {0}
      BY <2>3, PowersAreNumbers
    <3>3. 2 ^ (M + (Bias - 1)) = 2 ^ M * 2 ^ (Bias - 1)
      BY <2>3, PowersMultiply
    <3> QED BY <3>1, <3>2, <3>3
  <2>5. Denominator(b) = 2 ^ M * 2 ^ (Bias - 1)
    BY <2>2, <2>3, <2>4 DEF Denominator
  <2>6. Mantissa(b) = b.frac /\ b.frac \in 0 .. 2 ^ M - 1
    BY <2>1, <2>4 DEF Mantissa
  <2>7. Whole(b) = b.frac
    <3>1. ~ (Scale(b) > 0)
      BY <2>2, DoubleBits
    <3>2. Whole(b) = b.frac * 1
      BY <2>6, <3>1, PowersOfTwo DEF Whole
    <3>3. b.frac \in Int
      BY <2>4, <2>6
    <3> QED BY <3>2, <3>3
  <2>8. Whole(b) \in 0 .. Denominator(b) - 1
    BY <2>4, <2>5, <2>6, <2>7
  <2>9. Whole(b) \div Denominator(b) = 0
    <3> DEFINE num == Whole(b)
               d == Denominator(b)
    <3>1. num \in Int /\ d \in Nat \ {0} /\ num = 0 * d + num /\ num \in 0 .. d - 1
      BY <1>6, <2>8
    <3> HIDE DEF num, d
    <3>2. num \div d = 0
      BY <3>1, Quotient
    <3> QED BY <3>2 DEF num, d
  <2> QED BY <1>1, <1>2, <1>4, <2>1, <2>2, <2>9
<1>9. CASE row_ \in {<<Double(0, Bias, 0), 1>>, <<Double(1, Bias, 0), 2 ^ N - 1>>}
  <2>1. b.exp = Bias /\ b.frac = 0 /\ b.sign \in {0, 1} /\ row_[2] = IF b.sign = 0 THEN 1 ELSE 2 ^ N - 1
    BY <1>9 DEF Double
  <2>2. Unbiased(b) = 0 /\ Unbiased(b) >= 0 /\ b.exp > 0 /\ ~IsNan(b)
    BY <1>3, <2>1, DoubleBits DEF Unbiased, IsNan
  <2>3. Whole(b) \div Denominator(b) = 1
    <3>1. Whole(b) \div Denominator(b) = 2 ^ Unbiased(b)
      BY <2>1, <2>2, PowerOfTwoConverts
    <3> QED BY <2>2, <3>1, PowersOfTwo
  <2> QED BY <1>1, <1>2, <1>4, <2>1, <2>2, <2>3
<1>10. CASE row_ = <<Double(1, Bias + N - 1, 0), 2 ^ (N - 1)>>
  <2>1. b.exp = Bias + N - 1 /\ b.frac = 0 /\ b.sign = 1 /\ row_[2] = half
    BY <1>10 DEF Double
  <2>2. Unbiased(b) = N - 1 /\ Unbiased(b) >= 0 /\ b.exp > 0 /\ ~IsNan(b)
    BY <1>3, <2>1, WordBits, DoubleBits DEF Unbiased, IsNan
  <2>3. Whole(b) \div Denominator(b) = half
    BY <2>1, <2>2, PowerOfTwoConverts
  <2> QED BY <1>1, <1>2, <1>4, <2>1, <2>2, <2>3
<1>11. CASE row_ = <<Double(0, Bias + N - 2, (2 ^ (N - 2) - 1) * (2 ^ (M - (N - 2)))), 2 ^ (N - 1) - 1>>
  <2>1. b = Double(0, Bias + N - 2, (2 ^ (N - 2) - 1) * (2 ^ (M - (N - 2)))) /\ row_[2] = half - 1
    BY <1>11
  <2>2. b.exp = Bias + N - 2 /\ b.sign = 0
    BY <2>1 DEF Double
  <2>3. ~IsNan(b)
    BY <1>3, <2>2, WordBits, DoubleBits DEF IsNan
  <2>4. Whole(b) \div Denominator(b) = half - 1
    BY <2>1, LargestConverts
  <2> QED BY <1>1, <1>2, <1>4, <2>1, <2>2, <2>3, <2>4
<1>12. CASE row_ \in {<<Double(0, MaxExponent, 0), 2 ^ (N - 1) - 1>>, <<Double(1, MaxExponent, 0), 2 ^ (N - 1)>>}
  <2>1. b.exp = MaxExponent /\ b.frac = 0 /\ b.sign \in {0, 1} /\ row_[2] = IF b.sign = 0 THEN half - 1 ELSE half
    BY <1>12 DEF Double
  <2>2. Unbiased(b) = Bias + 1 /\ Unbiased(b) >= 0 /\ b.exp > 0 /\ ~IsNan(b)
    BY <1>3, <2>1, DoubleBits DEF Unbiased, IsNan
  <2>3. Whole(b) \div Denominator(b) = 2 ^ (Bias + 1)
    BY <2>1, <2>2, PowerOfTwoConverts
  <2>4. 2 ^ (Bias + 1) \in Nat /\ 2 ^ (Bias + 1) > half
    <3> DEFINE y == Bias + 1 - N
    <3>1. y \in Nat /\ y \in 0 .. Top /\ N \in Nat /\ N + y = Bias + 1 /\ N + y <= Top
      BY <1>3, WordBits, DoubleBits DEF Top
    <3> HIDE DEF y
    <3>2. 2 ^ (N + y) = 2 ^ N * 2 ^ y
      BY <3>1, PowersMultiply
    <3>3. 2 ^ y \in Nat \ {0}
      BY <3>1, PowersAreNumbers
    <3>4. 2 * half * 2 ^ y >= 2 * half
      BY <1>1, <3>3
    <3> QED BY <1>1, <3>1, <3>2, <3>3, <3>4
  <2> QED BY <1>1, <1>2, <1>4, <2>1, <2>2, <2>3, <2>4
<1>13. CASE \E k \in {1, 2} : row_ = <<Double(1, MaxExponent, 2 ^ (M - k)), 2 ^ (N - 1)>>
  <2>1. PICK k \in {1, 2} : row_ = <<Double(1, MaxExponent, 2 ^ (M - k)), 2 ^ (N - 1)>>
    BY <1>13
  <2>2. M - k \in 0 .. W + Bias
    BY DoubleBits
  <2>3. 2 ^ (M - k) # 0
    BY <2>2, PowersOfTwo
  <2>4. IsNan(b) /\ row_[2] = half
    BY <2>1, <2>3 DEF Double, IsNan
  <2> QED BY <1>5, <2>4
<1> QED BY <1>7, <1>8, <1>9, <1>10, <1>11, <1>12, <1>13 DEF FctiwzValues


LEMMA TurnsAreFew ==
    ASSUME NEW b \in Doubles
    PROVE  /\ Turns(b) \in 0 .. W + Bias /\ (IsNan(b) => Turns(b) = 0)
           /\ (~IsNan(b) /\ Unbiased(b) < W - 1 => Turns(b) = W - 1 - Unbiased(b))
           /\ (Unbiased(b) >= W - 1 => Turns(b) = 0)
<1>1. Unbiased(b) \in 1 - Bias .. Bias + 1
  BY PartsOfDouble
<1> QED BY <1>1, DoubleBits DEF Turns

(* The loop's invariant holds from the request to the result.                       *)
LEMMA ConversionsStep == RefIInv /\ ConversionsIInv /\ [RefNext]_refVars => ConversionsIInv'
<1> SUFFICES ASSUME RefIInv, ConversionsIInv, [RefNext]_refVars PROVE ConversionsIInv'
  OBVIOUS
<1>0. \A q \in FctiwTest : q[1] = "fctiw" /\ q[2] \in Doubles /\ q[3] \in Nearest .. TowardsNegativeInfinity
  BY DEF FctiwTest
<1>1. CASE Ask
  <2>1. computed' = <<>> /\ ConversionsExact'
    BY <1>1 DEF Ask, Idle, NoRequest, RefIInv, Instruction, ConversionsExact, Expects
  <2>2. CASE asked' \in FctiwTest
    <3>1. asked'[2] \in Doubles /\ fctiw' = FctiwStart(asked'[2])
      BY <1>0, <1>1, <2>2 DEF Ask
    <3>2. fctiw'.i = 0 /\ fctiw'.i \in 0 .. Turns(asked'[2])
      <4>1. fctiw'.i = 0
        BY <3>1 DEF FctiwStart
      <4> QED BY <3>1, <4>1, TurnsAreFew
    <3>3. ShiftedOut(asked'[2], fctiw')
      BY <3>1, NothingShiftedOut
    <3> QED BY <2>1, <2>2, <3>2, <3>3 DEF ConversionsIInv
  <2>3. CASE asked' \in rlwimixTest \cup rlwinmxTest \cup rlwnmxTest \cup srawixTest \cup ReciprocalTest
    <3>1. asked'[1] # "fctiw"
      BY <2>3 DEF rlwimixTest, rlwinmxTest, rlwnmxTest, srawixTest, ReciprocalTest
    <3> QED BY <2>1, <3>1 DEF ConversionsIInv, Instruction
  <2> QED BY <1>1, <2>2, <2>3 DEF Ask
<1>2. CASE Shift
  <2> DEFINE b == asked[2]
  <2>1. /\ Instruction = "fctiw" /\ computed = <<>> /\ ~IsNan(b) /\ fctiw.i < W - 1 - Unbiased(b)
        /\ fctiw' = FctiwShift(fctiw) /\ asked' = asked /\ computed' = computed
    BY <1>2 DEF Shift, Shifting
  <2>2. asked \in FctiwTest /\ b \in Doubles /\ fctiw.i \in 0 .. Turns(b) /\ ShiftedOut(b, fctiw)
    BY <1>0, <2>1 DEF ConversionsIInv
  <2>3. Unbiased(b) < W - 1 /\ Turns(b) = W - 1 - Unbiased(b) /\ fctiw.i + 1 \in 0 .. Turns(b)
        /\ fctiw.i \in 0 .. W + Bias
    <3>1. Unbiased(b) \in 1 - Bias .. Bias + 1
      BY <2>2, PartsOfDouble
    <3>2. Unbiased(b) < W - 1
      BY <2>1, <2>2, <3>1, DoubleBits
    <3> QED BY <2>1, <2>2, <3>1, <3>2, TurnsAreFew, DoubleBits
  <2>4. fctiw'.i = fctiw.i + 1
    BY <2>1 DEF FctiwShift
  <2>5. ShiftedOut(b, FctiwShift(fctiw))
    BY <2>2, <2>3, ShiftKeepsTrack
  <2>6. ConversionsExact'
    BY <2>1 DEF ConversionsExact, Expects
  <2> QED BY <2>1, <2>2, <2>3, <2>4, <2>5, <2>6 DEF ConversionsIInv
<1>3. CASE Compute
  <2> DEFINE b == asked[2]
             mode == asked[3]
  <2>1. computed' = <<Answer>> /\ asked' = asked /\ fctiw' = fctiw
    BY <1>3 DEF Compute
  <2>2. CASE Instruction = "fctiw"
    <3>1. asked \in FctiwTest /\ fctiw.i \in 0 .. Turns(b) /\ ShiftedOut(b, fctiw)
      BY <2>2 DEF ConversionsIInv
    <3>2. b \in Doubles /\ mode \in Nearest .. TowardsNegativeInfinity
      BY <1>0, <3>1
    <3>3. fctiw.i = Turns(b)
      <4>1. IsNan(b) \/ ~ (fctiw.i < W - 1 - Unbiased(b))
        BY <1>3, <2>2 DEF Compute, Shifting
      <4>2. Unbiased(b) \in 1 - Bias .. Bias + 1
        BY <3>2, PartsOfDouble
      <4> QED BY <3>1, <3>2, <4>1, <4>2, TurnsAreFew, DoubleBits
    <3>4. Answer = FctiwResult(b, fctiw, mode)
      BY <2>2 DEF Answer
    <3>5. FctiwResult(b, fctiw, mode) = Converted(b, mode)
      BY <3>1, <3>2, <3>3, LoopConverts
    <3>6. ASSUME mode = TowardsZero, NEW row_ \in FctiwzValues, row_[1] = b
          PROVE  Converted(b, mode) = row_[2]
      BY <3>2, <3>6, TableAgrees
    <3>7. ConversionsExact'
      BY <2>1, <3>4, <3>5, <3>6 DEF ConversionsExact
    <3> QED BY <2>1, <3>1, <3>7 DEF ConversionsIInv, Instruction
  <2>3. CASE Instruction # "fctiw"
    BY <2>1, <2>3 DEF ConversionsIInv, ConversionsExact, Expects, Instruction
  <2> QED BY <2>2, <2>3
<1>4. CASE Done
  BY <1>4 DEF Done, ConversionsIInv, ConversionsExact, Expects, Instruction, NoRequest
<1>5. CASE UNCHANGED refVars
  BY <1>5 DEF refVars, ConversionsIInv, ConversionsExact, Expects, Instruction
<1> QED BY <1>1, <1>2, <1>3, <1>4, <1>5 DEF RefNext

(* Quotients of quotients: what the code's divisions of a mantissa by powers of two select.  *)
FresParts(f) ==
    LET p == (f \div 32) \div 1024
        k == (f \div 32) % 1024
        h == k \div 2
        o == k % 2
    IN  /\ p \in 0 .. 31 /\ h \in 0 .. 511 /\ o \in 0 .. 1
        /\ k = 2 * h + o /\ f \div 64 = 512 * p + h
LEMMA FresIndex == \A f \in Nat : f < 1048576 => FresParts(f)
<1> SUFFICES ASSUME NEW f \in Nat, f < 1048576 PROVE FresParts(f)
  OBVIOUS
<1> DEFINE i == f \div 32
           l == f % 32
           q == f \div 64
           r == f % 64
<1>1. i \in Int /\ l \in 0 .. 31 /\ f = 32 * i + l /\ q \in Int /\ r \in 0 .. 63 /\ f = 64 * q + r
  BY SMT, Divided
<1> HIDE DEF i, l, q, r
<1> DEFINE p == i \div 1024
           k == i % 1024
<1>2. p \in Int /\ k \in 0 .. 1023 /\ i = 1024 * p + k
  BY <1>1, SMT, Divided
<1> HIDE DEF p, k
<1> DEFINE h == k \div 2
           o == k % 2
<1>3. h \in Int /\ o \in 0 .. 1 /\ k = 2 * h + o
  BY <1>2, SMT, Divided
<1> HIDE DEF h, o
<1>4. p \in 0 .. 31 /\ h \in 0 .. 511
  BY <1>1, <1>2, <1>3, SMT
<1>5. q = 512 * p + h
  BY <1>1, <1>2, <1>3, SMT
<1> QED BY <1>3, <1>4, <1>5, SMT DEF i, p, k, h, o, q, FresParts

FrsqrteParts(f) ==
    LET p == (f \div 32) \div 2048
        k == (f \div 32) % 2048
        j == k \div 64
        l == k % 64
    IN  /\ p \in 0 .. 15 /\ j \in 0 .. 31 /\ l \in 0 .. 63
        /\ k = 64 * j + l /\ f \div 2048 = 32 * p + j
LEMMA FrsqrteIndex == \A f \in Nat : f < 1048576 => FrsqrteParts(f)
<1> SUFFICES ASSUME NEW f \in Nat, f < 1048576 PROVE FrsqrteParts(f)
  OBVIOUS
<1> DEFINE i == f \div 32
           t == f % 32
           q == f \div 2048
           r == f % 2048
<1>1. i \in Int /\ t \in 0 .. 31 /\ f = 32 * i + t /\ q \in Int /\ r \in 0 .. 2047 /\ f = 2048 * q + r
  BY SMT, Divided
<1> HIDE DEF i, t, q, r
<1> DEFINE p == i \div 2048
           k == i % 2048
<1>2. p \in Int /\ k \in 0 .. 2047 /\ i = 2048 * p + k
  BY <1>1, SMT, Divided
<1> HIDE DEF p, k
<1> DEFINE j == k \div 64
           l == k % 64
<1>3. j \in Int /\ l \in 0 .. 63 /\ k = 64 * j + l
  BY <1>2, SMT, Divided
<1> HIDE DEF j, l
<1>4. p \in 0 .. 15 /\ j \in 0 .. 31
  BY <1>1, <1>2, <1>3, SMT
<1>5. q = 32 * p + j
  BY <1>1, <1>2, <1>3, SMT
<1> QED BY <1>3, <1>4, <1>5, SMT DEF i, p, k, j, l, q, FrsqrteParts

(* The tables of fres: the estimate's mantissa has 23 bits, and times the number it is     *)
(* within 2^-12 of 1.                                                          *)
FresRow(p, h, o, e, Y) ==
    /\ e = fres_base[p + 1] - (fres_dec[p + 1] * (2 * h + o) + 1) \div 2
    /\ Y = 16384 + (e \div 512)
FresPiece(p, h, e, Y) ==
    LET X == 16384 + (512 * p + h)
    IN  /\ 0 <= e /\ e < 8388608
        /\ X * Y - 536870912 <= 131072 /\ 536870912 - X * Y <= 131072
LEMMA FresPieces ==
    ASSUME NEW p \in Nat, NEW h \in Nat, NEW o \in Nat, p < 32, h < 512, o < 2,
           NEW e \in Int, NEW Y \in Int, FresRow(p, h, o, e, Y)
    PROVE  FresPiece(p, h, e, Y)
<1>0. h \in 0 .. 511 /\ o \in 0 .. 1
  BY SMT
<1>1. CASE p \in 0 .. 7
  BY <1>0, <1>1, SMTT(120) DEF FresRow, FresPiece, fres_base, fres_dec
<1>2. CASE p \in 8 .. 15
  BY <1>0, <1>2, SMTT(120) DEF FresRow, FresPiece, fres_base, fres_dec
<1>3. CASE p \in 16 .. 23
  BY <1>0, <1>3, SMTT(120) DEF FresRow, FresPiece, fres_base, fres_dec
<1>4. CASE p \in 24 .. 31
  BY <1>0, <1>4, SMTT(120) DEF FresRow, FresPiece, fres_base, fres_dec
<1> QED BY <1>1, <1>2, <1>3, <1>4, SMT

(* The tables of frsqrte, for even and for odd exponents: the estimate's mantissa has 26    *)
(* bits, and its square times the number is within 2^-7 of 1.                        *)
FrsqrtePiece(p, j, l) ==
    LET e == frsqrte_base[p + 1] - frsqrte_dec[p + 1] * (64 * j + l)
        X == 512 + (32 * p + j)
        Y == 512 + (e \div 131072)
    IN  /\ 0 <= e /\ e < 67108864
        /\ X * Y * Y - 536870912 <= 4194304 /\ 536870912 - X * Y * Y <= 4194304
LEMMA FrsqrtePieces ==
    \A p, j, l \in Nat : p < 16 /\ j < 32 /\ l < 64 => FrsqrtePiece(p, j, l)
<1> SUFFICES ASSUME NEW p \in Nat, NEW j \in Nat, NEW l \in Nat, p < 16, j < 32, l < 64
             PROVE  FrsqrtePiece(p, j, l)
  OBVIOUS
<1>1. CASE 0 <= p /\ p < 4
  BY <1>1, SMTT(120) DEF FrsqrtePiece, frsqrte_base, frsqrte_dec
<1>2. CASE 4 <= p /\ p < 8
  BY <1>2, SMTT(120) DEF FrsqrtePiece, frsqrte_base, frsqrte_dec
<1>3. CASE 8 <= p /\ p < 12
  BY <1>3, SMTT(120) DEF FrsqrtePiece, frsqrte_base, frsqrte_dec
<1>4. CASE 12 <= p /\ p < 16
  BY <1>4, SMTT(120) DEF FrsqrtePiece, frsqrte_base, frsqrte_dec
<1> QED BY <1>1, <1>2, <1>3, <1>4, SMT

FrsqrteOddPiece(p, j, l) ==
    LET e == frsqrte_base[p + 16 + 1] - frsqrte_dec[p + 16 + 1] * (64 * j + l)
        X == 512 + (32 * p + j)
        Y == 512 + (e \div 131072)
    IN  /\ 0 <= e /\ e < 67108864
        /\ X * Y * Y - 268435456 <= 2097152 /\ 268435456 - X * Y * Y <= 2097152
LEMMA FrsqrteOddPieces ==
    \A p, j, l \in Nat : p < 16 /\ j < 32 /\ l < 64 => FrsqrteOddPiece(p, j, l)
<1> SUFFICES ASSUME NEW p \in Nat, NEW j \in Nat, NEW l \in Nat, p < 16, j < 32, l < 64
             PROVE  FrsqrteOddPiece(p, j, l)
  OBVIOUS
<1>1. CASE 0 <= p /\ p < 4
  BY <1>1, SMTT(120) DEF FrsqrteOddPiece, frsqrte_base, frsqrte_dec
<1>2. CASE 4 <= p /\ p < 8
  BY <1>2, SMTT(120) DEF FrsqrteOddPiece, frsqrte_base, frsqrte_dec
<1>3. CASE 8 <= p /\ p < 12
  BY <1>3, SMTT(120) DEF FrsqrteOddPiece, frsqrte_base, frsqrte_dec
<1>4. CASE 12 <= p /\ p < 16
  BY <1>4, SMTT(120) DEF FrsqrteOddPiece, frsqrte_base, frsqrte_dec
<1> QED BY <1>1, <1>2, <1>3, <1>4, SMT

(* A denormal has one shift that normalises it.                                   *)
LEMMA SmallPowers == \A z \in Nat : 0 < z /\ z < 21 => 2 ^ z \in Nat \ {0} /\ 2 ^ z = 2 * 2 ^ (z - 1)
<1> SUFFICES ASSUME NEW z \in Nat, 0 < z, z < 21 PROVE 2 ^ z \in Nat \ {0} /\ 2 ^ z = 2 * 2 ^ (z - 1)
  OBVIOUS
<1>1. CASE z = 1
  BY <1>1, SMT
<1>2. CASE z = 2
  BY <1>2, SMT
<1>3. CASE z = 3
  BY <1>3, SMT
<1>4. CASE z = 4
  BY <1>4, SMT
<1>5. CASE z = 5
  BY <1>5, SMT
<1>6. CASE z = 6
  BY <1>6, SMT
<1>7. CASE z = 7
  BY <1>7, SMT
<1>8. CASE z = 8
  BY <1>8, SMT
<1>9. CASE z = 9
  BY <1>9, SMT
<1>10. CASE z = 10
  BY <1>10, SMT
<1>11. CASE z = 11
  BY <1>11, SMT
<1>12. CASE z = 12
  BY <1>12, SMT
<1>13. CASE z = 13
  BY <1>13, SMT
<1>14. CASE z = 14
  BY <1>14, SMT
<1>15. CASE z = 15
  BY <1>15, SMT
<1>16. CASE z = 16
  BY <1>16, SMT
<1>17. CASE z = 17
  BY <1>17, SMT
<1>18. CASE z = 18
  BY <1>18, SMT
<1>19. CASE z = 19
  BY <1>19, SMT
<1>20. CASE z = 20
  BY <1>20, SMT
<1> QED BY <1>1, <1>2, <1>3, <1>4, <1>5, <1>6, <1>7, <1>8, <1>9, <1>10,
          <1>11, <1>12, <1>13, <1>14, <1>15, <1>16, <1>17, <1>18, <1>19, <1>20, SMT

LEMMA NormalShiftChosen ==
    ASSUME NEW f, NEW z \in 1 .. 20, f * (2 ^ z) \in 2 ^ 20 .. 2 ^ 21 - 1
    PROVE  NormalShift(f) \in 1 .. 20 /\ f * (2 ^ NormalShift(f)) \in 2 ^ 20 .. 2 ^ 21 - 1
  BY Zenon DEF NormalShift

LEMMA NormalShiftNormalises ==
    ASSUME NEW f \in Nat, 0 < f, f < 1048576
    PROVE  LET z == NormalShift(f)
           IN  z \in 1 .. 20 /\ f * 2 ^ z \in Nat /\ 1048576 <= f * 2 ^ z /\ f * 2 ^ z < 2097152
<1> DEFINE Enough == {z \in 1 .. 20 : f * 2 ^ z >= 1048576}
<1>1. 20 \in Enough
  BY SMT
<1>2. PICK z \in Enough : \A y \in Enough : z <= y
  <2>1. Enough \in SUBSET Nat
    BY SMT
  <2> HIDE DEF Enough
  <2>2. Enough # {}
    BY <1>1, SMT
  <2> QED BY ONLY <2>1, <2>2, LeastNumber, SMT
<1>3. z \in 1 .. 20 /\ 1048576 <= f * 2 ^ z /\ f * 2 ^ z < 2097152 /\ f * 2 ^ z \in Nat
  <2>0. z \in 1 .. 20
    BY <1>2, SMT
  <2>1. CASE z = 1
    BY <1>2, <2>1, SMT
  <2>2. CASE z # 1
    <3>1. z - 1 \in 1 .. 20 /\ z - 1 \notin Enough
      BY <1>2, <2>2, SMT
    <3>2. 2 ^ z = 2 * 2 ^ (z - 1) /\ 2 ^ (z - 1) \in Nat /\ 2 ^ z \in Nat
      <4>1. 2 ^ z \in Nat /\ 2 ^ z = 2 * 2 ^ (z - 1)
        <5>1. z \in Nat /\ 0 < z /\ z < 21
          BY <2>0, SMT
        <5> QED BY ONLY <5>1, SmallPowers, SMT
      <4> DEFINE y == z - 1
      <4>2. y \in Nat /\ 0 < y /\ y < 21
        BY <3>1, SMT
      <4> HIDE DEF y
      <4>3. 2 ^ y \in Nat
        BY ONLY <4>2, SmallPowers, SMT
      <4> QED BY <4>1, <4>3, SMT DEF y
    <3>3. f * 2 ^ (z - 1) < 1048576
      BY <3>1, <3>2, SMT
    <3>4. f * 2 ^ z = 2 * (f * 2 ^ (z - 1))
      BY <3>2, SMT
    <3> QED BY <1>2, <3>2, <3>3, <3>4, SMT
  <2> QED BY <2>1, <2>2, SMT
<1>4. z \in 1 .. 20 /\ f * 2 ^ z \in 2 ^ 20 .. 2 ^ 21 - 1
  BY <1>3, SMT
<1>5. NormalShift(f) \in 1 .. 20 /\ f * 2 ^ NormalShift(f) \in 2 ^ 20 .. 2 ^ 21 - 1
  BY <1>4, NormalShiftChosen, SMT
<1>6. f * 2 ^ NormalShift(f) \in Int
  BY <1>5, SmallPowers, SMT
<1> QED BY <1>5, <1>6, SMT

(* fres_expected's numbers are those between its two bounds, and the estimate is the       *)
(* table's.                                                                   *)
LEMMA FresNumbers ==
    ASSUME NEW v, v.exp \in Nat, fres_expected(v).class = "number"
    PROVE  /\ 895 <= v.exp /\ v.exp < 1149
           /\ fres_expected(v) = Estimate(v.sign, 2045 - v.exp, FresEntry(v.frac \div 32))
<1> USE SMT DEF fres_expected, Classified, Special
<1>1. ~ (v.exp = 0 /\ v.frac = 0)
  OBVIOUS
<1>2. ~ (v.exp = 2047 /\ v.frac = 0)
  OBVIOUS
<1>3. ~ (v.exp = 2047 /\ v.frac # 0)
  OBVIOUS
<1>4. fres_expected(v) =
          IF v.exp < 895 THEN Special("FLT_MAX", v.sign)
          ELSE IF v.exp >= 1149 THEN Special("zero", v.sign)
          ELSE Estimate(v.sign, 2045 - v.exp, FresEntry(v.frac \div 32))
  BY <1>1, <1>2, <1>3
<1>5. ~ (v.exp < 895) /\ ~ (v.exp >= 1149)
  BY <1>4
<1> QED BY <1>4, <1>5

LEMMA FresIsClose ==
    ASSUME NEW v, v.exp \in Nat, v.frac \in Nat, v.frac < 1048576,
           fres_expected(v).class = "number"
    PROVE  FresClose(v, fres_expected(v)) /\ fres_expected(v).exp \in 897 .. 1150
<1> DEFINE f == v.frac
           i == f \div 32
           p == i \div 1024
           k == i % 1024
           h == k \div 2
           o == k % 2
           found == FresEntry(i)
           e == fres_expected(v)
           X == 16384 + (f \div 64)
           Y == 16384 + (found \div 512)
<1>1. 895 <= v.exp /\ v.exp < 1149 /\ e = Estimate(v.sign, 2045 - v.exp, found)
  BY FresNumbers, SMT
<1>2. e.sign = v.sign /\ e.exp = 2045 - v.exp /\ e.frac = found
  BY <1>1, SMT DEF Estimate
<1>3. /\ p \in 0 .. 31 /\ h \in 0 .. 511 /\ o \in 0 .. 1
      /\ k = 2 * h + o /\ f \div 64 = 512 * p + h
  <2>1. FresParts(f)
    BY FresIndex, SMT
  <2> QED BY <2>1, SMT DEF FresParts
<1>4. found = fres_base[p + 1] - (fres_dec[p + 1] * k + 1) \div 2
  BY SMT DEF FresEntry
<1>5. FresClose(v, e) <=> /\ v.exp + e.exp = 2045 /\ 0 <= e.frac /\ e.frac < 8388608
                          /\ Distance(X * Y, 536870912) <= 131072 /\ e.sign = v.sign
                          /\ e.frac \in Int
  BY <1>2, SMT DEF FresClose
<1> HIDE DEF f, i, p, k, h, o, found, e
<1>6. found \in Int
  <2>1. fres_base[p + 1] \in Int /\ fres_dec[p + 1] \in Int
    BY <1>3, SMT DEF fres_base, fres_dec
  <2> QED BY <1>3, <1>4, <2>1, SMT
<1>7. /\ 0 <= found /\ found < 8388608
      /\ X * Y - 536870912 <= 131072 /\ 536870912 - X * Y <= 131072 /\ X \in Int /\ Y \in Int
  <2>1. found = fres_base[p + 1] - (fres_dec[p + 1] * (2 * h + o) + 1) \div 2
    BY <1>3, <1>4, SMT
  <2>2. X \in Int /\ Y \in Int /\ X = 16384 + (512 * p + h)
    BY <1>3, <1>6, SMT
  <2>3. FresRow(p, h, o, found, Y)
    BY <2>1, SMT DEF FresRow
  <2> HIDE DEF X, Y
  <2>4. FresPiece(p, h, found, Y)
    <3>1. p \in Nat /\ h \in Nat /\ o \in Nat /\ p < 32 /\ h < 512 /\ o < 2
      BY <1>3, SMT
    <3>2. Y \in Int
      BY <2>2, SMT
    <3> QED BY ONLY <3>1, <3>2, <1>6, <2>3, FresPieces, Zenon
  <2> QED BY <2>2, <2>4, SMT DEF FresPiece
<1>8. Distance(X * Y, 536870912) <= 131072
  BY <1>7, SMT DEF Distance
<1> QED BY <1>1, <1>2, <1>5, <1>6, <1>7, <1>8, SMT DEF e

(* The mantissa and the exponent that a number has once it is normalised.                *)
NormalParts(num) == num.exp \in Int /\ -19 <= num.exp /\ num.exp <= 2046 /\ num.frac \in Nat /\ num.frac < 1048576
LEMMA NormalIsNormal ==
    ASSUME NEW v, v \in [sign : {0, 1}, exp : Nat, frac : Nat], v.exp <= 2046, v.frac < 1048576,
           ~ (v.exp = 0 /\ v.frac = 0)
    PROVE  NormalParts(Normal(v))
<1>1. CASE v.exp # 0
  BY <1>1, SMT DEF Normal, NormalParts
<1>2. CASE v.exp = 0
  <2> DEFINE z == NormalShift(v.frac)
             y == v.frac * 2 ^ z
  <2>1. z \in 1 .. 20 /\ y \in Nat /\ 1048576 <= y /\ y < 2097152
    <3>1. v.frac \in Nat /\ 0 < v.frac
      BY <1>2, SMT
    <3> QED BY <3>1, NormalShiftNormalises, SMT
  <2>2. Normal(v) = [v EXCEPT !.exp = 1 - z, !.frac = y - 1048576]
    BY <1>2, SMT DEF Normal
  <2> HIDE DEF z, y
  <2>3. Normal(v).exp = 1 - z /\ Normal(v).frac = y - 1048576
    BY <2>2, SMT
  <2> QED BY <2>1, <2>3, SMT DEF NormalParts
<1> QED BY <1>1, <1>2, SMT

LEMMA FrsqrteNumbers ==
    ASSUME NEW v, v.sign \in {0, 1}, frsqrte_expected(v).class = "number"
    PROVE  LET num == Normal(v)
           IN  /\ v.exp # 2047 /\ ~ (v.exp = 0 /\ v.frac = 0)
               /\ frsqrte_expected(v) =
                      Estimate(0, ((2 * 1023 - (num.exp - 1022)) \div 2) % 2048,
                               FrsqrteEntry(num.frac \div 32, num.exp % 2 = 0))
<1> DEFINE num == Normal(v)
           e == Estimate(0, ((2 * 1023 - (num.exp - 1022)) \div 2) % 2048,
                         FrsqrteEntry(num.frac \div 32, num.exp % 2 = 0))
<1>1. frsqrte_expected(v) =
          Classified(v, IF v.sign = 1 THEN Special("nan", 0) ELSE Special("zero", 0),
                     IF v.sign = 1 THEN Special("nan", 0) ELSE e)
  BY SMT DEF frsqrte_expected
<1> HIDE DEF e
<1>2. v.exp # 2047 /\ ~ (v.exp = 0 /\ v.frac = 0)
  BY <1>1, SMT DEF Classified, Special
<1>3. frsqrte_expected(v) = IF v.sign = 1 THEN Special("nan", 0) ELSE e
  BY <1>1, <1>2, SMT DEF Classified
<1>4. v.sign # 1
  BY <1>3, SMT DEF Special
<1> QED BY <1>2, <1>3, <1>4, SMT DEF e

(* The exponent of an estimate of a root is half of that of the reciprocal, and which half  *)
(* of the tables is used depends on the bit that is lost.                             *)
RootExponent(x) ==
    LET y == ((2 * 1023 - (x - 1022)) \div 2) % 2048
        k == 3 * 1023 - x - 2 * y
    IN  y \in Int /\ (IF x % 2 = 0 THEN k = 1 ELSE k = 2)
LEMMA RootExponents == \A x \in Int : -19 <= x /\ x <= 2046 => RootExponent(x)
  BY SMTT(60) DEF RootExponent

RootBound(k) ==
    /\ k = 1 => 2 ^ (27 + k) = 268435456 /\ 2 ^ (27 + k - 7) = 2097152
    /\ k = 2 => 2 ^ (27 + k) = 536870912 /\ 2 ^ (27 + k - 7) = 4194304
LEMMA RootBounds == \A k \in Int : RootBound(k)
<1> SUFFICES ASSUME NEW k \in Int PROVE RootBound(k)
  OBVIOUS
<1>1. CASE k = 1
  BY <1>1, SMT DEF RootBound
<1>2. CASE k = 2
  BY <1>2, SMT DEF RootBound
<1> QED BY <1>1, <1>2, SMT DEF RootBound

(* Either half of the tables is as close as its exponents need.                         *)
LowEntry(i) == frsqrte_base[(i \div 2048) + 1] - frsqrte_dec[(i \div 2048) + 1] * (i % 2048)
HighEntry(i) ==
    frsqrte_base[(i \div 2048) + 16 + 1] - frsqrte_dec[(i \div 2048) + 16 + 1] * (i % 2048)
RootClose(f, found, one, distance) ==
    LET X == 512 + (f \div 2048)
        Y == 512 + (found \div 131072)
    IN  /\ found \in Int /\ 0 <= found /\ found < 67108864
        /\ X \in Int /\ Y \in Int
        /\ Distance(X * Y * Y, one) <= distance
LEMMA RootsAreClose ==
    ASSUME NEW f \in Nat, f < 1048576
    PROVE  RootClose(f, HighEntry(f \div 32), 268435456, 2097152) /\ RootClose(f, LowEntry(f \div 32), 536870912, 4194304)
<1> DEFINE i == f \div 32
           p == i \div 2048
           r == i % 2048
           j == r \div 64
           l == r % 64
           X == 512 + (f \div 2048)
           odd == frsqrte_base[p + 16 + 1] - frsqrte_dec[p + 16 + 1] * r
           even == frsqrte_base[p + 1] - frsqrte_dec[p + 1] * r
           Y == 512 + (odd \div 131072)
           Z == 512 + (even \div 131072)
<1>1. /\ p \in 0 .. 15 /\ j \in 0 .. 31 /\ l \in 0 .. 63
      /\ r = 64 * j + l /\ f \div 2048 = 32 * p + j
  <2>1. FrsqrteParts(f)
    BY FrsqrteIndex, SMT
  <2> QED BY <2>1, SMT DEF FrsqrteParts
<1>2. HighEntry(i) = odd /\ LowEntry(i) = even
  BY SMT DEF HighEntry, LowEntry
<1>3. /\ RootClose(f, HighEntry(f \div 32), 268435456, 2097152) <=>
             /\ odd \in Int /\ 0 <= odd /\ odd < 67108864 /\ X \in Int /\ Y \in Int
             /\ Distance(X * Y * Y, 268435456) <= 2097152
      /\ RootClose(f, LowEntry(f \div 32), 536870912, 4194304) <=>
             /\ even \in Int /\ 0 <= even /\ even < 67108864 /\ X \in Int /\ Z \in Int
             /\ Distance(X * Z * Z, 536870912) <= 4194304
  <2> HIDE DEF odd, even
  <2> QED BY <1>2, SMT DEF RootClose
<1> HIDE DEF i, p, r, j, l
<1>4. X \in Int /\ X = 512 + (32 * p + j)
  BY <1>1, SMT
<1>5. p \in Nat /\ j \in Nat /\ l \in Nat /\ p < 16 /\ j < 32 /\ l < 64
  BY <1>1, SMT
<1>6. odd \in Int /\ even \in Int
  <2>1. /\ frsqrte_base[p + 16 + 1] \in Int /\ frsqrte_dec[p + 16 + 1] \in Int
        /\ frsqrte_base[p + 1] \in Int /\ frsqrte_dec[p + 1] \in Int
    BY <1>1, SMT DEF frsqrte_base, frsqrte_dec
  <2> QED BY <1>1, <2>1, SMT
<1>7. FrsqrtePiece(p, j, l) /\ FrsqrteOddPiece(p, j, l)
  BY ONLY <1>5, FrsqrtePieces, FrsqrteOddPieces, Zenon
<1>8. /\ odd = frsqrte_base[p + 16 + 1] - frsqrte_dec[p + 16 + 1] * (64 * j + l)
      /\ even = frsqrte_base[p + 1] - frsqrte_dec[p + 1] * (64 * j + l)
  BY <1>1, SMT
<1>9. Y = 512 + (odd \div 131072) /\ Z = 512 + (even \div 131072)
  OBVIOUS
<1> HIDE DEF odd, even, X, Y, Z
<1>10. /\ 0 <= odd /\ odd < 67108864
       /\ X * Y * Y - 268435456 <= 2097152 /\ 268435456 - X * Y * Y <= 2097152
  BY <1>4, <1>7, <1>8, <1>9, SMT DEF FrsqrteOddPiece
<1>11. /\ 0 <= even /\ even < 67108864
       /\ X * Z * Z - 536870912 <= 4194304 /\ 536870912 - X * Z * Z <= 4194304
  BY <1>4, <1>7, <1>8, <1>9, SMT DEF FrsqrtePiece
<1>12. Y \in Int /\ Z \in Int
  BY <1>6, <1>9, SMT
<1>13. Distance(X * Y * Y, 268435456) <= 2097152 /\ Distance(X * Z * Z, 536870912) <= 4194304
  BY <1>4, <1>10, <1>11, <1>12, SMT DEF Distance
<1> QED BY <1>3, <1>4, <1>6, <1>10, <1>11, <1>12, <1>13, SMT

LEMMA FrsqrteIsClose ==
    ASSUME NEW v, v \in [sign : {0, 1}, exp : Nat, frac : Nat], v.exp <= 2047, v.frac < 1048576,
           frsqrte_expected(v).class = "number"
    PROVE  FrsqrteClose(Normal(v), frsqrte_expected(v))
<1> DEFINE num == Normal(v)
           f == num.frac
           odd == num.exp % 2 = 0
           found == FrsqrteEntry(f \div 32, odd)
           y == ((2 * 1023 - (num.exp - 1022)) \div 2) % 2048
           k == 3 * 1023 - num.exp - 2 * y
           e == frsqrte_expected(v)
<1>1. v.exp # 2047 /\ ~ (v.exp = 0 /\ v.frac = 0) /\ e = Estimate(0, y, found)
  BY FrsqrteNumbers, SMT
<1>2. e.exp = y /\ e.frac = found
  BY <1>1, SMT DEF Estimate
<1>3. NormalParts(num)
  <2>1. v.exp <= 2046
    BY <1>1, SMT
  <2> QED BY <1>1, <2>1, NormalIsNormal, SMT
<1>4. num.exp \in Int /\ -19 <= num.exp /\ num.exp <= 2046 /\ f \in Nat /\ f < 1048576
  BY <1>3, SMT DEF NormalParts
<1>5. y \in Int /\ (IF odd THEN k = 1 ELSE k = 2)
  <2>1. RootExponent(num.exp)
    BY <1>4, RootExponents, SMT
  <2> QED BY <2>1, SMT DEF RootExponent
<1>6. FrsqrteClose(num, e) <=>
          LET X == 512 + (f \div 2048)
              Y == 512 + (found \div 131072)
          IN  /\ found \in 0 .. 2 ^ 26 - 1
              /\ k \in {1, 2}
              /\ Distance(X * Y * Y, 2 ^ (27 + k)) <= 2 ^ (27 + k - 7)
  BY <1>2, SMT DEF FrsqrteClose
<1> HIDE DEF num, f, y, k, e
<1>7. RootClose(f, HighEntry(f \div 32), 268435456, 2097152) /\ RootClose(f, LowEntry(f \div 32), 536870912, 4194304)
  BY <1>4, RootsAreClose, SMT
<1>8. \/ k = 1 /\ found = HighEntry(f \div 32)
      \/ k = 2 /\ found = LowEntry(f \div 32)
  <2>1. CASE num.exp % 2 = 0
    BY <1>5, <2>1, SMT DEF FrsqrteEntry, HighEntry, LowEntry
  <2>2. CASE num.exp % 2 # 0
    <3> DEFINE p == (f \div 32) \div 2048
               q == f \div 32
    <3>1. q \in Int /\ p \in Int
      BY <1>4, SMT, Divided
    <3>2. p + 0 + 1 = p + 1
      <4> HIDE DEF p
      <4> QED BY <3>1, SMT
    <3> QED BY <1>5, <2>2, <3>2, SMT DEF FrsqrteEntry, LowEntry
  <2> QED BY <2>1, <2>2, SMT
<1> HIDE DEF found
<1>11. RootBound(k)
  BY <1>8, RootBounds, SMT
<1>9. CASE k = 1 /\ found = HighEntry(f \div 32)
  BY <1>6, <1>7, <1>9, <1>11, SMT DEF RootClose, RootBound, e, num
<1>10. CASE k = 2 /\ found = LowEntry(f \div 32)
  BY <1>6, <1>7, <1>10, <1>11, SMT DEF RootClose, RootBound, e, num
<1> QED BY <1>8, <1>9, <1>10, SMT

(* What reciprocal.cpp asks for is a number with an exponent and a mantissa of the loop, *)
(* and what is computed of it is close.                                          *)
EstimatesIInv ==
    /\ Instruction \in {"fres", "frsqrte"} => asked \in ReciprocalTest
    /\ EstimatesClose

LEMMA TriedIsNumber ==
    ASSUME NEW v \in Tried
    PROVE  /\ v \in [sign : {0, 1}, exp : Nat, frac : Nat] /\ v.exp <= 2047 /\ v.frac < 1048576
           /\ v.exp \in Nat /\ v.frac \in Nat
  BY TriedNumbers, SMT DEF Tried

LEMMA EstimatesStep == RefIInv /\ EstimatesIInv /\ [RefNext]_refVars => EstimatesIInv'
<1> SUFFICES ASSUME RefIInv, EstimatesIInv, [RefNext]_refVars PROVE EstimatesIInv'
  OBVIOUS
<1>1. CASE Ask
  <2>1. computed' = <<>> /\ EstimatesClose'
    BY <1>1, SMT DEF Ask, Idle, NoRequest, RefIInv, Instruction, EstimatesClose, Expects
  <2>2. CASE asked' \in ReciprocalTest
    BY <2>1, <2>2 DEF EstimatesIInv
  <2>3. CASE asked' \in rlwimixTest \cup rlwinmxTest \cup rlwnmxTest \cup srawixTest \cup FctiwTest
    <3>1. asked'[1] \notin {"fres", "frsqrte"}
      BY <2>3 DEF rlwimixTest, rlwinmxTest, rlwnmxTest, srawixTest, FctiwTest
    <3> QED BY <2>1, <3>1 DEF EstimatesIInv, Instruction
  <2> QED BY <1>1, <2>2, <2>3 DEF Ask
<1>2. CASE Shift
  BY <1>2 DEF Shift, EstimatesIInv, EstimatesClose, Expects, Instruction
<1>3. CASE Compute
  <2> DEFINE v == asked[2]
  <2>1. computed' = <<Answer>> /\ asked' = asked
    BY <1>3 DEF Compute
  <2>2. CASE Instruction \in {"fres", "frsqrte"}
    <3>1. asked \in ReciprocalTest /\ v \in Tried
      BY <2>2 DEF EstimatesIInv, ReciprocalTest
    <3>2. CASE Instruction = "fres"
      <4>1. Answer = fres_expected(v)
        BY <3>2 DEF Answer
      <4>2. Answer.class = "number" => FresClose(v, Answer) /\ Answer.exp \in 897 .. 1150
        BY <3>1, <4>1, TriedIsNumber, FresIsClose, SMT
      <4>3. EstimatesClose'
        BY <2>1, <3>2, <4>2 DEF EstimatesClose, Expects, Instruction
      <4> QED BY <2>1, <3>1, <4>3 DEF EstimatesIInv
    <3>3. CASE Instruction = "frsqrte"
      <4>1. Answer = frsqrte_expected(v)
        BY <3>3 DEF Answer
      <4>2. Answer.class = "number" => FrsqrteClose(Normal(v), Answer)
        BY <3>1, <4>1, TriedIsNumber, FrsqrteIsClose, SMT
      <4>3. EstimatesClose'
        BY <2>1, <3>3, <4>2 DEF EstimatesClose, Expects, Instruction
      <4> QED BY <2>1, <3>1, <4>3 DEF EstimatesIInv
    <3> QED BY <2>2, <3>2, <3>3
  <2>3. CASE Instruction \notin {"fres", "frsqrte"}
    BY <2>1, <2>3 DEF EstimatesIInv, EstimatesClose, Expects, Instruction
  <2> QED BY <2>2, <2>3
<1>4. CASE Done
  BY <1>4 DEF Done, EstimatesIInv, EstimatesClose, Expects, Instruction, NoRequest
<1>5. CASE UNCHANGED refVars
  BY <1>5 DEF refVars, EstimatesIInv, EstimatesClose, Expects, Instruction
<1> QED BY <1>1, <1>2, <1>3, <1>4, <1>5 DEF RefNext

(* fctiw.cpp's conversion, with the loop that shifts bit by bit, rounds every double in  *)
(* every mode as the instruction does, whatever the sizes of words, mantissas and     *)
(* exponents, and fctiwz.cpp's table is right.                                  *)
THEOREM ConversionsAreExact == RefSpec => []ConversionsExact
<1>1. RefInit => RefIInv /\ ConversionsIInv
  BY DEF RefInit, RefIInv, IntegersExact, ConversionsIInv, ConversionsExact, Expects, Instruction,
         Rotations, Idle, NoRequest
<1>2. ConversionsIInv => ConversionsExact
  BY DEF ConversionsIInv
<1> QED BY <1>1, <1>2, RefStep, ConversionsStep, PTL DEF RefSpec

(* reciprocal.cpp's estimates are as close as promised for every number of its loop, of  *)
(* all 2^32, denormals and all mantissas included.                                *)
THEOREM EstimatesAreClose == RefSpec => []EstimatesClose
<1>1. RefInit => RefIInv /\ EstimatesIInv
  BY DEF RefInit, RefIInv, IntegersExact, EstimatesIInv, EstimatesClose, Expects, Instruction,
         Rotations, Idle, NoRequest
<1>2. EstimatesIInv => EstimatesClose
  BY DEF EstimatesIInv
<1> QED BY <1>1, <1>2, RefStep, EstimatesStep, PTL DEF RefSpec

(* So all that the floating point tests expect is right.                            *)
THEOREM FloatsAreExpected == RefSpec => []FloatsExpected
<1>1. ConversionsExact /\ EstimatesClose <=> FloatsExpected
  BY DEF FloatsExpected
<1> QED BY <1>1, ConversionsAreExact, EstimatesAreClose, PTL


(***************************************************************************)
(* CpuModes                                                                *)
(***************************************************************************)
(* How many rows frsp.cpp and mtspr.cpp try. *)
LEMMA Tables ==
    /\ Rounds("frsp") = 1 .. 18
    /\ Rounds("mtspr") = 1 .. 2
  BY DEF Rounds, FrspValues, SprRegisters

(* The statements of a round of frsp.cpp. *)
LEMMA FrspCode ==
    ASSUME program = "frsp", round \in Rounds("frsp")
    PROVE  /\ DOMAIN Statements = 1 .. 3
           /\ Statements[1].do = "mtfsf" /\ Statements[1].fixed /\ Statements[1].of = {}
           /\ Statements[2].do = "frsp" /\ ~Statements[2].fixed /\ Statements[2].of = {}
           /\ Statements[3].do = "DO_TEST" /\ Statements[3].fixed /\ Statements[3].of = {2}
           /\ Statements[1].arg = [ni |-> FrspValues[round].ni, rn |-> FrspValues[round].rn]
           /\ Statements[2].arg = FrspValues[round].input
           /\ Statements[3].arg = FrspValues[round].expected
  BY DEF Statements, FrspTest, Volatile, Movable, DoTest

(* In the mode its row sets, each instruction of frsp.cpp gives what the row expects. *)
LEMMA FrspRight ==
    ASSUME NEW k \in Rounds("frsp"), fpscr.ni = FrspValues[k].ni, fpscr.rn = FrspValues[k].rn
    PROVE  Frsp(FrspValues[k].input) = FrspValues[k].expected
<1> k \in 1 .. 18
  BY Tables
<1> USE DEF Frsp, FrspValues, Entry, Exactly, Input, Tiny, Boundary, Denormal, Away, RoundedIn,
            RoundingMode
<1>1. CASE k = 1 BY <1>1
<1>2. CASE k = 2 BY <1>2
<1>3. CASE k = 3 BY <1>3
<1>4. CASE k = 4 BY <1>4
<1>5. CASE k = 5 BY <1>5
<1>6. CASE k = 6 BY <1>6
<1>7. CASE k = 7 BY <1>7
<1>8. CASE k = 8 BY <1>8
<1>9. CASE k = 9 BY <1>9
<1>10. CASE k = 10 BY <1>10
<1>11. CASE k = 11 BY <1>11
<1>12. CASE k = 12 BY <1>12
<1>13. CASE k = 13 BY <1>13
<1>14. CASE k = 14 BY <1>14
<1>15. CASE k = 15 BY <1>15
<1>16. CASE k = 16 BY <1>16
<1>17. CASE k = 17 BY <1>17
<1>18. CASE k = 18 BY <1>18
<1> HIDE DEF Frsp, FrspValues
<1> QED BY k \in 1 .. 18, <1>1, <1>2, <1>3, <1>4, <1>5, <1>6, <1>7, <1>8, <1>9, <1>10, <1>11,
           <1>12, <1>13, <1>14, <1>15, <1>16, <1>17, <1>18

(* The statements of a round of fctiw.cpp: the mode, six conversions and their DO_TESTs. *)
LEMMA FctiwCode ==
    ASSUME program = "fctiw", round \in Rounds("fctiw")
    PROVE  /\ DOMAIN Statements = 1 .. 13
           /\ Statements[1] = Volatile("mtfsf", [ni |-> 0, rn |-> round - 1])
           /\ \A j \in 2 .. 7 : Statements[j] = Movable("fctiw", FctiwValues[j - 1])
           /\ \A j \in 8 .. 13 :
                Statements[j] = DoTest({j - 6}, RoundedIn(round - 1, FctiwValues[j - 7]))
  BY DEF Statements, FctiwModeTest

(* The statements of a round of ni.cpp: the mode, five operations and their DO_TESTs. *)
LEMMA NiCode ==
    ASSUME program = "ni", round \in Rounds("ni")
    PROVE  /\ DOMAIN Statements = 1 .. 11
           /\ Statements[1] = Volatile("mtfsf", [ni |-> round - 1, rn |-> RoundingMode.Nearest])
           /\ \A j \in 2 .. 6 : Statements[j] = Movable("arithmetic", NiOperations[j - 1])
           /\ \A j \in 7 .. 11 :
                Statements[j] = DoTest({j - 5}, NiExpected(NiOperations[j - 6], round - 1))
  BY DEF Statements, NiTest

(* The statements of a round of fprf.cpp: mtfsfi, or one of the two tests of a row. *)
LEMMA FprfCode ==
    ASSUME program = "fprf", round \in Rounds("fprf")
    PROVE  \/ /\ round = 1
              /\ Statements = <<Volatile("mtfsf", [ni |-> 0, rn |-> RoundingMode.Nearest])>>
           \/ /\ round # 1
              /\ \E j \in 1 .. 9 : \/ Statements = TestArith(FprfValues[j])
                                   \/ \E c \in BOOLEAN : Statements = TestCompare(FprfValues[j], c)
<1>1. round \in 1 .. 28
  BY DEF Rounds, FprfRounds
<1>2. round = 1 => Statements = <<Volatile("mtfsf", [ni |-> 0, rn |-> RoundingMode.Nearest])>>
  BY DEF Statements, FprfTest
<1>3. ASSUME round # 1
      PROVE  \E j \in 1 .. 9 : \/ Statements = TestArith(FprfValues[j])
                               \/ \E c \in BOOLEAN : Statements = TestCompare(FprfValues[j], c)
  <2>1. PICK j \in 1 .. 9 : j = ((round - 2) \div 3) + 1
    BY <1>1, <1>3
  <2>2. PICK q \in 0 .. 2 : q = (round - 2) % 3
    BY <1>1, <1>3
  <2>3. Statements = CASE q = 0 -> TestArith(FprfValues[j])
                       [] q = 1 -> TestCompare(FprfValues[j], FALSE)
                       [] q = 2 -> TestCompare(FprfValues[j], TRUE)
    BY <1>3, <2>1, <2>2, Zenon DEF Statements, FprfTest
  <2>4. CASE q = 0
    BY <2>3, <2>4
  <2>5. CASE q = 1
    <3>1. Statements = TestCompare(FprfValues[j], FALSE)
      BY <2>3, <2>5
    <3> QED BY <3>1
  <2>6. CASE q = 2
    <3>1. Statements = TestCompare(FprfValues[j], TRUE)
      BY <2>3, <2>6
    <3> QED BY <3>1
  <2> QED BY <2>4, <2>5, <2>6
<1> QED BY <1>2, <1>3

(* The statements of a round of cr.cpp. *)
LEMMA CrCode ==
    ASSUME program = "cr", round \in Rounds("cr")
    PROVE  \E i \in 1 .. 3, m \in 1 .. 9, overflow \in BOOLEAN :
               Statements = <<Volatile("mtxer", overflow), Volatile("cmpwi", CrValues[i]),
                              Volatile("modify", Modifications[m]), Volatile("mfcr", 0),
                              DoTest({4}, CrExpected(i, Modifications[m], overflow))>>
<1>1. round \in 1 .. 54
  BY DEF Rounds, CrRounds
<1>2. ((round - 1) \div 18) + 1 \in 1 .. 3 /\ (((round - 1) \div 2) % 9) + 1 \in 1 .. 9
  BY <1>1
<1> QED BY <1>2 DEF Statements, CrTest

(* The statements of a round of mtspr.cpp. *)
LEMMA SprCode ==
    ASSUME program = "mtspr", round \in Rounds("mtspr")
    PROVE  /\ DOMAIN Statements = 1 .. 2
           /\ Statements[1] = Movable("mtspr", SprRegisters[round])
           /\ Statements[2] = DoTest({1}, SprExpected(SprRegisters[round]))
  BY DEF Statements, SprTest

(* The bits mtspr.cpp expects to stay set are those the registers have. *)
LEMMA SprRight == \A r \in {"GQR2", "XER"} : Implemented(r) = SprExpected(r)
<1>1. Implemented("XER") = SprExpected("XER")
  BY DEF Implemented, SprExpected
<1>2. Implemented("GQR2") = SprExpected("GQR2")
  BY DEF Implemented, SprExpected
<1> QED BY <1>1, <1>2

-----------------------------------------------------------------------------
(* A code has at most 13 statements, what a DO_TEST looks at is before it, and its   *)
(* place is fixed.                                                           *)
Sound(code) ==
    /\ DOMAIN code \subseteq 1 .. 13
    /\ \A k \in DOMAIN code : /\ \A j \in code[k].of : j \in 1 .. k - 1
                              /\ code[k].do = "DO_TEST" => code[k].fixed

(* So have all rounds of the six programs. *)
LEMMA CodeSound ==
    ASSUME program \in Programs, round \in Rounds(program)
    PROVE  Sound(Statements)
<1> USE DEF Volatile, Movable, DoTest
<1>1. CASE program = "frsp"
  <2>1. DOMAIN Statements = 1 .. 3
    BY <1>1, FrspCode
  <2>2. ASSUME NEW k \in 1 .. 3
        PROVE  /\ \A j \in Statements[k].of : j \in 1 .. k - 1
               /\ Statements[k].do = "DO_TEST" => Statements[k].fixed
    <3>1. k = 1 \/ k = 2 \/ k = 3
      OBVIOUS
    <3> QED BY <1>1, <3>1, FrspCode
  <2> QED BY <2>1, <2>2 DEF Sound
<1>2. CASE program = "fctiw"
  <2>1. DOMAIN Statements = 1 .. 13
    BY <1>2, FctiwCode
  <2>2. ASSUME NEW k \in 1 .. 13
        PROVE  /\ \A j \in Statements[k].of : j \in 1 .. k - 1
               /\ Statements[k].do = "DO_TEST" => Statements[k].fixed
    <3>1. k = 1 \/ k \in 2 .. 7 \/ k \in 8 .. 13
      OBVIOUS
    <3> QED BY <1>2, <3>1, FctiwCode
  <2> QED BY <2>1, <2>2 DEF Sound
<1>3. CASE program = "ni"
  <2>1. DOMAIN Statements = 1 .. 11
    BY <1>3, NiCode
  <2>2. ASSUME NEW k \in 1 .. 11
        PROVE  /\ \A j \in Statements[k].of : j \in 1 .. k - 1
               /\ Statements[k].do = "DO_TEST" => Statements[k].fixed
    <3>1. k = 1 \/ k \in 2 .. 6 \/ k \in 7 .. 11
      OBVIOUS
    <3> QED BY <1>3, <3>1, NiCode
  <2> QED BY <2>1, <2>2 DEF Sound
<1>4. CASE program = "fprf"
  <2>1. Sound(<<Volatile("mtfsf", [ni |-> 0, rn |-> RoundingMode.Nearest])>>)
    BY DEF Sound
  <2>2. ASSUME NEW v PROVE Sound(TestArith(v))
    BY DEF TestArith, Sound
  <2>3. ASSUME NEW v, NEW c PROVE Sound(TestCompare(v, c))
    BY DEF TestCompare, Sound
  <2> QED BY <1>4, <2>1, <2>2, <2>3, FprfCode
<1>5. CASE program = "cr"
  <2>1. ASSUME NEW a, NEW b, NEW c, NEW d
        PROVE  Sound(<<Volatile("mtxer", a), Volatile("cmpwi", b), Volatile("modify", c), Volatile("mfcr", 0),
                       DoTest({4}, d)>>)
    BY DEF Sound
  <2> QED BY <1>5, <2>1, CrCode
<1>6. CASE program = "mtspr"
  <2>1. DOMAIN Statements = 1 .. 2
    BY <1>6, SprCode
  <2>2. ASSUME NEW k \in 1 .. 2
        PROVE  /\ \A j \in Statements[k].of : j \in 1 .. k - 1
               /\ Statements[k].do = "DO_TEST" => Statements[k].fixed
    <3>1. k = 1 \/ k = 2
      OBVIOUS
    <3> QED BY <1>6, <3>1, SprCode
  <2> QED BY <2>1, <2>2 DEF Sound
<1> QED BY <1>1, <1>2, <1>3, <1>4, <1>5, <1>6 DEF Programs

(* Step for the statement k, and what has to be shown of it: unless it is executed     *)
(* out of its mode, it gives what the DO_TESTs that look at it expect.            *)
Stepped(k) ==
    /\ k \in DOMAIN Statements
    /\ Ready(Statements, k)
    /\ Execute(Statements[k])
    /\ done' = done \cup {k}
    /\ got' = [got EXCEPT ![k] = Gives(Statements[k])]
    /\ foreign' = (foreign /\ Statements[k].do \notin {"cmpwi", "fcmpo"})
    /\ off' = IF Overtakes(Statements, k) \/ (Statements[k].do = "mfcr" /\ foreign)
              THEN off \cup {k} ELSE off
    /\ UNCHANGED <<program, round>>
Right(k) ==
    \A m \in DOMAIN Statements : k \in Statements[m].of =>
        k \in off' \/ Gives(Statements[k]) = Statements[m].arg

(* frsp.cpp: after mtfsf nothing changes the mode until the round ends. *)
LEMMA FrspStep ==
    ASSUME ModesIInv, NEW k, Stepped(k), program = "frsp"
    PROVE  ModeSet' /\ Right(k)
<1>1. Statements' = Statements /\ program' = program
  BY DEF Stepped, Statements
<1>2. round \in Rounds("frsp") /\ k \in 1 .. 3
  BY FrspCode DEF ModesIInv, Stepped
<1> DEFINE s == Statements
<1>3. /\ s[1].do = "mtfsf" /\ s[2].do = "frsp" /\ s[3].do = "DO_TEST"
      /\ s[1].of = {} /\ s[2].of = {} /\ s[3].of = {2}
      /\ s[2].arg = FrspValues[round].input /\ s[3].arg = FrspValues[round].expected
      /\ s[1].arg = [ni |-> FrspValues[round].ni, rn |-> FrspValues[round].rn]
      /\ DOMAIN s = 1 .. 3
  BY <1>2, FrspCode
<1> HIDE DEF s
<1>4. ModeSet'
  <2>1. CASE k = 1
    BY <1>1, <1>3, <2>1 DEF s, ModeSet, Stepped, Execute, ModesIInv
  <2>2. CASE k # 1
    BY <1>1, <1>2, <1>3, <2>2 DEF s, ModeSet, Stepped, Execute, ModesIInv
  <2> QED BY <2>1, <2>2
<1>5. Right(k)
  <2> SUFFICES ASSUME k = 2, 2 \notin off' PROVE Gives(s[2]) = s[3].arg
    BY <1>2, <1>3 DEF Right, s
  <2>1. 1 \in done
    BY <1>3 DEF Stepped, Overtakes, s
  <2>2. Gives(s[2]) = Frsp(s[2].arg)
    BY <1>3 DEF Gives
  <2>3. fpscr.ni = FrspValues[round].ni /\ fpscr.rn = FrspValues[round].rn
    BY <1>3, <2>1 DEF ModesIInv, ModeSet, s
  <2> QED BY <1>2, <1>3, <2>2, <2>3, FrspRight
<1> QED BY <1>4, <1>5

(* fctiw.cpp: the same. *)
LEMMA FctiwStep ==
    ASSUME ModesIInv, NEW k, Stepped(k), program = "fctiw"
    PROVE  ModeSet' /\ Right(k)
<1>1. Statements' = Statements /\ program' = program
  BY DEF Stepped, Statements
<1> DEFINE s == Statements
<1>2. /\ k \in 1 .. 13 /\ DOMAIN s = 1 .. 13
      /\ s[1] = Volatile("mtfsf", [ni |-> 0, rn |-> round - 1])
      /\ \A j \in 2 .. 7 : s[j] = Movable("fctiw", FctiwValues[j - 1])
      /\ \A j \in 8 .. 13 : s[j] = DoTest({j - 6}, RoundedIn(round - 1, FctiwValues[j - 7]))
  BY FctiwCode DEF ModesIInv, Stepped
<1> HIDE DEF s
<1>3. ModeSet'
  <2>1. CASE k = 1
    BY <1>1, <1>2, <2>1 DEF s, ModeSet, Stepped, Execute, ModesIInv, Volatile
  <2>2. CASE k # 1
    <3>1. s[k].do # "mtfsf" /\ s[k].do # "fadd" /\ s[k].do # "fcmpo"
      BY <1>2, <2>2 DEF Movable, DoTest
    <3>2. fpscr' = fpscr
      BY <3>1 DEF s, Stepped, Execute
    <3> QED BY <1>1, <2>2, <3>2 DEF s, ModeSet, Stepped, ModesIInv
  <2> QED BY <2>1, <2>2
<1>4. Right(k)
  <2> SUFFICES ASSUME NEW m \in 1 .. 13, k \in s[m].of, k \notin off' PROVE Gives(s[k]) = s[m].arg
    BY <1>2 DEF Right, s
  <2>1. m \in 8 .. 13 /\ k = m - 6 /\ k \in 2 .. 7
    BY <1>2 DEF Volatile, Movable, DoTest
  <2>2. s[1].do = "mtfsf" /\ s[1].arg.rn = round - 1 /\ s[k].do = "fctiw" /\ s[k].arg = FctiwValues[k - 1]
    BY <1>2, <2>1 DEF Volatile, Movable
  <2>3. 1 \in done
    BY <1>2, <2>1, <2>2 DEF Stepped, Overtakes, s
  <2>4. fpscr.rn = round - 1
    BY <2>2, <2>3 DEF ModesIInv, ModeSet, s
  <2>5. s[m].arg = RoundedIn(round - 1, FctiwValues[k - 1])
    BY <1>2, <2>1 DEF DoTest
  <2> QED BY <2>2, <2>4, <2>5 DEF Gives
<1> QED BY <1>3, <1>4

(* ni.cpp: the same. *)
LEMMA NiStep ==
    ASSUME ModesIInv, NEW k, Stepped(k), program = "ni"
    PROVE  ModeSet' /\ Right(k)
<1>1. Statements' = Statements /\ program' = program
  BY DEF Stepped, Statements
<1> DEFINE s == Statements
<1>2. /\ k \in 1 .. 11 /\ DOMAIN s = 1 .. 11
      /\ s[1] = Volatile("mtfsf", [ni |-> round - 1, rn |-> RoundingMode.Nearest])
      /\ \A j \in 2 .. 6 : s[j] = Movable("arithmetic", NiOperations[j - 1])
      /\ \A j \in 7 .. 11 : s[j] = DoTest({j - 5}, NiExpected(NiOperations[j - 6], round - 1))
  BY NiCode DEF ModesIInv, Stepped
<1> HIDE DEF s
<1>3. ModeSet'
  <2>1. CASE k = 1
    BY <1>1, <1>2, <2>1 DEF s, ModeSet, Stepped, Execute, ModesIInv, Volatile
  <2>2. CASE k # 1
    <3>1. s[k].do # "mtfsf" /\ s[k].do # "fadd" /\ s[k].do # "fcmpo"
      BY <1>2, <2>2 DEF Movable, DoTest
    <3>2. fpscr' = fpscr
      BY <3>1 DEF s, Stepped, Execute
    <3> QED BY <1>1, <2>2, <3>2 DEF s, ModeSet, Stepped, ModesIInv
  <2> QED BY <2>1, <2>2
<1>4. Right(k)
  <2> SUFFICES ASSUME NEW m \in 1 .. 11, k \in s[m].of, k \notin off' PROVE Gives(s[k]) = s[m].arg
    BY <1>2 DEF Right, s
  <2>1. m \in 7 .. 11 /\ k = m - 5 /\ k \in 2 .. 6
    BY <1>2 DEF Volatile, Movable, DoTest
  <2>2. s[1].do = "mtfsf" /\ s[1].arg.ni = round - 1 /\ s[k].do = "arithmetic" /\ s[k].arg = NiOperations[k - 1]
    BY <1>2, <2>1 DEF Volatile, Movable
  <2>3. 1 \in done
    BY <1>2, <2>1, <2>2 DEF Stepped, Overtakes, s
  <2>4. fpscr.ni = round - 1
    BY <2>2, <2>3 DEF ModesIInv, ModeSet, s
  <2>5. s[m].arg = NiExpected(NiOperations[k - 1], round - 1)
    BY <1>2, <2>1 DEF DoTest
  <2> QED BY <2>2, <2>4, <2>5 DEF Gives, NiExpected
<1> QED BY <1>3, <1>4

(* A class is in one row of the table of fprf.cpp. *)
LEMMA FprfTable ==
    \A j \in 1 .. 9 :
        LET v == FprfValues[j]
        IN  FprfOf(v.class) = v.arith /\ v.arith = Fprf(v.arith.c, v.arith.cc) /\ Compared(v.class) = v.compare
<1>1. \A j \in 1 .. 9 : FprfValues[j].class =
        <<"quiet_nan", "-infinity", "-normal", "-denormal", "-zero", "+zero", "+denormal", "+normal", "+infinity">>[j]
  BY DEF FprfValues
<1>2. \A i, j \in 1 .. 9 : FprfValues[i].class = FprfValues[j].class => i = j
  BY <1>1
<1>3. \A j \in 1 .. 9 : FprfOf(FprfValues[j].class) = FprfValues[j].arith
  BY <1>2 DEF FprfOf
<1>4. \A j \in 1 .. 9 : FprfValues[j].arith = Fprf(FprfValues[j].arith.c, FprfValues[j].arith.cc)
  BY DEF FprfValues, Fprf
<1>5. \A j \in 1 .. 9 : Compared(FprfValues[j].class) = FprfValues[j].compare
  <2> TAKE j \in 1 .. 9
  <2> USE DEF FprfValues, Compared
  <2>1. CASE j = 1 BY <2>1
  <2>2. CASE j = 2 BY <2>2
  <2>3. CASE j = 3 BY <2>3
  <2>4. CASE j = 4 BY <2>4
  <2>5. CASE j = 5 BY <2>5
  <2>6. CASE j = 6 BY <2>6
  <2>7. CASE j = 7 BY <2>7
  <2>8. CASE j = 8 BY <2>8
  <2>9. CASE j = 9 BY <2>9
  <2> HIDE DEF FprfValues, Compared
  <2> QED BY <2>1, <2>2, <2>3, <2>4, <2>5, <2>6, <2>7, <2>8, <2>9
<1> QED BY <1>3, <1>4, <1>5

(* What the additions before the comparisons leave. *)
LEMMA FprfLeft ==
    /\ FprfOf("quiet_nan").c = TRUE /\ FprfOf("+zero").c = FALSE
    /\ \A c \in {"quiet_nan", "+zero"} : FprfOf(c) = Fprf(FprfOf(c).c, FprfOf(c).cc)
<1>1. FprfValues[1].class = "quiet_nan" /\ FprfValues[1].arith.c = TRUE
  BY DEF FprfValues, Fprf
<1>2. FprfValues[6].class = "+zero" /\ FprfValues[6].arith.c = FALSE
  BY DEF FprfValues, Fprf
<1> QED BY <1>1, <1>2, FprfTable

(* FPSCR has its three fields, and FPRF its two. *)
Shape(f) == f = [ni |-> f.ni, rn |-> f.rn, fprf |-> f.fprf] /\ f.fprf = Fprf(f.fprf.c, f.fprf.cc)

(* fprf.cpp: the additions and comparisons leave in FPRF and, unless the compiler     *)
(* compares something itself, in cr0 what the DO_TESTs expect there; mode 0 stays set. *)
LEMMA FprfStep ==
    ASSUME ModesIInv, NEW k, Stepped(k), program = "fprf"
    PROVE  ClassLeft' /\ Right(k) /\ Shape(fpscr)'
<1>1. Statements' = Statements /\ program' = program /\ round' = round
  BY DEF Stepped, Statements
<1>2. Shape(fpscr)
  BY DEF ModesIInv, Shape
<1> DEFINE s == Statements
<1>3. CASE round = 1 /\ s = <<Volatile("mtfsf", [ni |-> 0, rn |-> RoundingMode.Nearest])>>
  <2>1. k = 1 /\ DOMAIN s = {1} /\ s[1].do = "mtfsf" /\ s[1].of = {} /\ s[1].arg = [ni |-> 0, rn |-> RoundingMode.Nearest]
    BY <1>3 DEF Stepped, Volatile
  <2>2. fpscr' = [fpscr EXCEPT !.ni = 0, !.rn = RoundingMode.Nearest]
    BY <2>1 DEF Stepped, Execute
  <2>3. Shape(fpscr)' /\ fpscr'.ni = 0
    BY <1>2, <2>2 DEF Shape, Fprf
  <2> QED BY <1>1, <1>3, <2>1, <2>3 DEF ClassLeft, Right
<1>4. ASSUME round # 1, NEW j \in 1 .. 9, s = TestArith(FprfValues[j])
      PROVE  ClassLeft' /\ Right(k) /\ Shape(fpscr)'
  <2> DEFINE v == FprfValues[j]
  <2>1. /\ DOMAIN s = 1 .. 3
        /\ s[1].do = "fadd" /\ s[1].fixed /\ s[1].of = {} /\ s[1].arg = v.class
        /\ s[2].do = "mffs" /\ s[2].fixed /\ s[2].of = {}
        /\ s[3].do = "DO_TEST" /\ s[3].of = {2} /\ s[3].arg = v.arith
    BY <1>4 DEF TestArith, Volatile, DoTest
  <2>2. k \in 1 .. 3 /\ k \notin done /\ (k = 2 => 1 \in done)
    BY <2>1 DEF Stepped, Ready
  <2>3. fpscr.ni = 0
    BY <1>4 DEF ModesIInv, ClassLeft
  <2> HIDE DEF s
  <2>4. CASE k = 1
    <3>1. fpscr' = [fpscr EXCEPT !.fprf = FprfOf(v.class)]
      BY <2>1, <2>3, <2>4 DEF s, Stepped, Execute, Sum
    <3>2. fpscr'.ni = 0 /\ fpscr'.fprf = FprfOf(v.class) /\ Shape(fpscr)'
      BY <1>2, <2>3, <3>1, FprfTable DEF Shape
    <3> QED BY <1>1, <1>4, <2>1, <2>4, <3>2 DEF s, ClassLeft, Right
  <2>5. CASE k # 1
    <3>1. fpscr' = fpscr /\ (1 \in done' <=> 1 \in done) /\ (k = 2 => 2 \in done')
      BY <2>1, <2>2, <2>5 DEF s, Stepped, Execute
    <3>2. ClassLeft'
      BY <1>1, <1>4, <2>1, <2>2, <2>3, <2>5, <3>1 DEF s, ClassLeft, ModesIInv, Stepped
    <3>3. k = 2 => Gives(s[2]) = v.arith
      <4> SUFFICES ASSUME k = 2 PROVE fpscr.fprf = v.arith
        BY <2>1 DEF Gives
      <4> QED BY <1>4, <2>1, <2>2, FprfTable DEF s, ModesIInv, ClassLeft
    <3> QED BY <1>2, <2>1, <2>2, <3>1, <3>2, <3>3 DEF s, Right, Shape
  <2> QED BY <2>4, <2>5
<1>5. ASSUME round # 1, NEW j \in 1 .. 9, NEW c \in BOOLEAN, s = TestCompare(FprfValues[j], c)
      PROVE  ClassLeft' /\ Right(k) /\ Shape(fpscr)'
  <2> DEFINE v == FprfValues[j]
             class == IF c THEN "quiet_nan" ELSE "+zero"
  <2>1. /\ DOMAIN s = 1 .. 6
        /\ s[1].do = "fadd" /\ s[1].fixed /\ s[1].of = {} /\ s[1].arg = class
        /\ s[2].do = "fcmpo" /\ s[2].fixed /\ s[2].of = {} /\ s[2].arg = v.class
        /\ s[3].do = "mffs" /\ s[3].fixed /\ s[3].of = {}
        /\ s[4].do = "mfcr" /\ s[4].fixed /\ s[4].of = {}
        /\ s[5].do = "DO_TEST" /\ s[5].of = {4} /\ s[5].arg = v.compare
        /\ s[6].do = "DO_TEST" /\ s[6].of = {3} /\ s[6].arg = Fprf(c, v.compare)
    BY <1>5 DEF TestCompare, Volatile, DoTest
  <2>2. k \in 1 .. 6 /\ k \notin done /\ (k = 2 => 1 \in done) /\ (k \in 3 .. 4 => 1 \in done /\ 2 \in done)
    BY <2>1 DEF Stepped, Ready
  <2>3. fpscr.ni = 0
    BY <1>5 DEF ModesIInv, ClassLeft
  <2>4. FprfOf(class) = Fprf(FprfOf(class).c, FprfOf(class).cc) /\ FprfOf(class).c = c
    BY FprfLeft
  <2> HIDE DEF s, class
  <2>5. CASE k = 1
    <3>1. class \notin {"-denormal", "+denormal"}
      BY DEF class
    <3>2. fpscr' = [fpscr EXCEPT !.fprf = FprfOf(class)]
      BY <2>1, <2>3, <2>5, <3>1 DEF s, Stepped, Execute, Sum
    <3>3. fpscr'.ni = 0 /\ fpscr'.fprf = FprfOf(class) /\ Shape(fpscr)'
      BY <1>2, <2>3, <3>2, <2>4 DEF Shape
    <3>4. 2 \notin done'
      BY <2>1, <2>2, <2>5 DEF ModesIInv, InOrder, Stepped, s
    <3> QED BY <1>1, <1>5, <2>1, <2>5, <3>3, <3>4 DEF s, ClassLeft, Right
  <2>6. CASE k = 2
    <3>1. fpscr.fprf = FprfOf(class) /\ 1 \in done
      BY <1>5, <2>1, <2>2, <2>6 DEF s, ModesIInv, ClassLeft
    <3>2. fpscr' = [fpscr EXCEPT !.fprf.cc = Compared(v.class)] /\ cr0' = Compared(v.class)
      BY <2>1, <2>6 DEF s, Stepped, Execute
    <3>3. fpscr'.ni = 0 /\ fpscr'.fprf = Fprf(FprfOf(class).c, Compared(v.class)) /\ Shape(fpscr)'
      BY <1>2, <2>3, <2>4, <3>1, <3>2 DEF Shape, Fprf
    <3>4. 2 \in done'
      BY <2>6 DEF Stepped
    <3> QED BY <1>1, <1>5, <2>1, <2>6, <3>2, <3>3, <3>4 DEF s, ClassLeft, Right
  <2>7. CASE k \in 3 .. 6
    <3>1. s[k].do \in {"mffs", "mfcr", "DO_TEST"}
      BY <2>1, <2>7
    <3>2. fpscr' = fpscr /\ cr0' = cr0 /\ (foreign' <=> foreign)
      BY <3>1 DEF s, Stepped, Execute
    <3>3. (1 \in done' <=> 1 \in done) /\ (2 \in done' <=> 2 \in done)
      BY <2>7 DEF Stepped
    <3>4. ClassLeft'
      BY <1>1, <3>2, <3>3 DEF ClassLeft, ModesIInv
    <3>5. k = 3 => Gives(s[3]) = Fprf(c, v.compare)
      <4> SUFFICES ASSUME k = 3 PROVE fpscr.fprf = Fprf(c, v.compare)
        BY <2>1 DEF Gives
      <4> QED BY <1>5, <2>1, <2>2, <2>4, FprfTable DEF s, ModesIInv, ClassLeft
    <3>6. k = 4 => 4 \in off' \/ Gives(s[4]) = v.compare
      <4> SUFFICES ASSUME k = 4, ~foreign PROVE cr0 = v.compare
        BY <2>1 DEF s, Gives, Stepped
      <4> QED BY <1>5, <2>1, <2>2, FprfTable DEF s, ModesIInv, ClassLeft
    <3> QED BY <1>2, <2>1, <2>7, <3>2, <3>4, <3>5, <3>6 DEF s, Right, Shape
  <2> QED BY <2>2, <2>5, <2>6, <2>7
<1> QED BY <1>3, <1>4, <1>5, FprfCode DEF ModesIInv

(* cr.cpp: SO is what mtxer set, the comparison copies it, and one bit is changed,    *)
(* unless the compiler compares something itself before mfcr.                  *)
LEMMA CrStep ==
    ASSUME ModesIInv, NEW k, Stepped(k), program = "cr"
    PROVE  ConditionLeft' /\ Right(k)
<1>1. Statements' = Statements /\ program' = program
  BY DEF Stepped, Statements
<1> DEFINE s == Statements
<1>2. PICK i \in 1 .. 3, q \in 1 .. 9, overflow \in BOOLEAN :
        s = <<Volatile("mtxer", overflow), Volatile("cmpwi", CrValues[i]), Volatile("modify", Modifications[q]),
              Volatile("mfcr", 0), DoTest({4}, CrExpected(i, Modifications[q], overflow))>>
  BY CrCode DEF ModesIInv
<1> DEFINE m == Modifications[q]
           compared == CrValues[i] \cup (IF overflow THEN {"SO"} ELSE {})
<1>3. /\ DOMAIN s = 1 .. 5
      /\ s[1].do = "mtxer" /\ s[1].fixed /\ s[1].of = {} /\ s[1].arg = overflow
      /\ s[2].do = "cmpwi" /\ s[2].fixed /\ s[2].of = {} /\ s[2].arg = CrValues[i]
      /\ s[3].do = "modify" /\ s[3].fixed /\ s[3].of = {} /\ s[3].arg = m
      /\ s[4].do = "mfcr" /\ s[4].fixed /\ s[4].of = {}
      /\ s[5].do = "DO_TEST" /\ s[5].fixed /\ s[5].of = {4} /\ s[5].arg = Modified(compared, m)
  BY <1>2 DEF Volatile, DoTest, CrExpected
<1> HIDE DEF s, m, compared
<1>4. k \in 1 .. 5 /\ k \notin done /\ \A j \in 1 .. k - 1 : j \in 1 .. 4 => j \in done
  BY <1>3 DEF Stepped, Ready, s
<1>5. \A j \in done : j \in 1 .. 5 /\ \A l \in 1 .. j - 1 : l \in 1 .. 4 => l \in done
  BY <1>3 DEF ModesIInv, InOrder, s
<1> DEFINE Left(d, o, c, f) ==
        /\ 1 \in d => (o <=> overflow)
        /\ 2 \in d => \/ f
                      \/ c = IF 3 \in d THEN Modified(compared, m) ELSE compared
<1>6. ConditionLeft <=> Left(done, so, cr0, foreign)
  BY <1>3 DEF ConditionLeft, s, compared
<1>7. ConditionLeft' <=> Left(done', so', cr0', foreign')
  BY <1>1, <1>3 DEF ConditionLeft, s, compared
<1>8. Left(done, so, cr0, foreign)
  BY <1>6 DEF ModesIInv
<1>9. done' = done \cup {k}
  BY DEF Stepped
<1>10. CASE k = 1
  <2>1. (so' <=> overflow)
    BY <1>3, <1>10 DEF Stepped, Execute, s
  <2>2. 2 \notin done'
    BY <1>4, <1>5, <1>9, <1>10
  <2> QED BY <1>3, <1>7, <1>10, <2>1, <2>2 DEF Right, s
<1>11. CASE k = 2
  <2>1. 1 \in done /\ (so <=> overflow)
    BY <1>4, <1>8, <1>11
  <2>2. (so' <=> so) /\ cr0' = compared
    BY <1>3, <1>11, <2>1 DEF Stepped, Execute, s, compared
  <2>3. 3 \notin done'
    BY <1>4, <1>5, <1>9, <1>11
  <2> QED BY <1>3, <1>7, <1>11, <2>1, <2>2, <2>3 DEF Right, s
<1>12. CASE k = 3
  <2>1. 1 \in done /\ 2 \in done /\ (so <=> overflow) /\ (foreign \/ cr0 = compared)
    BY <1>4, <1>8, <1>12
  <2>2. (so' <=> so) /\ cr0' = Modified(cr0, m) /\ (foreign' <=> foreign)
    BY <1>3, <1>12 DEF Stepped, Execute, s
  <2> QED BY <1>3, <1>7, <1>9, <1>12, <2>1, <2>2 DEF Right, s
<1>13. CASE k \in {4, 5}
  <2>1. (so' <=> so) /\ cr0' = cr0 /\ (foreign' <=> foreign)
    BY <1>3, <1>13 DEF Stepped, Execute, s
  <2>2. ConditionLeft'
    BY <1>7, <1>8, <1>9, <1>13, <2>1
  <2>3. k = 4 => 4 \in off' \/ Gives(s[4]) = Modified(compared, m)
    <3> SUFFICES ASSUME k = 4, ~foreign PROVE cr0 = Modified(compared, m)
      BY <1>3 DEF s, Gives, Stepped
    <3> QED BY <1>4, <1>8
  <2> QED BY <1>3, <1>13, <2>2, <2>3 DEF Right, s
<1> QED BY <1>4, <1>10, <1>11, <1>12, <1>13

(* mtspr.cpp: what it reads back does not depend on what was there before. *)
LEMMA SprStep ==
    ASSUME ModesIInv, NEW k, Stepped(k), program = "mtspr"
    PROVE  Right(k)
<1>1. round \in 1 .. 2
  BY Tables DEF ModesIInv
<1>2. SprRegisters[round] \in {"GQR2", "XER"}
  BY <1>1 DEF SprRegisters
<1>3. /\ DOMAIN Statements = 1 .. 2 /\ Statements[1].of = {} /\ Statements[2].of = {1}
      /\ Statements[1].do = "mtspr" /\ Statements[1].arg = SprRegisters[round]
      /\ Statements[2].arg = SprExpected(SprRegisters[round])
  BY SprCode DEF Movable, DoTest, ModesIInv
<1> QED BY <1>2, <1>3, SprRight DEF Right, Gives

-----------------------------------------------------------------------------
(* Only fprf.cpp has statements that set FPRF. *)
LEMMA OthersKeepClass ==
    ASSUME ModesIInv, NEW k, Stepped(k), program # "fprf"
    PROVE  Shape(fpscr)'
<1>1. Statements[k].do \notin {"fadd", "fcmpo"}
  <2> USE DEF Volatile, Movable, DoTest
  <2>1. k \in DOMAIN Statements
    BY DEF Stepped
  <2>2. CASE program = "frsp"
    BY <2>1, <2>2, FrspCode DEF ModesIInv
  <2>3. CASE program = "fctiw"
    <3>1. k = 1 \/ k \in 2 .. 7 \/ k \in 8 .. 13
      BY <2>1, <2>3, FctiwCode DEF ModesIInv
    <3> QED BY <3>1, <2>3, FctiwCode DEF ModesIInv
  <2>4. CASE program = "ni"
    <3>1. k = 1 \/ k \in 2 .. 6 \/ k \in 7 .. 11
      BY <2>1, <2>4, NiCode DEF ModesIInv
    <3> QED BY <3>1, <2>4, NiCode DEF ModesIInv
  <2>5. CASE program = "cr"
    BY <2>1, <2>5, CrCode DEF ModesIInv
  <2>6. CASE program = "mtspr"
    BY <2>1, <2>6, SprCode DEF ModesIInv
  <2> QED BY <2>2, <2>3, <2>4, <2>5, <2>6 DEF ModesIInv, Programs
<1>2. CASE Statements[k].do = "mtfsf"
  <2>1. fpscr' = [fpscr EXCEPT !.ni = Statements[k].arg.ni, !.rn = Statements[k].arg.rn]
    BY <1>2 DEF Stepped, Execute
  <2> QED BY <2>1 DEF ModesIInv, Shape, Fprf
<1>3. CASE Statements[k].do # "mtfsf"
  <2>1. fpscr' = fpscr
    BY <1>1, <1>3 DEF Stepped, Execute
  <2> QED BY <2>1 DEF ModesIInv, Shape
<1> QED BY <1>2, <1>3

(* A statement preserves the invariant. *)
LEMMA StepIInv ==
    ASSUME ModesIInv, NEW k, Stepped(k)
    PROVE  ModesIInv'
<1>1. /\ Statements' = Statements /\ program' = program /\ round' = round
      /\ Rounds(program)' = Rounds(program)
  BY DEF Stepped, Statements
<1>2. Sound(Statements)
  BY CodeSound DEF ModesIInv
<1>3. k \in DOMAIN Statements /\ k \in 1 .. 13
  BY <1>2 DEF Stepped, Sound
<1>4. got' = [i \in 1 .. 13 |-> got'[i]] /\ got'[k] = Gives(Statements[k])
      /\ \A i \in 1 .. 13 : i # k => got'[i] = got[i]
  BY <1>3 DEF ModesIInv, Stepped
<1>5. done' \subseteq DOMAIN Statements'
  BY <1>1 DEF ModesIInv, Stepped
<1>6. InOrder'
  <2> SUFFICES ASSUME NEW i \in done', Statements[i].fixed,
                      NEW j \in 1 .. i - 1, Statements[j].fixed \/ j \in Statements[i].of
               PROVE  j \in done'
    BY <1>1 DEF InOrder
  <2> QED BY DEF ModesIInv, InOrder, Stepped, Ready
<1>7. ModeSet' /\ ClassLeft' /\ ConditionLeft' /\ Right(k) /\ Shape(fpscr)'
  <2>1. program \in Programs
    BY DEF ModesIInv
  <2>2. CASE program = "frsp"
    BY <1>1, <2>2, FrspStep, OthersKeepClass DEF ClassLeft, ConditionLeft
  <2>3. CASE program = "fctiw"
    BY <1>1, <2>3, FctiwStep, OthersKeepClass DEF ClassLeft, ConditionLeft
  <2>4. CASE program = "ni"
    BY <1>1, <2>4, NiStep, OthersKeepClass DEF ClassLeft, ConditionLeft
  <2>5. CASE program = "fprf"
    BY <1>1, <2>5, FprfStep DEF ModeSet, ConditionLeft
  <2>6. CASE program = "cr"
    BY <1>1, <2>6, CrStep, OthersKeepClass DEF ModeSet, ClassLeft
  <2>7. CASE program = "mtspr"
    BY <1>1, <2>7, SprStep, OthersKeepClass DEF ModeSet, ClassLeft, ConditionLeft
  <2> QED BY <2>1, <2>2, <2>3, <2>4, <2>5, <2>6, <2>7 DEF Programs
<1>8. GivenAsExpected'
  <2> SUFFICES ASSUME NEW m \in DOMAIN Statements, NEW j \in Statements[m].of, j \in done'
               PROVE  j \in off' \/ got'[j] = Statements[m].arg
    BY <1>1 DEF GivenAsExpected
  <2>1. CASE j = k
    BY <1>4, <1>7, <2>1 DEF Right
  <2>2. CASE j # k
    <3>1. j \in done /\ j \in 1 .. 13
      BY <1>2, <2>2 DEF Stepped, ModesIInv, Sound
    <3>2. j \in off \/ got[j] = Statements[m].arg
      BY <3>1 DEF ModesIInv, GivenAsExpected
    <3> QED BY <1>4, <2>2, <3>1, <3>2 DEF Stepped
  <2> QED BY <2>1, <2>2
<1> QED BY <1>1, <1>4, <1>5, <1>6, <1>7, <1>8 DEF ModesIInv, Shape

(* A round has statements, and begins with none executed. *)
LEMMA Fresh ==
    ASSUME done = {}, got = NothingYet, program # "fprf" \/ round = 1 \/ fpscr.ni = 0
    PROVE  /\ done \subseteq DOMAIN Statements /\ got = [k \in 1 .. 13 |-> got[k]]
           /\ InOrder /\ ModeSet /\ ClassLeft /\ ConditionLeft /\ GivenAsExpected
  BY DEF NothingYet, InOrder, ModeSet, ClassLeft, ConditionLeft, GivenAsExpected

(* Whatever modes the loader leaves, a program starts in its first round. *)
LEMMA Loader ==
    /\ \A f \in LoaderModes : Shape(f)
    /\ \A p \in Programs : 1 \in Rounds(p)
<1>1. \A f \in LoaderModes : Shape(f)
  BY DEF LoaderModes, Shape, Fprf
<1>2. \A p \in Programs : 1 \in Rounds(p)
  BY DEF Programs, Rounds, FrspValues, SprRegisters, FprfRounds, CrRounds
<1> QED BY <1>1, <1>2

(* Every initial state satisfies the invariant. *)
LEMMA ModesInitIInv == ModesInit => ModesIInv
  BY Fresh, Loader DEF ModesInit, ModesIInv, Shape

(* Every step preserves it: of a statement, of the compiler's own comparison, to      *)
(* the next round, whose statements find what earlier ones left, and to the next     *)
(* program.                                                                 *)
LEMMA ModesNextIInv == ModesIInv /\ [ModesNext]_modesVars => ModesIInv'
<1> SUFFICES ASSUME ModesIInv, [ModesNext]_modesVars PROVE ModesIInv'
  OBVIOUS
<1>1. CASE Step
  <2>1. PICK k \in DOMAIN Statements : Stepped(k)
    BY <1>1 DEF Step, Stepped
  <2> QED BY <2>1, StepIInv
<1>2. CASE CompilerCompares
  <2>1. Statements' = Statements /\ Rounds(program)' = Rounds(program)
    BY <1>2 DEF CompilerCompares, Statements
  <2> QED BY <1>2, <2>1 DEF CompilerCompares, ModesIInv, InOrder, ModeSet, ClassLeft, ConditionLeft, GivenAsExpected
<1>3. CASE NextRound
  <2>1. program' = "fprf" => fpscr'.ni = 0
    <3> SUFFICES ASSUME program = "fprf" PROVE fpscr.ni = 0
      BY <1>3 DEF NextRound
    <3>1. CASE round = 1
      <4>1. 1 \in DOMAIN Statements
        BY <3>1, FprfCode DEF ModesIInv
      <4> QED BY <1>3, <4>1 DEF NextRound, ModesIInv, ClassLeft
    <3>2. CASE round # 1
      BY <3>2 DEF ModesIInv, ClassLeft
    <3> QED BY <3>1, <3>2
  <2>2. /\ (done \subseteq DOMAIN Statements)' /\ (got = [k \in 1 .. 13 |-> got[k]])'
        /\ InOrder' /\ ModeSet' /\ ClassLeft' /\ ConditionLeft' /\ GivenAsExpected'
    BY <1>3, <2>1 DEF NextRound, NothingYet, InOrder, ModeSet, ClassLeft, ConditionLeft, GivenAsExpected
  <2> QED BY <1>3, <2>2 DEF NextRound, ModesIInv
<1>4. CASE NextProgram
  <2>1. /\ (done \subseteq DOMAIN Statements)' /\ (got = [k \in 1 .. 13 |-> got[k]])'
        /\ InOrder' /\ ModeSet' /\ ClassLeft' /\ ConditionLeft' /\ GivenAsExpected'
    BY <1>4 DEF NextProgram, NothingYet, InOrder, ModeSet, ClassLeft, ConditionLeft, GivenAsExpected
  <2> QED BY <1>4, <2>1, Loader DEF NextProgram, ModesIInv, Shape
<1>5. CASE UNCHANGED modesVars
  <2>1. Statements' = Statements /\ Rounds(program)' = Rounds(program)
    BY <1>5 DEF modesVars, Statements
  <2> QED BY <1>5, <2>1 DEF modesVars, ModesIInv, InOrder, ModeSet, ClassLeft, ConditionLeft, GivenAsExpected
<1> QED BY <1>1, <1>2, <1>3, <1>4, <1>5 DEF ModesNext

(* A subtest of frsp, fctiw, ni, fprf, cr or mtspr fails only if an instruction it      *)
(* looks at was moved out of its mode or the compiler used cr0 itself: what earlier  *)
(* rounds, programs or the loader left in the registers never matters.           *)
THEOREM ModesOnlyOff == ModesSpec => []FailsOnlyOff
<1>1. ModesIInv => FailsOnlyOff
  <2> SUFFICES ASSUME ModesIInv, NEW k \in DOMAIN Statements, Due(Statements, k),
                      Statements[k].of \cap off = {}
               PROVE  Holds(Statements, k)
    BY DEF FailsOnlyOff
  <2>1. Sound(Statements)
    BY CodeSound DEF ModesIInv
  <2>2. \A j \in Statements[k].of : j \in done
    BY <2>1 DEF Due, Ready, Sound
  <2> QED BY <2>2 DEF ModesIInv, GivenAsExpected, Holds
<1>2. ModesSpec => []ModesIInv
  BY ModesInitIInv, ModesNextIInv, PTL DEF ModesSpec
<1> QED BY <1>1, <1>2, PTL

=============================================================================
