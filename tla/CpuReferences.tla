---------------------------- MODULE CpuReferences ----------------------------
(***************************************************************************)
(* What cputest/ expects of the CPU where it computes it: the masks of rlw.cpp,  *)
(* the carry of srawix.cpp, the conversion of fctiw.cpp with the table of        *)
(* fctiwz.cpp, and the estimates of reciprocal.cpp.  Each is checked against     *)
(* what the instruction is for.                                             *)
(*                                                                         *)
(* The masks and the estimates have their real sizes.  For the others N stands   *)
(* for 32, the bits of a word, and for fctiw W for 64, the bits of frac, M for    *)
(* 52, those of a mantissa, and ExpBits for 11, those of an exponent.           *)
(***************************************************************************)
EXTENDS Integers, Sequences

CONSTANTS
    N, W, M, ExpBits,
    TriedExponents, TriedMantissas      \* the bounds on reciprocal.cpp's loop

(* The provers know no powers but those of two numbers they are given. *)
ASSUME WordBits == N \in Nat \ {0} /\ \A s \in 0 .. N - 1 : 2 ^ s \in Nat \ {0}

ASSUME TriedNumbers ==
    /\ \A exp \in TriedExponents : exp \in Nat /\ exp < 2048
    /\ \A frac \in TriedMantissas : frac \in Nat /\ frac < 2 ^ 20

VARIABLES
    asked,      \* the instruction and its operands, <<"none">> when there is none
    fctiw,      \* the local variables of fctiw_expected
    computed    \* what is expected of it, <<>> before it is computed

refVars == <<asked, fctiw, computed>>

-----------------------------------------------------------------------------
(* rlw.cpp.  A word is the set of its bits that are 1, bit 0 the highest. *)
Bits == 0 .. 31
AllOnes == Bits
Shl(x, s) == {b - s : b \in {b \in x : b >= s}}
Shr(x, s) == {b + s : b \in {b \in x : b + s <= 31}}
_rotl(x, shift) == LET s == shift % 32 IN IF s = 0 THEN x ELSE Shl(x, s) \cup Shr(x, 32 - s)

Xor(x, y) == (x \cup y) \ (x \cap y)
MaskBetween(mb, me) ==
    Xor(Shr(AllOnes, mb), IF me < 31 THEN Shr(AllOnes, me + 1) ELSE {})
(* The mutant does not invert the mask of a run that wraps around. *)
GetHelperMaskUnwrapped(mb, me) == MaskBetween(mb, me)
GetHelperMask(mb, me) ==
    IF me < mb THEN Bits \ MaskBetween(mb, me) ELSE MaskBetween(mb, me)

Nibbles(digits) == {b \in Bits : (digits[(b \div 4) + 1] \div (2 ^ (3 - (b % 4)))) % 2 = 1}
Each(digit) == Nibbles([k \in 1 .. 8 |-> digit])
Fours == Nibbles(<<4, 1, 4, 1, 4, 1, 4, 1>>)
rlwimi_values == {<<AllOnes, Fours>>, <<Each(4), AllOnes>>, <<Fours, Each(2)>>}
rlwinm_values ==
    {AllOnes, Each(4), Fours, Nibbles(<<1, 2, 3, 4, 5, 6, 7, 8>>), Nibbles(<<9, 0, 10, 11, 12, 13, 14, 15>>)}

ImmediateShifts ==
    {s \in {0, 15, 31} \X {0, 15, 31} \X {0, 15, 31} : s[1] = 0 /\ s[2] = 31 => s[3] = 0}
rlwimixTest ==
    {<<"rlwimi", v, s[1], s[2], s[3]>> : v \in rlwimi_values, s \in ImmediateShifts}
rlwinmxTest ==
    {<<"rlwinm", <<{}, v>>, s[1], s[2], s[3]>> : v \in rlwinm_values, s \in ImmediateShifts}
rlwnmxTest ==
    {<<"rlwnm", <<{}, v>>, s[1], s[2], s[3]>> :
        v \in rlwinm_values, s \in Bits \X {0, 7, 15, 23, 31} \X {0, 7, 15, 23, 31}}

(* computed_result; A is what rlwimi inserts into. *)
Inserted(A, S, sh, mask) == (A \ mask) \cup (_rotl(S, sh) \cap mask)
Masked(S, sh, mask) == _rotl(S, sh) \cap mask

(* The instructions: bit b comes from bit b + sh of S if it is in the run from      *)
(* bit mb to bit me, around the end if need be.                              *)
InRun(b, mb, me) == (b - mb) % 32 <= (me - mb) % 32
RotatedAndMasked(A, S, sh, mb, me) ==
    {b \in Bits : IF InRun(b, mb, me) THEN (b + sh) % 32 \in S ELSE b \in A}

-----------------------------------------------------------------------------
(* srawix.cpp, whose operand is rand() or INT_MIN. *)
Words == -(2 ^ (N - 1)) .. 2 ^ (N - 1) - 1
ShiftRight(value, shift) == value \div (2 ^ shift)
GetCarry(value, shift) ==
    IF shift # 0 /\ value < 0 /\ ShiftRight(value, shift) * (2 ^ shift) # value THEN 1 ELSE 0
srawixTest == {"srawi"} \X Words \X (0 .. N - 1)

(* A shift followed by addze divides by a power of two, towards zero. *)
TowardsZeroQuotient(a, d) == IF a < 0 THEN -((-a) \div d) ELSE a \div d

-----------------------------------------------------------------------------
(* fctiw_expected.  A double is its sign, its exponent's field and its mantissa.  *)
Bias == 2 ^ (ExpBits - 1) - 1
MaxExponent == 2 ^ ExpBits - 1

(* Of powers of two the provers are told no more than what they are.  frac has more   *)
(* bits than a mantissa and than a word, a mantissa has all bits but one of the       *)
(* largest word, and infinity, taken for a number, is larger than that.            *)
ASSUME PowersOfTwo ==
    2 ^ 0 = 1 /\ \A s \in 0 .. W + Bias : 2 ^ s \in Nat \ {0} /\ 2 ^ (s + 1) = 2 * 2 ^ s
ASSUME DoubleBits ==
    /\ W \in Nat /\ M \in Nat /\ ExpBits \in 1 .. W /\ Bias \in Nat
    /\ 2 <= N /\ N < W /\ 2 <= M /\ M < W /\ N - 2 <= M /\ N - 1 <= Bias

Double(sign, exp, frac) == [sign |-> sign, exp |-> exp, frac |-> frac]
Doubles == [sign : {0, 1}, exp : 0 .. MaxExponent, frac : 0 .. 2 ^ M - 1]
IsNan(b) == b.exp = MaxExponent /\ b.frac # 0
Nearest == 0
TowardsZero == 1
TowardsPositiveInfinity == 2
TowardsNegativeInfinity == 3

Unbiased(b) == IF b.exp > 0 THEN b.exp - Bias ELSE 1 - Bias
Mantissa(b) == (IF b.exp > 0 THEN 2 ^ M ELSE 0) + b.frac
FctiwStart(b) ==
    [frac |-> Mantissa(b) * (2 ^ (W - 1 - M)), gbit |-> FALSE, rbit |-> FALSE, xbit |-> FALSE, i |-> 0]

(* One turn of the loop. *)
FctiwShift(s) ==
    [frac |-> s.frac \div 2, gbit |-> s.frac % 2 = 1, rbit |-> s.gbit,
     xbit |-> s.xbit \/ s.rbit, i |-> s.i + 1]
Shifting(b) == fctiw.i < W - 1 - Unbiased(b)

Inexact(s) == s.gbit \/ s.rbit \/ s.xbit
Increment(s, sign, mode) ==
    CASE mode = Nearest -> s.gbit /\ (s.frac % 2 = 1 \/ s.rbit \/ s.xbit)
      [] mode = TowardsZero -> FALSE
      [] mode = TowardsPositiveInfinity -> sign = 0 /\ Inexact(s)
      [] mode = TowardsNegativeInfinity -> sign = 1 /\ Inexact(s)

(* The low bits of the result, without upper_bits.  Zero, subtracted from zero in  *)
(* 32 bits and carried in 64, sets the bit above them.                        *)
Saturated(frac, sign) ==
    IF sign = 0 /\ frac > 2 ^ (N - 1) - 1 THEN 2 ^ (N - 1) - 1
    ELSE IF frac > 2 ^ (N - 1) THEN 2 ^ (N - 1)
    ELSE IF sign = 1 THEN (2 ^ N - 1 - frac) + 1
    ELSE frac
FctiwResult(b, s, mode) ==
    IF IsNan(b) THEN 2 ^ (N - 1)
    ELSE Saturated(s.frac + (IF Increment(s, b.sign, mode) THEN 1 ELSE 0), b.sign)

FctiwTest == {"fctiw"} \X Doubles \X (Nearest .. TowardsNegativeInfinity)

(* The conversion: the quotient of the number, numerator over denominator, rounded *)
(* and held within a word; a zero that is negative sets the bit above it.       *)
Scale(b) == Unbiased(b) - M
Numerator(b) ==
    (IF b.sign = 1 THEN -1 ELSE 1) * Mantissa(b) * (2 ^ (IF Scale(b) > 0 THEN Scale(b) ELSE 0))
Denominator(b) == 2 ^ (IF Scale(b) < 0 THEN -Scale(b) ELSE 0)
Rounded(n, d, mode) ==
    LET low == n \div d
        rest == 2 * (n % d)
    IN  IF n % d = 0 THEN low
        ELSE CASE mode = TowardsZero -> IF n < 0 THEN low + 1 ELSE low
               [] mode = TowardsPositiveInfinity -> low + 1
               [] mode = TowardsNegativeInfinity -> low
               [] mode = Nearest -> IF rest > d \/ (rest = d /\ low % 2 = 1) THEN low + 1 ELSE low
Held(k) == IF k \in Words THEN k ELSE IF k < 0 THEN -(2 ^ (N - 1)) ELSE 2 ^ (N - 1) - 1
Converted(b, mode) ==
    LET k == Held(Rounded(Numerator(b), Denominator(b), mode))
    IN  IF IsNan(b) THEN 2 ^ (N - 1)
        ELSE IF b.sign = 1 /\ k = 0 THEN 2 ^ N
        ELSE k % (2 ^ N)

(* fctiwz.cpp, without upper_bits. *)
FctiwzValues ==
    {<<Double(0, 0, 0), 0>>, <<Double(1, 0, 0), 2 ^ N>>,
     <<Double(0, 0, 1), 0>>, <<Double(0, 0, 2 ^ M - 1), 0>>,
     <<Double(0, Bias, 0), 1>>, <<Double(1, Bias, 0), 2 ^ N - 1>>,
     <<Double(1, Bias + N - 1, 0), 2 ^ (N - 1)>>,
     <<Double(0, Bias + N - 2, (2 ^ (N - 2) - 1) * (2 ^ (M - (N - 2)))), 2 ^ (N - 1) - 1>>,
     <<Double(0, MaxExponent, 0), 2 ^ (N - 1) - 1>>, <<Double(1, MaxExponent, 0), 2 ^ (N - 1)>>,
     <<Double(1, MaxExponent, 2 ^ (M - 1)), 2 ^ (N - 1)>>,
     <<Double(1, MaxExponent, 2 ^ (M - 2)), 2 ^ (N - 1)>>}

-----------------------------------------------------------------------------
(* reciprocal.cpp.  A double is its sign, its exponent's field, and the highest 20  *)
(* bits of its mantissa, the others being 0.                                 *)
fres_base ==
    <<8386560, 7878656, 7399936, 6948864, 6522880, 6119936, 5738496, 5376000,
      5031936, 4704768, 4392960, 4096000, 3812352, 3540992, 3281920, 3033600,
      2795520, 2567168, 2348544, 2137600, 1935360, 1740800, 1551872, 1374208,
      1197056, 1031680, 866304, 712192, 558080, 413696, 269312, 134144>>
fres_dec ==
    <<993, 935, 881, 832, 787, 746, 708, 672, 639, 609, 581, 554, 530, 507, 485,
      465, 446, 428, 411, 395, 380, 366, 347, 347, 323, 323, 301, 301, 282, 282,
      264, 262>>
frsqrte_base ==
    <<67084288, 63082496, 59416576, 56041472, 52924416, 50032640, 47341568,
      44826624, 42471424, 40259584, 38174720, 36204544, 34344960, 32579584,
      30904320, 29310976, 27781120, 24950784, 22358016, 19972096, 17768448,
      15724544, 13819904, 12042240, 10375168, 8810496, 7335936, 5945344, 4628480,
      3381248, 2197504, 1071104>>
frsqrte_dec ==
    <<1956, 1792, 1648, 1522, 1412, 1316, 1228, 1150, 1082, 1018, 962, 910, 862,
      818, 778, 742, 1384, 1267, 1165, 1077, 999, 930, 869, 814, 764, 720, 680, 643,
      609, 579, 550, 523>>

Estimate(sign, exp, frac) == [class |-> "number", sign |-> sign, exp |-> exp, frac |-> frac]
Special(class, sign) == [class |-> class, sign |-> sign]

(* The special cases the two functions have in common, and the rest. *)
Classified(v, OfInfinity, OfNumber) ==
    CASE v.exp = 0 /\ v.frac = 0 -> Special("infinity", v.sign)
      [] v.exp = 2047 /\ v.frac = 0 -> OfInfinity
      [] v.exp = 2047 /\ v.frac # 0 -> Special("nan", v.sign)
      [] OTHER -> OfNumber

(* The estimate's mantissa has 23 bits. *)
FresEntry(i) ==
    fres_base[(i \div 1024) + 1] - (fres_dec[(i \div 1024) + 1] * (i % 1024) + 1) \div 2
fres_expected(v) ==
    Classified(v, Special("zero", v.sign),
        IF v.exp < 895 THEN Special("FLT_MAX", v.sign)
        ELSE IF v.exp >= 1149 THEN Special("zero", v.sign)
        ELSE Estimate(v.sign, 2045 - v.exp, FresEntry(v.frac \div 32)))

(* A denormal is normalised: the shift that brings its first bit to the hidden one. *)
NormalShift(frac) == CHOOSE z \in 1 .. 20 : frac * (2 ^ z) \in 2 ^ 20 .. 2 ^ 21 - 1
Normal(v) ==
    IF v.exp # 0 THEN v
    ELSE [v EXCEPT !.exp = 1 - NormalShift(v.frac), !.frac = v.frac * (2 ^ NormalShift(v.frac)) - 2 ^ 20]

(* The estimate's mantissa has 26 bits.  The mutant swaps the halves of the tables. *)
FrsqrteEntrySwapped(i, odd_exponent) ==
    LET index == (i \div 2048) + (IF odd_exponent THEN 0 ELSE 16) + 1
    IN  frsqrte_base[index] - frsqrte_dec[index] * (i % 2048)
FrsqrteEntry(i, odd_exponent) ==
    LET index == (i \div 2048) + (IF odd_exponent THEN 16 ELSE 0) + 1
    IN  frsqrte_base[index] - frsqrte_dec[index] * (i % 2048)
frsqrte_expected(v) ==
    Classified(v, IF v.sign = 1 THEN Special("nan", 0) ELSE Special("zero", 0),
        IF v.sign = 1 THEN Special("nan", 0)
        ELSE LET n == Normal(v)
             IN  Estimate(0, ((2 * 1023 - (n.exp - 1022)) \div 2) % 2048,
                          FrsqrteEntry(n.frac \div 32, n.exp % 2 = 0)))

(* Of all 2^32 numbers, those with one of these exponents and mantissas are tried. *)
Tried == [sign : {0, 1}, exp : TriedExponents, frac : TriedMantissas]
ReciprocalTest == {"fres", "frsqrte"} \X Tried

(* How good an estimate has to be: within 2^-12 of the reciprocal, and, of the root, *)
(* such that its square times the number is within 2^-7 of 1.  X and Y are the      *)
(* number's and the estimate's first bits.                                   *)
Distance(a, b) == IF a < b THEN b - a ELSE a - b
FresClose(v, e) ==
    LET X == 2 ^ 14 + (v.frac \div 64)
        Y == 2 ^ 14 + (e.frac \div (2 ^ 9))
    IN  /\ v.exp + e.exp = 2045
        /\ e.frac \in 0 .. 2 ^ 23 - 1
        /\ Distance(X * Y, 2 ^ 29) <= 2 ^ (29 - 12)
        /\ e.sign = v.sign
FrsqrteClose(n, e) ==
    LET X == 2 ^ 9 + (n.frac \div (2 ^ 11))
        Y == 2 ^ 9 + (e.frac \div (2 ^ 17))
        k == 3 * 1023 - n.exp - 2 * e.exp
    IN  /\ e.frac \in 0 .. 2 ^ 26 - 1
        /\ k \in {1, 2}
        /\ Distance(X * Y * Y, 2 ^ (27 + k)) <= 2 ^ (27 + k - 7)

-----------------------------------------------------------------------------
NoRequest == <<"none">>
Instruction == asked[1]
Idle == asked = NoRequest
NoLocals == FctiwStart(Double(0, 0, 0))

RefInit == asked = NoRequest /\ fctiw = NoLocals /\ computed = <<>>

(* A subtest asks for what to expect. *)
Ask ==
    /\ Idle
    /\ asked' \in rlwimixTest \cup rlwinmxTest \cup rlwnmxTest \cup srawixTest
                  \cup FctiwTest \cup ReciprocalTest
    /\ fctiw' = IF asked'[1] = "fctiw" THEN FctiwStart(asked'[2]) ELSE NoLocals
    /\ UNCHANGED computed

Shift ==
    /\ Instruction = "fctiw" /\ computed = <<>>
    /\ ~IsNan(asked[2]) /\ Shifting(asked[2])
    /\ fctiw' = FctiwShift(fctiw)
    /\ UNCHANGED <<asked, computed>>

Answer ==
    CASE Instruction = "rlwimi" ->
             Inserted(asked[2][1], asked[2][2], asked[3], GetHelperMask(asked[4], asked[5]))
      [] Instruction \in {"rlwinm", "rlwnm"} ->
             Masked(asked[2][2], asked[3], GetHelperMask(asked[4], asked[5]))
      [] Instruction = "srawi" -> <<ShiftRight(asked[2], asked[3]), GetCarry(asked[2], asked[3])>>
      [] Instruction = "fctiw" -> FctiwResult(asked[2], fctiw, asked[3])
      [] Instruction = "fres" -> fres_expected(asked[2])
      [] Instruction = "frsqrte" -> frsqrte_expected(asked[2])

Compute ==
    /\ ~Idle /\ computed = <<>>
    /\ Instruction = "fctiw" => IsNan(asked[2]) \/ ~Shifting(asked[2])
    /\ computed' = <<Answer>>
    /\ UNCHANGED <<asked, fctiw>>

Done ==
    /\ computed # <<>>
    /\ asked' = NoRequest /\ fctiw' = NoLocals /\ computed' = <<>>

RefNext == Ask \/ Shift \/ Compute \/ Done

RefSpec == RefInit /\ [][RefNext]_refVars

-----------------------------------------------------------------------------
Expects(instructions) == computed # <<>> /\ Instruction \in instructions

(* GetHelperMask and _rotl give what rlwimi, rlwinm and rlwnm do bit by bit, runs    *)
(* that wrap around and shifts by 0 included; and with GetCarry's carry added, the  *)
(* shift of srawi is a division that rounds towards zero.                      *)
IntegersExact ==
    /\ Expects({"rlwimi", "rlwinm", "rlwnm"}) =>
           computed[1] = RotatedAndMasked(asked[2][1], asked[2][2], asked[3], asked[4], asked[5])
    /\ Expects({"srawi"}) =>
           computed[1][1] + computed[1][2] = TowardsZeroQuotient(asked[2], 2 ^ asked[3])

(* fctiw_expected rounds every number correctly in every mode, however many bits     *)
(* its loop shifts out, saturates where a word ends, and gives the zeros and the    *)
(* NaNs of fctiwz.cpp's table, which agrees with it in all its rows.            *)
ConversionsExact ==
    Expects({"fctiw"}) =>
        /\ computed[1] = Converted(asked[2], asked[3])
        /\ asked[3] = TowardsZero =>
               \A row \in FctiwzValues : row[1] = asked[2] => computed[1] = row[2]

(* The tables of reciprocal.cpp, the exponents it computes, and its treatment of     *)
(* denormals give estimates as close as those instructions promise, and fres's is  *)
(* always a normal single.                                                  *)
EstimatesClose ==
    /\ Expects({"fres"}) /\ computed[1].class = "number" =>
           FresClose(asked[2], computed[1]) /\ computed[1].exp \in 897 .. 1150
    /\ Expects({"frsqrte"}) /\ computed[1].class = "number" =>
           FrsqrteClose(Normal(asked[2]), computed[1])

(* What fctiw.cpp, fctiwz.cpp and reciprocal.cpp expect is right.                   *)
FloatsExpected == ConversionsExact /\ EstimatesClose

=============================================================================
