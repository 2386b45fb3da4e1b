----------------------------- MODULE GxArithmetic -----------------------------
(***************************************************************************)
(* The arithmetic the GX tests expect of the GPU: a TEV stage, the bits of    *)
(* GetTevOutput, the formats of the EFB, the copy filter, BT.601 and the      *)
(* light of one channel.  The components and the programs share it.          *)
(***************************************************************************)
EXTENDS Integers

(* tev.cpp: what a combiner stage computes from its inputs. *)
LShift(scale) == CASE scale = "Scale2" -> 2 [] scale = "Scale4" -> 4 [] OTHER -> 1
RShift(scale) == IF scale = "Divide2" THEN 2 ELSE 1
RoundBias(scale, op) == CASE scale = "Divide2" -> 0 [] op = "Sub" -> 127 [] OTHER -> 128
Bias(bias) == CASE bias = "SubHalf" -> -128 [] bias = "AddHalf" -> 128 [] OTHER -> 0
Sign(op) == IF op = "Sub" THEN -1 ELSE 1
Between(lo, x, hi) == IF x < lo THEN lo ELSE IF x > hi THEN hi ELSE x

TevCombinerExpectation(a, b, c, d, scale, bias, op, clamp) ==
    LET c8 == c % 256
        c9 == c8 + c8 \div 128
        lerp == (((a % 256) * (256 - c9) + (b % 256) * c9) * LShift(scale) + RoundBias(scale, op)) \div 256
        sum == (d * LShift(scale) + lerp * Sign(op) + Bias(bias) * LShift(scale)) \div RShift(scale)
    IN  IF clamp THEN Between(0, sum, 255) ELSE Between(-1024, sum, 1023)

(* GetTevOutput puts the lower 6 bits and the upper 5, the first of which is   *)
(* the sign, together.                                                      *)
Combine(upper, lower) ==
    lower + (IF (upper \div 16) % 2 = 1 THEN -1024 + 64 * (upper % 16) ELSE 64 * upper)

-----------------------------------------------------------------------------
Least(a, b) == IF a < b THEN a ELSE b

(* copyfilter.cpp, SixBit: what a 6-bit channel gives when it is copied. *)
SixBit(v) == 4 * (v \div 4) + v \div 64

(* What a filter makes of the same byte of three rows: an overflow beyond 511 *)
(* is lost, anything else beyond 255 is clamped.                            *)
Raw(rows, sums) == (rows.prev * sums.prev + rows.cur * sums.cur + rows.next * sums.next) \div 64
Clamped(value) == Least(value % 512, 255)

(* BT.601 in fixed point, on 16-bit intermediates, rounded by the bit after    *)
(* the point, and stored in bytes.  The mutant forgets the offsets of the     *)
(* colour differences.                                                      *)
U16(n) == n % 65536
S16(n) == ((n + 32768) % 65536) - 32768
Rounded(n, offset) == (n \div 256) + ((n \div 128) % 2) + offset
IntensityUnsigned(r, g, b) ==
    [r |-> Rounded(U16(66 * r + 129 * g + 25 * b), 16),
     g |-> Rounded(S16(112 * b - 38 * r - 74 * g), 0),
     b |-> Rounded(S16(112 * r - 94 * g - 18 * b), 0)]
Intensity(r, g, b) ==
    [r |-> Rounded(U16(66 * r + 129 * g + 25 * b), 16),
     g |-> Rounded(S16(112 * b - 38 * r - 74 * g), 128),
     b |-> Rounded(S16(112 * r - 94 * g - 18 * b), 128)]
Stored(yuv) == [channel \in {"r", "g", "b"} |-> yuv[channel] % 256]

=============================================================================
