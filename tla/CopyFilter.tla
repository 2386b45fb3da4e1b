------------------------------ MODULE CopyFilter ------------------------------
(***************************************************************************)
(* gxtest/copyfilter.cpp: an EFB copy mixes every row with its neighbours.   *)
(* The hardware has seven 6-bit weights in two registers, two for the row    *)
(* above, three for the row itself and two for the row below; the test       *)
(* thinks in three sums.  SetCopyFilter spreads the sums over the weights,   *)
(* and Predict computes the copy from the sums.                             *)
(*                                                                         *)
(* The gamma that Predict applies afterwards is floating-point arithmetic   *)
(* on the same byte, and is left out.                                        *)
(***************************************************************************)
EXTENDS GxArithmetic

CONSTANTS
    Sums,      \* values of copy_filter_sum that main goes through
    Columns    \* columns of the EFB that are compared

ASSUME SumsFit == Sums \subseteq 0 .. 3 * 63
ASSUME ColumnsAreBytes == Columns \subseteq 0 .. 255

VARIABLES
    doing,        \* "idle", "copy", "compare"
    ctx,       \* the CopyFilterTestContext
    low, high, \* the registers BPMEM_COPYFILTER0 and BPMEM_COPYFILTER1
    col,         \* the column compared
    actual     \* the pixel of the copy in that column

filterVars == <<doing, ctx, low, high, col, actual>>

Byte == 0 .. 255
COPYFILTER0 == 83
COPYFILTER1 == 84
Bit6 == 64
Bit12 == 4096
Bit18 == 262144
Bit24 == 16777216
Register(number, fields) == number * Bit24 + fields

-----------------------------------------------------------------------------
(* A sum is spread over fields that start at zero: each takes at most 63, and *)
(* what exceeds i of them goes to the next.  The mutant gives it to the      *)
(* second field only once the third would be needed.                        *)
PartLate(sum, i) == IF i > 0 /\ sum <= 63 * (i + 1) THEN 0 ELSE Least(sum - 63 * i, 63)
Part(sum, i) == IF i > 0 /\ sum <= 63 * i THEN 0 ELSE Least(sum - 63 * i, 63)

(* The fields of the two registers: w0 to w3, and w4 to w6. *)
LowFields(c) ==
    Part(c.prev, 0) + Bit6 * Part(c.prev, 1) + Bit12 * Part(c.cur, 1) + Bit18 * Part(c.cur, 0)
HighFields(c) == Part(c.cur, 2) + Bit6 * Part(c.next, 0) + Bit12 * Part(c.next, 1)

Field(register, unit) == (register \div unit) % 64
PrevWeights == Field(low, 1) + Field(low, Bit6)
CurWeights == Field(low, Bit12) + Field(low, Bit18) + Field(high, 1)
NextWeights == Field(high, Bit6) + Field(high, Bit12)

-----------------------------------------------------------------------------
(* GenerateEFBColor, rows 3 to 5 of a column: red and blue are the same in     *)
(* every row, green is not.                                                 *)
RedRows(column) == [prev |-> column, cur |-> column, next |-> column]
GreenRows(column) == [prev |-> 255, cur |-> column, next |-> 0]

Filtered(column, sums) ==
    [r |-> Clamped(Raw(RedRows(column), sums)),
     g |-> Clamped(Raw(GreenRows(column), sums)),
     b |-> Clamped(Raw(RedRows(column), sums))]
Predict(column, c) ==
    LET p == Filtered(column, c)
    IN  IF c.intensity THEN Stored(Intensity(p.r, p.g, p.b)) ELSE p

-----------------------------------------------------------------------------
(* main goes through the flags 2 to 15: which rows are weighted, at most as    *)
(* much as they have fields, and whether the copy is an intensity.          *)
Context(sum, flags) ==
    [prev |-> IF (flags \div 4) % 2 = 1 THEN Least(sum, 2 * 63) ELSE 0,
     cur  |-> IF (flags \div 2) % 2 = 1 THEN Least(sum, 3 * 63) ELSE 0,
     next |-> IF flags \div 8 = 1 THEN Least(sum, 2 * 63) ELSE 0,
     intensity |-> flags % 2 = 1]

(* CopyFilterTest first calls SetCopyFilter. *)
SetCopyFilter(c) ==
    /\ low' = Register(COPYFILTER0, LowFields(c))
    /\ high' = Register(COPYFILTER1, HighFields(c))

CopyFilterTest(sum, flags) ==
    /\ doing = "idle"
    /\ doing' = "copy"
    /\ ctx' = Context(sum, flags)
    /\ SetCopyFilter(ctx')
    /\ UNCHANGED <<col, actual>>

(* The GPU (external) copies: a column with the weights it was given. *)
Copy(column) ==
    /\ doing = "copy"
    /\ doing' = "compare"
    /\ col' = column
    /\ LET p == Filtered(column, [prev |-> PrevWeights, cur |-> CurWeights, next |-> NextWeights])
       IN  actual' = IF ctx.intensity THEN Stored(Intensity(p.r, p.g, p.b)) ELSE p
    /\ UNCHANGED <<ctx, low, high>>

Black == [r |-> 0, g |-> 0, b |-> 0]

(* The test goes on to another column, or ends. *)
Compare ==
    /\ doing = "compare"
    /\ doing' \in {"copy", "idle"}
    /\ col' = 0 /\ actual' = Black
    /\ UNCHANGED <<ctx, low, high>>

FilterInit ==
    /\ doing = "idle"
    /\ ctx = [prev |-> 0, cur |-> 0, next |-> 0, intensity |-> FALSE]
    /\ low = Register(COPYFILTER0, 0) /\ high = Register(COPYFILTER1, 0)
    /\ col = 0 /\ actual = Black

FilterNext ==
    \/ \E sum \in Sums, flags \in 2 .. 15 : CopyFilterTest(sum, flags)
    \/ \E column \in Columns : Copy(column)
    \/ Compare

FilterSpec == FilterInit /\ [][FilterNext]_filterVars

-----------------------------------------------------------------------------
(* Every variable keeps its type; no field of a filter register runs over     *)
(* into the register's number.                                              *)
FilterTypeOK ==
    /\ doing \in {"idle", "copy", "compare"}
    /\ ctx \in [prev : 0 .. 2 * 63, cur : 0 .. 3 * 63, next : 0 .. 2 * 63, intensity : BOOLEAN]
    /\ low \in Register(COPYFILTER0, 0) .. Register(COPYFILTER0, Bit24 - 1)
    /\ high \in Register(COPYFILTER1, 0) .. Register(COPYFILTER1, Bit18 - 1)
    /\ col \in Byte
    /\ actual \in [r : Byte, g : Byte, b : Byte]

(* The weights SetCopyFilter loads make the copy that Predict computes from   *)
(* the sums, for every filter main tries (CopyFilterTest's comparison).      *)
FilterPredicted == doing = "compare" => actual = Predict(col, ctx)

(* The fixed-point BT.601 conversion keeps to the nominal ranges, so that no   *)
(* narrowing conversion in it ever loses a digit.                           *)
IntensityInRange ==
    doing = "compare" /\ ctx.intensity =>
        actual.r \in 16 .. 235 /\ actual.g \in 16 .. 240 /\ actual.b \in 16 .. 240

=============================================================================
