------------------------------- MODULE CpuModes -------------------------------
(***************************************************************************)
(* The programs of cputest/ that set a mode of the CPU and look at what an    *)
(* instruction does in it: frsp.cpp, fctiw.cpp, ni.cpp (FPSCR[NI], FPSCR[RN]),   *)
(* fprf.cpp (FPSCR[FPRF] and the condition register), cr.cpp (XER[SO] and the   *)
(* condition register), mtspr.cpp (the bits of XER and of a GQR that stay set).  *)
(*                                                                         *)
(* The compiler keeps the order of volatile asm statements, of asm statements   *)
(* without outputs, which are volatile too, and of calls.  It knows nothing of  *)
(* the modes: any other asm statement, and arithmetic written in C, it may put  *)
(* anywhere before its result is used.  No statement says that it writes the     *)
(* condition register, so the compiler may compare something of its own in cr0   *)
(* between any two of them.                                                 *)
(***************************************************************************)
EXTENDS Integers, Sequences

VARIABLES
    program,  \* "frsp", "fctiw", "ni", "fprf", "cr", "mtspr"
    round,    \* the index of the table entry or of the iteration tested
    done,     \* the statements of the round that have been executed
    fpscr,    \* NI, RN and FPRF: the class bit C and the set of condition bits
    so,       \* XER[SO]
    cr0,      \* the set of bits of the condition register's first field
    got,      \* what the statements of the round gave
    foreign,  \* history: cr0 is what the compiler's own code left
    off       \* history: the statements of the round executed in another state
              \* of the CPU than the program's order gives them

modesVars == <<program, round, done, fpscr, so, cr0, got, foreign, off>>

RoundingMode ==
    [Nearest |-> 0, TowardsZero |-> 1, TowardsPositiveInfinity |-> 2, TowardsNegativeInfinity |-> 3]

(* A statement: what it does with which arguments, whether its place is fixed,  *)
(* and, for a DO_TEST, which statements gave what it compares.               *)
Volatile(do, arg) == [do |-> do, fixed |-> TRUE, arg |-> arg, of |-> {}]
Movable(do, arg) == [do |-> do, fixed |-> FALSE, arg |-> arg, of |-> {}]
DoTest(of, expected) == [do |-> "DO_TEST", fixed |-> TRUE, arg |-> expected, of |-> of]

-----------------------------------------------------------------------------
(* frsp.cpp.  An input lies between two singles, below and above in magnitude,   *)
(* or is one; near is the nearer.                                           *)
Input(sign, below, near, above) == [sign |-> sign, below |-> below, near |-> near, above |-> above]
Exactly(sign, v) == Input(sign, v, v, v)
Tiny(sign) == Input(sign, "zero", "zero", "min_denormal")
Boundary(sign) == Input(sign, "max_denormal", "min_normal", "min_normal")
Entry(input, expected, ni, rn) == [input |-> input, expected |-> <<input.sign, expected>>, ni |-> ni, rn |-> rn]

FrspValues ==
    <<Entry(Exactly("+", "zero"), "zero", 0, RoundingMode.Nearest),
      Entry(Exactly("-", "zero"), "zero", 0, RoundingMode.Nearest),
      Entry(Tiny("+"), "zero", 0, RoundingMode.Nearest),
      Entry(Tiny("+"), "zero", 0, RoundingMode.Nearest),
      Entry(Tiny("+"), "zero", 0, RoundingMode.Nearest),
      Entry(Input("+", "zero", "min_denormal", "min_denormal"), "min_denormal", 0, RoundingMode.Nearest),
      Entry(Boundary("+"), "zero", 1, RoundingMode.TowardsPositiveInfinity),
      Entry(Boundary("+"), "zero", 1, RoundingMode.Nearest),
      Entry(Boundary("+"), "zero", 1, RoundingMode.Nearest),
      Entry(Exactly("+", "min_normal"), "min_normal", 1, RoundingMode.Nearest),
      Entry(Boundary("-"), "zero", 1, RoundingMode.TowardsNegativeInfinity),
      Entry(Boundary("-"), "zero", 1, RoundingMode.Nearest),
      Entry(Boundary("-"), "zero", 1, RoundingMode.Nearest),
      Entry(Exactly("-", "min_normal"), "min_normal", 1, RoundingMode.Nearest),
      Entry(Exactly("+", "infinity"), "infinity", 0, RoundingMode.Nearest),
      Entry(Exactly("-", "infinity"), "infinity", 0, RoundingMode.Nearest),
      Entry(Exactly("-", "nan"), "nan", 0, RoundingMode.Nearest),
      Entry(Exactly("-", "nan"), "nan", 0, RoundingMode.Nearest)>>

FrspTest(k) ==
    LET v == FrspValues[k]
    IN  <<Volatile("mtfsf", [ni |-> v.ni, rn |-> v.rn]),
          Movable("frsp", v.input),
          DoTest({2}, v.expected)>>

(* The CPU (external): a result that is a denormal before it is rounded is       *)
(* flushed in non-IEEE mode.                                                *)
Denormal(in) == in.below \in {"zero", "min_denormal", "max_denormal"} /\ in.above # "zero"
Away(rn, sign) ==
    <<rn, sign>> \in {<<RoundingMode.TowardsPositiveInfinity, "+">>, <<RoundingMode.TowardsNegativeInfinity, "-">>}
RoundedIn(rn, in) ==
    CASE rn = RoundingMode.Nearest -> in.near
      [] Away(rn, in.sign) -> in.above
      [] OTHER -> in.below
Frsp(in) == <<in.sign, IF fpscr.ni = 1 /\ Denormal(in) THEN "zero" ELSE RoundedIn(fpscr.rn, in)>>

-----------------------------------------------------------------------------
(* fctiw.cpp: numbers around an integer i and around i + 0.5, in each mode.  What is *)
(* expected of them is fctiw_expected's; CpuReferences has it.                *)
FctiwValues ==
    <<Exactly("+", "i"), Input("+", "i", "i", "i + 1"), Input("+", "i", "i + 1", "i + 1"),
      Exactly("-", "i"), Input("-", "i", "i", "i + 1"), Input("-", "i", "i + 1", "i + 1")>>
FctiwModeTest(k) ==
    LET rn == k - 1
    IN  <<Volatile("mtfsf", [ni |-> 0, rn |-> rn])>>
        \o [j \in 1 .. 6 |-> Movable("fctiw", FctiwValues[j])]
        \o [j \in 1 .. 6 |-> DoTest({j + 1}, RoundedIn(rn, FctiwValues[j]))]

-----------------------------------------------------------------------------
(* ni.cpp.  Each operation has a result, and another if its result or its        *)
(* operands were flushed.                                                   *)
Operation(result, flushed_in, flushed_out) ==
    [result |-> result, flushed_in |-> flushed_in, flushed_out |-> flushed_out]
NiOperations ==
    <<Operation("less", "equal", "less"),                                        \* zero >= smallest_denormal
      Operation("product", "zero", "product"),                                   \* smallest_denormal * large
      Operation("smallest_denormal", "smallest_denormal", "zero"),               \* smallest_normal / divisor
      Operation("smallest_normal", "smallest_normal", "zero"),                   \* smallest_normal * one_minus_ulp
      Operation("smallest_normal_single", "smallest_normal_single", "zero")>>    \* the same in single

(* Operands are not flushed, results are in non-IEEE mode. *)
NiExpected(op, ni) == IF ni = 1 THEN op.flushed_out ELSE op.result
NiTest(k) ==
    LET ni == k - 1
    IN  <<Volatile("mtfsf", [ni |-> ni, rn |-> RoundingMode.Nearest])>>
        \o [j \in 1 .. 5 |-> Movable("arithmetic", NiOperations[j])]
        \o [j \in 1 .. 5 |-> DoTest({j + 1}, NiExpected(NiOperations[j], ni))]

-----------------------------------------------------------------------------
(* fprf.cpp.  A value has a class; a result of that class sets FPRF.  For both   *)
(* precisions the values and what is expected are the same.                  *)
Fprf(c, cc) == [c |-> c, cc |-> cc]
FprfValues ==
    <<[class |-> "quiet_nan", arith |-> Fprf(TRUE, {"UN"}), compare |-> {"UN"}],
      [class |-> "-infinity", arith |-> Fprf(FALSE, {"LT", "UN"}), compare |-> {"LT"}],
      [class |-> "-normal", arith |-> Fprf(FALSE, {"LT"}), compare |-> {"LT"}],
      [class |-> "-denormal", arith |-> Fprf(TRUE, {"LT"}), compare |-> {"LT"}],
      [class |-> "-zero", arith |-> Fprf(TRUE, {"EQ"}), compare |-> {"EQ"}],
      [class |-> "+zero", arith |-> Fprf(FALSE, {"EQ"}), compare |-> {"EQ"}],
      [class |-> "+denormal", arith |-> Fprf(TRUE, {"GT"}), compare |-> {"GT"}],
      [class |-> "+normal", arith |-> Fprf(FALSE, {"GT"}), compare |-> {"GT"}],
      [class |-> "+infinity", arith |-> Fprf(FALSE, {"GT", "UN"}), compare |-> {"GT"}]>>

TestArith(v) ==
    <<Volatile("fadd", v.class), Volatile("mffs", 0), DoTest({2}, v.arith)>>

(* The addition before the comparison leaves the class bit of its result, which  *)
(* the comparison keeps.  The mutant's addition is not volatile.             *)
TestCompareMovable(v, c) ==
    <<Movable("fadd", IF c THEN "quiet_nan" ELSE "+zero"), Volatile("fcmpo", v.class),
      Volatile("mffs", 0), Volatile("mfcr", 0),
      DoTest({4}, v.compare), DoTest({3}, Fprf(c, v.compare))>>
TestCompare(v, c) ==
    <<Volatile("fadd", IF c THEN "quiet_nan" ELSE "+zero"), Volatile("fcmpo", v.class),
      Volatile("mffs", 0), Volatile("mfcr", 0),
      DoTest({4}, v.compare), DoTest({3}, Fprf(c, v.compare))>>

(* mtfsfi 7, 0 comes before the first value. *)
FprfRounds == 1 .. 1 + 3 * 9
FprfTest(k) ==
    IF k = 1 THEN <<Volatile("mtfsf", [ni |-> 0, rn |-> RoundingMode.Nearest])>>
    ELSE LET v == FprfValues[((k - 2) \div 3) + 1]
         IN  CASE (k - 2) % 3 = 0 -> TestArith(v)
               [] (k - 2) % 3 = 1 -> TestCompare(v, FALSE)
               [] (k - 2) % 3 = 2 -> TestCompare(v, TRUE)

(* The CPU (external): an addition of negative zero; a denormal is flushed in     *)
(* non-IEEE mode.  A comparison with negative zero sets the condition bits only. *)
Sum(class) ==
    IF fpscr.ni = 1 /\ class \in {"-denormal", "+denormal"}
    THEN IF class = "-denormal" THEN "-zero" ELSE "+zero" ELSE class
FprfOf(class) == FprfValues[CHOOSE j \in 1 .. 9 : FprfValues[j].class = class].arith
Compared(class) ==
    CASE class = "quiet_nan" -> {"UN"}
      [] class \in {"-zero", "+zero"} -> {"EQ"}
      [] class \in {"-infinity", "-normal", "-denormal"} -> {"LT"}
      [] OTHER -> {"GT"}

-----------------------------------------------------------------------------
(* cr.cpp: a comparison, and a change of one bit of its result. *)
CrValues == <<{"EQ"}, {"GT"}, {"LT"}>>
Modifications ==
    <<<<"nop", "LT">>, <<"crset", "LT">>, <<"crclr", "LT">>, <<"crset", "GT">>, <<"crclr", "GT">>,
      <<"crset", "EQ">>, <<"crclr", "EQ">>, <<"crset", "SO">>, <<"crclr", "SO">>>>

Modified(bits, m) ==
    CASE m[1] = "crset" -> bits \cup {m[2]}
      [] m[1] = "crclr" -> bits \ {m[2]}
      [] OTHER -> bits

CrExpected(i, m, overflow) == Modified(CrValues[i] \cup (IF overflow THEN {"SO"} ELSE {}), m)

CrRounds == 1 .. 3 * 9 * 2
CrTest(k) ==
    LET i == ((k - 1) \div 18) + 1
        m == Modifications[(((k - 1) \div 2) % 9) + 1]
        overflow == (k - 1) % 2 = 1
    IN  <<Volatile("mtxer", overflow), Volatile("cmpwi", CrValues[i]), Volatile("modify", m),
          Volatile("mfcr", 0), DoTest({4}, CrExpected(i, m, overflow))>>

-----------------------------------------------------------------------------
(* mtspr.cpp: one statement writes ones to a register and reads it.  XER keeps    *)
(* 0xE000FF7F.  That SO stays set is declared nowhere.                        *)
SprRegisters == <<"GQR2", "XER">>
SprExpected(r) == IF r = "XER" THEN (29 .. 31) \cup (8 .. 15) \cup (0 .. 6) ELSE 0 .. 31
SprTest(k) ==
    LET r == SprRegisters[k]
    IN  <<Movable("mtspr", r), DoTest({1}, SprExpected(r))>>

(* The CPU (external): SO, OV, CA, the byte to compare and the number of bytes of  *)
(* XER; all of a GQR.                                                       *)
Implemented(r) == IF r = "XER" THEN 0 .. 31 \ ((16 .. 28) \cup {7}) ELSE 0 .. 31

-----------------------------------------------------------------------------
Programs == {"frsp", "fctiw", "ni", "fprf", "cr", "mtspr"}
Rounds(p) ==
    CASE p = "frsp" -> DOMAIN FrspValues [] p = "fctiw" -> 1 .. 4 [] p = "ni" -> {1, 2}
      [] p = "fprf" -> FprfRounds [] p = "cr" -> CrRounds [] p = "mtspr" -> DOMAIN SprRegisters
Statements ==
    CASE program = "frsp" -> FrspTest(round) [] program = "fctiw" -> FctiwModeTest(round)
      [] program = "ni" -> NiTest(round)
      [] program = "fprf" -> FprfTest(round) [] program = "cr" -> CrTest(round)
      [] program = "mtspr" -> SprTest(round)

(* What the CPU (external) does in a statement. *)
Execute(s) ==
    /\ fpscr' = CASE s.do = "mtfsf" -> [fpscr EXCEPT !.ni = s.arg.ni, !.rn = s.arg.rn]
                  [] s.do = "fadd" -> [fpscr EXCEPT !.fprf = FprfOf(Sum(s.arg))]
                  [] s.do = "fcmpo" -> [fpscr EXCEPT !.fprf.cc = Compared(s.arg)]
                  [] OTHER -> fpscr
    /\ cr0' = CASE s.do = "fcmpo" -> Compared(s.arg)
                [] s.do = "cmpwi" -> s.arg \cup (IF so THEN {"SO"} ELSE {})
                [] s.do = "modify" -> Modified(cr0, s.arg)
                [] OTHER -> cr0
    /\ so' = IF s.do = "mtxer" THEN s.arg ELSE so \/ (s.do = "mtspr" /\ s.arg = "XER")

Gives(s) ==
    CASE s.do = "frsp" -> Frsp(s.arg)
      [] s.do = "fctiw" -> RoundedIn(fpscr.rn, s.arg)
      [] s.do = "arithmetic" -> IF fpscr.ni = 1 THEN s.arg.flushed_out ELSE s.arg.result
      [] s.do = "mffs" -> fpscr.fprf
      [] s.do = "mfcr" -> cr0
      [] s.do = "mtspr" -> Implemented(s.arg)
      [] OTHER -> 0

(* A statement of the round's code that the compiler may have put next. *)
Ready(code, k) ==
    /\ k \in DOMAIN code \ done
    /\ code[k].fixed =>
           \A j \in 1 .. k - 1 : code[j].fixed \/ j \in code[k].of => j \in done

Overtakes(code, k) == \E j \in 1 .. k - 1 : code[j].do = "mtfsf" /\ j \notin done

Step ==
    LET code == Statements
    IN  \E k \in DOMAIN code :
            /\ Ready(code, k)
            /\ Execute(code[k])
            /\ done' = done \cup {k}
            /\ got' = [got EXCEPT ![k] = Gives(code[k])]
            /\ foreign' = (foreign /\ code[k].do \notin {"cmpwi", "fcmpo"})
            /\ off' = IF Overtakes(code, k) \/ (code[k].do = "mfcr" /\ foreign)
                      THEN off \cup {k} ELSE off
            /\ UNCHANGED <<program, round>>

CompilerCompares ==
    /\ program \in {"fprf", "cr"}
    /\ cr0' \in {{"LT"}, {"GT"}, {"EQ"}}
    /\ foreign' = TRUE
    /\ UNCHANGED <<program, round, done, fpscr, so, got, off>>

NothingYet == [k \in 1 .. 13 |-> 0]
NextRound ==
    /\ done = DOMAIN Statements
    /\ round + 1 \in Rounds(program)
    /\ round' = round + 1
    /\ done' = {} /\ got' = NothingYet /\ off' = {}
    /\ UNCHANGED <<program, fpscr, so, cr0, foreign>>

(* A program ends, and the loader starts another, in modes of its own. *)
LoaderModes == [ni : {0, 1}, rn : 0 .. 3, fprf : {Fprf(FALSE, {})}]
NextProgram ==
    /\ done = DOMAIN Statements
    /\ round + 1 \notin Rounds(program)
    /\ program' \in Programs /\ round' = 1
    /\ done' = {} /\ got' = NothingYet /\ off' = {}
    /\ fpscr' \in LoaderModes /\ so' \in BOOLEAN /\ cr0' = {} /\ foreign' = TRUE

ModesInit ==
    /\ program \in Programs /\ round = 1
    /\ done = {} /\ got = NothingYet /\ off = {}
    /\ fpscr \in LoaderModes /\ so \in BOOLEAN /\ cr0 = {} /\ foreign = TRUE

ModesNext == Step \/ CompilerCompares \/ NextRound \/ NextProgram

ModesSpec == ModesInit /\ [][ModesNext]_modesVars

-----------------------------------------------------------------------------
(* A DO_TEST that is due compares what was got to what is expected. *)
Due(code, k) == Ready(code, k) /\ code[k].do = "DO_TEST"
Holds(code, k) == \A j \in code[k].of : got[j] = code[k].arg

(* The tables and the expected values of the six programs are right: a subtest    *)
(* fails only if an instruction it looks at was executed in another mode than     *)
(* the one set for it, or after a comparison of the compiler's own.  What an      *)
(* earlier subtest, or the loader, left in the registers never matters.           *)
FailsOnlyOff ==
    LET code == Statements
    IN  \A k \in DOMAIN code : Due(code, k) /\ ~Holds(code, k) => code[k].of \cap off # {}

-----------------------------------------------------------------------------
(* Why FailsOnlyOff holds.  Statements whose place is fixed are executed in       *)
(* order, and what a DO_TEST looks at before it.                             *)
InOrder ==
    \A k \in done : Statements[k].fixed =>
        \A j \in 1 .. k - 1 : Statements[j].fixed \/ j \in Statements[k].of => j \in done

(* The statements executed have left the registers as the next ones need them:    *)
(* nothing in a round but its own statements changes them, cr0 apart.           *)
ModeSet ==
    program \in {"frsp", "fctiw", "ni"} /\ 1 \in done =>
        fpscr.ni = Statements[1].arg.ni /\ fpscr.rn = Statements[1].arg.rn
ClassLeft ==
    program = "fprf" =>
        /\ round # 1 \/ 1 \in done => fpscr.ni = 0
        /\ round # 1 /\ 1 \in done /\ 2 \notin done => fpscr.fprf = FprfOf(Statements[1].arg)
        /\ round # 1 /\ 2 \in done /\ Statements[2].do = "fcmpo" =>
               /\ fpscr.fprf = Fprf(FprfOf(Statements[1].arg).c, Compared(Statements[2].arg))
               /\ foreign \/ cr0 = Compared(Statements[2].arg)
ConditionLeft ==
    program = "cr" =>
        LET compared == Statements[2].arg \cup (IF Statements[1].arg THEN {"SO"} ELSE {})
        IN  /\ 1 \in done => (so <=> Statements[1].arg)
            /\ 2 \in done => \/ foreign
                             \/ cr0 = IF 3 \in done THEN Modified(compared, Statements[3].arg) ELSE compared

(* So a statement that is not off gave what every DO_TEST of it expects. *)
GivenAsExpected ==
    \A k \in DOMAIN Statements : \A j \in Statements[k].of \cap done :
        j \in off \/ got[j] = Statements[k].arg

ModesIInv ==
    /\ program \in Programs /\ round \in Rounds(program)
    /\ done \subseteq DOMAIN Statements /\ got = [k \in 1 .. 13 |-> got[k]]
    /\ fpscr = [ni |-> fpscr.ni, rn |-> fpscr.rn, fprf |-> fpscr.fprf]
    /\ fpscr.fprf = Fprf(fpscr.fprf.c, fpscr.fprf.cc)
    /\ InOrder /\ ModeSet /\ ClassLeft /\ ConditionLeft /\ GivenAsExpected

=============================================================================
