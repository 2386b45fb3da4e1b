-------------------------------- MODULE NanAsm --------------------------------
(***************************************************************************)
(* cputest/nan.cpp: which NaN an arithmetic instruction gives when several    *)
(* of its operands are NaNs.  Every Test function is one asm statement; the   *)
(* compiler picks registers for its operands and the statement has to compute *)
(* the same whichever it picks.                                             *)
(*                                                                         *)
(* No output of these statements is an early clobber ("=&d"), so an output    *)
(* may be given the register of an input, although the longer statements      *)
(* write outputs before they have read every input.  Registers print as       *)
(* plain numbers: where a statement names its pointer, a general register, as  *)
(* an operand of a floating-point instruction, it means the floating-point    *)
(* register of the same number.                                             *)
(***************************************************************************)
EXTENDS Integers, Sequences, FiniteSets

VARIABLES
    test,     \* the Test function called, None between calls
    row,      \* its arguments
    alloc,    \* the registers of its operands
    pc,       \* the next instruction of its asm statement
    fpr,      \* the floating-point registers, pairs <<ps0, ps1>>
    written,  \* history: the registers the statement has written
    flaws     \* history: what the statement did that it had not declared

vars == <<test, row, alloc, pc, fpr, written, flaws>>

-----------------------------------------------------------------------------
(* Values: finite numbers in quarters, infinities, and NaNs, quiet or          *)
(* signalling, told apart by sign and payload.  Junk is what nobody set.  The   *)
(* zero that one row has with a sign is kept apart; no result needs it.       *)
Fin(quarters) == <<"finite", quarters>>
Inf(sign) == <<"infinity", sign>>
Q(n) == <<"quiet", n>>
S(n) == <<"signalling", n>>
DEFAULT_NAN == Q(0)
Junk == <<"junk", 0>>

MinusZero == <<"zero", 0>>

IsNan(v) == v[1] \in {"quiet", "signalling"}
Quiet(v) == Q(v[2])
Signum(n) == IF n > 0 THEN 1 ELSE IF n < 0 THEN -1 ELSE 0

(* The float NaNs that fill the slots a test does not look at. *)
SINGLE_SNANS == [i \in 0 .. 5 |-> S(104 + i)]

(* The CPU (external): arithmetic on numbers. *)
Times(x, y) ==
    IF "infinity" \notin {x[1], y[1]} THEN Fin((x[2] * y[2]) \div 4)
    ELSE IF x[2] = 0 \/ y[2] = 0 THEN DEFAULT_NAN
    ELSE Inf(Signum(x[2]) * Signum(y[2]))
Plus(x, y) ==
    CASE IsNan(x) -> x
      [] x[1] = "infinity" -> IF y[1] = "infinity" /\ x # y THEN DEFAULT_NAN ELSE x
      [] y[1] = "infinity" -> y
      [] OTHER -> Fin(x[2] + y[2])
Over(x, y) ==
    CASE (x[1] = "infinity" /\ y[1] = "infinity") \/ (x[2] = 0 /\ y[2] = 0) -> DEFAULT_NAN
      [] y[1] = "infinity" -> Fin(0)
      [] x[1] = "infinity" \/ y[2] = 0 -> Inf(Signum(x[2]))
      [] OTHER -> Fin((4 * x[2]) \div y[2])
Negated(v) == IF IsNan(v) THEN v ELSE <<v[1], -v[2]>>

Compute(op, x) ==
    CASE op = "add" -> Plus(x.a, x.b)
      [] op = "div" -> Over(x.a, x.b)
      [] op = "mul" -> Times(x.a, x.c)
      [] op = "madd" -> Plus(Times(x.a, x.c), x.b)
      [] op = "nmadd" -> Negated(Plus(Times(x.a, x.c), x.b))

(* The CPU (external): the first operand that is a NaN, in the order a, b, c,  *)
(* is the result, made quiet.                                               *)
Nans(x) == {k \in DOMAIN x : IsNan(x[k])}
Result(op, x) ==
    CASE \E k \in DOMAIN x : x[k] = Junk -> Junk
      [] "a" \in Nans(x) -> Quiet(x.a)
      [] "b" \in Nans(x) -> Quiet(x.b)
      [] "c" \in Nans(x) -> Quiet(x.c)
      [] OTHER -> Compute(op, x)

(* The CPU (external): an instruction for both slots, from the pairs p. *)
Slot(p, k) == [x \in DOMAIN p |-> p[x][k]]
Paired(op, p) ==
    LET Scaled(base, s) == <<Result(base, [Slot(p, 1) EXCEPT !.c = p.c[s]]),
                             Result(base, [Slot(p, 2) EXCEPT !.c = p.c[s]])>>
        Sum == Result("add", [a |-> p.a[1], b |-> p.b[2]])
    IN  CASE op = "sum0" -> <<Sum, p.c[2]>>
          [] op = "sum1" -> <<p.c[1], Sum>>
          [] op = "muls0" -> Scaled("mul", 1)
          [] op = "muls1" -> Scaled("mul", 2)
          [] op = "madds0" -> Scaled("madd", 1)
          [] op = "madds1" -> Scaled("madd", 2)
          [] OTHER -> <<Result(op, Slot(p, 1)), Result(op, Slot(p, 2))>>

-----------------------------------------------------------------------------
(* An instruction has a destination d, sources s by role, and for a load the   *)
(* index n of the first of the two floats loaded.                           *)
Instr(i, d, s, n) == [i |-> i, d |-> d, s |-> s, n |-> n]
Psq_l(d, n) == Instr("psq_l", d, <<>>, n)
Merge00(d, x, y) == Instr("merge00", d, <<x, y>>, 0)
Merge01(d, x, y) == Instr("merge01", d, <<x, y>>, 0)
Merge11(d, x, y) == Instr("merge11", d, <<x, y>>, 0)

Offset == [a |-> 0, b |-> 2, c |-> 4]
Temp == [a |-> "a_tmp", b |-> "b_tmp", c |-> "c_tmp"]
Order(roles) == SelectSeq(<<"a", "b", "c">>, LAMBDA x : x \in roles)

(* The asm statement of one scalar instruction.  Operands in shared are the    *)
(* destination as well ("+d").                                              *)
Scalar(op, roles, shared) ==
    [op |-> op, half |-> "Scalar", shared |-> shared,
     outs |-> {"result"}, ins |-> roles \ shared,
     code |-> <<Instr(op, "result", [x \in roles |-> IF x \in shared THEN "result" ELSE x], 0)>>]

(* The argument goes to one slot of a pair whose other slot is one of           *)
(* SINGLE_SNANS.  The mutant always fills the lower slot.                     *)
PlaceLower(half, tmp, x) == Merge01(tmp, x, tmp)
Place(half, tmp, x) == IF half = "Lower" THEN Merge01(tmp, x, tmp) ELSE Merge00(tmp, tmp, x)

(* ps_muls0 and ps_madds0 use the lower slot of c for both results, ps_muls1    *)
(* and ps_madds1 the upper one.                                             *)
HalfOf(x, op, half) ==
    CASE x = "c" /\ op \in {"muls0", "madds0"} -> "Lower"
      [] x = "c" /\ op \in {"muls1", "madds1"} -> "Upper"
      [] OTHER -> half

(* The asm statement of a paired instruction: load the other slots, place the  *)
(* arguments, compute, and move an upper result down to where a double is     *)
(* read.  tmp names the register an argument is placed in.                   *)
Template(op, half, roles, tmp) ==
    LET xs == Order(roles)
    IN  [k \in DOMAIN xs |-> Psq_l(tmp[xs[k]], Offset[xs[k]])]
        \o [k \in DOMAIN xs |-> Place(HalfOf(xs[k], op, half), tmp[xs[k]], xs[k])]
        \o <<Instr(op, "result", tmp, 0)>>
        \o IF half = "Upper" THEN <<Merge11("result", "result", "result")>> ELSE <<>>

Ps(op, half, roles, shared) ==
    LET tmp == [x \in roles |-> IF x \in shared THEN "result" ELSE Temp[x]]
    IN  [op |-> op, half |-> half, shared |-> shared,
         outs |-> {"result"} \cup {tmp[x] : x \in roles}, ins |-> roles,
         code |-> Template(op, half, roles, tmp)]

Halves == {"Lower", "Upper"}

(* Instructions of two operands, with neither, the first or the second shared. *)
Binary(op, roles) ==
    {Scalar(op, roles, s) : s \in {{}} \cup {{x} : x \in roles}}
    \cup {Ps(op, h, roles, s) : h \in Halves, s \in {{}} \cup {{x} : x \in roles}}

AddTests == Binary("add", {"a", "b"})
DivTests == Binary("div", {"a", "b"})
MulTests == Binary("mul", {"a", "c"})

ABC == {"a", "b", "c"}
MaddTests == {Scalar("madd", ABC, {})} \cup {Ps("madd", h, ABC, {}) : h \in Halves}
ScalarNmaddTests == {Scalar("nmadd", ABC, s) : s \in {{}, {"a"}, {"b"}, {"c"}}}
PsNmaddTests ==
    {Ps("nmadd", h, ABC, {}) : h \in Halves} \cup {Ps("nmadd", h, ABC, {"a"}) : h \in Halves}

(* TestPsNmaddLowerWithSharedB has three outputs, result, a_tmp and c_tmp, but  *)
(* its operands are numbered as if there were four: b is placed in c_tmp, c in  *)
(* the register numbered like the pointer, and the result is alone.           *)
NmaddLowerSharedB ==
    [op |-> "nmadd", half |-> "Lower", shared |-> {"b"},
     outs |-> {"result", "a_tmp", "c_tmp"}, ins |-> ABC,
     code |-> Template("nmadd", "Lower", ABC, [a |-> "a_tmp", b |-> "c_tmp", c |-> "ptr"])]
PsNmaddSharedTests ==
    {NmaddLowerSharedB, Ps("nmadd", "Upper", ABC, {"b"})}
    \cup {Ps("nmadd", h, ABC, {"c"}) : h \in Halves}

(* The one argument of these is all three operands.  The Upper test loads the   *)
(* register numbered like the pointer, and not the result.                   *)
AllResult == [x \in ABC |-> "result"]
ScalarAbcTest ==
    [op |-> "nmadd", half |-> "Scalar", shared |-> ABC, outs |-> {"result"}, ins |-> {},
     code |-> <<Instr("nmadd", "result", AllResult, 0)>>]
PsNmaddAbcTests ==
    {[op |-> "nmadd", half |-> "Lower", shared |-> ABC, outs |-> {"result"}, ins |-> {"a"},
      code |-> <<Psq_l("result", 0), Place("Lower", "result", "a"),
                 Instr("nmadd", "result", AllResult, 0)>>],
     [op |-> "nmadd", half |-> "Upper", shared |-> ABC, outs |-> {"result"}, ins |-> {"a"},
      code |-> <<Psq_l("ptr", 0), Place("Upper", "result", "a"),
                 Instr("nmadd", "result", AllResult, 0), Merge11("result", "result", "result")>>]}

(* ps_sum0 and ps_sum1 add the lower slot of a to the upper slot of b, and       *)
(* copy the other slot of c.  Both results are read.                         *)
SumTests ==
    {[op |-> op, half |-> "Both", shared |-> {},
      outs |-> {"result", "ps1_result", "a_tmp", "b_tmp", "c_tmp"}, ins |-> {"a", "b"},
      code |-> <<Psq_l("a_tmp", 0), Psq_l("b_tmp", 2), Psq_l("c_tmp", 4),
                 Place("Lower", "a_tmp", "a"), Place("Upper", "b_tmp", "b"),
                 Instr(op, "result", Temp, 0), Merge11("ps1_result", "result", "result")>>] :
        op \in {"sum0", "sum1"}}

MulsTests == {Ps(op, h, {"a", "c"}, {}) : op \in {"muls0", "muls1"}, h \in Halves}
MaddsTests == {Ps(op, h, ABC, {}) : op \in {"madds0", "madds1"}, h \in Halves}

-----------------------------------------------------------------------------
(* The arguments of the calls, and what they expect. *)
Row(x, y, z, expected) == [a |-> x, b |-> y, c |-> z, expected |-> expected]
Zero == Fin(0)
One == Fin(4)
NanPairs ==
    {<<Q(-1), Zero, Q(-1)>>, <<Zero, Q(-2), Q(-2)>>}
    \cup {<<x, y, Q(1)>> : x \in {Q(1), S(1)}, y \in {Q(2), S(2)}}
NanAddTest == {Row(p[1], p[2], Junk, p[3]) : p \in NanPairs \cup {<<Zero, Zero, Zero>>}}
NanDivTest ==
    {Row(p[1], p[2], Junk, p[3]) :
        p \in NanPairs \cup
        {<<One, One, One>>, <<Zero, Zero, DEFAULT_NAN>>, <<MinusZero, MinusZero, DEFAULT_NAN>>}}
NanMulTest ==
    {Row(p[1], Junk, p[2], p[3]) : p \in NanPairs \cup
        {<<One, One, One>>, <<Inf(1), Zero, DEFAULT_NAN>>, <<Inf(-1), Zero, DEFAULT_NAN>>}}
NanMaddTest(first) ==
    {Row(One, Zero, One, first),
     Row(Inf(1), One, Zero, DEFAULT_NAN), Row(Inf(-1), One, Zero, DEFAULT_NAN),
     Row(Inf(1), Q(-2), Zero, Q(-2)),
     Row(Q(-1), Zero, Zero, Q(-1)), Row(Zero, Q(-2), Zero, Q(-2)), Row(Zero, Zero, Q(-3), Q(-3)),
     Row(Q(-1), Q(-2), Zero, Q(-1)), Row(Q(-1), Zero, Q(-3), Q(-1)), Row(Zero, Q(-2), Q(-3), Q(-2))}
    \cup {Row(x, y, z, Q(1)) : x \in {Q(1), S(1)}, y \in {Q(2), S(2)}, z \in {Q(3), S(3)}}
NanMaddWithSharedABCTest ==
    {Row(v, v, v, v) : v \in {Q(1), Q(-1)}} \cup {Row(Fin(6), Fin(6), Fin(6), Fin(-15))}

(* What main runs. *)
Suite ==
    (AddTests \cup SumTests) \X NanAddTest
    \cup DivTests \X NanDivTest
    \cup (MulTests \cup MulsTests) \X NanMulTest
    \cup (MaddTests \cup MaddsTests) \X NanMaddTest(One)
    \cup (ScalarNmaddTests \cup PsNmaddTests \cup PsNmaddSharedTests) \X NanMaddTest(Fin(-4))
    \cup ({ScalarAbcTest} \cup PsNmaddAbcTests) \X NanMaddWithSharedABCTest

-----------------------------------------------------------------------------
(* Registers, up to renaming: an operand has one of its own, or an input that    *)
(* of an output or of an input of the same value.  The pointer is a general     *)
(* register of any number.                                                  *)
Own == [result |-> 1, ps1_result |-> 2, a_tmp |-> 3, b_tmp |-> 4, c_tmp |-> 5,
        a |-> 6, b |-> 7, c |-> 8, ptr |-> 9]
Registers == 1 .. 9
UsesPtr(t) == \E k \in DOMAIN t.code : t.code[k].d = "ptr"
PtrNumbers(t) == IF UsesPtr(t) THEN {Own[o] : o \in t.outs \cup t.ins \cup {"ptr"}} ELSE {Own.ptr}

(* A result declared "+d" is an input too, and shares with no other. *)
ReadWrite(t) == t.half = "Scalar" /\ t.shared # {}
Choices(t, args, x) ==
    {Own[y] : y \in {y \in t.ins : args[y] = args[x]}}
    \cup {Own[o] : o \in IF ReadWrite(t) THEN {} ELSE t.outs}
Inputs(t, args) ==
    {f \in [t.ins -> Registers] :
        /\ \A x \in t.ins : f[x] \in Choices(t, args, x)
        /\ \A x, y \in t.ins : f[x] = f[y] => args[x] = args[y]}
Allocations(t, args) ==
    {[o \in t.outs \cup t.ins \cup {"ptr"} |->
        IF o = "ptr" THEN p ELSE IF o \in t.ins THEN f[o] ELSE Own[o]] :
        f \in Inputs(t, args), p \in PtrNumbers(t)}

None == [op |-> "none", half |-> "Scalar", shared |-> {}, outs |-> {}, ins |-> {}, code |-> <<>>]
NoRow == Row(Junk, Junk, Junk, Junk)
NoRegisters == [r \in Registers |-> <<Junk, Junk>>]

(* The compiler has put the arguments into their registers.  A load sets the      *)
(* lower slot.                                                              *)
Loaded(t, args, f) ==
    [r \in Registers |->
        IF \E x \in t.ins : f[x] = r THEN <<args[CHOOSE x \in t.ins : f[x] = r], Junk>>
        ELSE IF r = Own.result /\ ReadWrite(t)
        THEN <<args[CHOOSE x \in t.shared : TRUE], Junk>>
        ELSE <<Junk, Junk>>]

Call(t, args, f) ==
    /\ test' = t /\ row' = args /\ alloc' = f
    /\ pc' = 1
    /\ fpr' = Loaded(t, args, f)
    /\ UNCHANGED <<written, flaws>>

-----------------------------------------------------------------------------
Running == test # None /\ pc <= Len(test.code)
Current == test.code[pc]
Sources(instr) == {instr.s[k] : k \in DOMAIN instr.s}

(* What an asm statement must not do: read an input it has written over, read a  *)
(* register nobody has set, write a register that is none of its outputs.     *)
Flaws(instr) ==
    {k \in {"overwritten", "unset", "undeclared"} :
        CASE k = "overwritten" -> \E x \in Sources(instr) \cap test.ins : alloc[x] \in written
          [] k = "unset" -> ~ReadWrite(test) /\ \E o \in Sources(instr) \cap test.outs : alloc[o] \notin written
          [] k = "undeclared" -> instr.d = "ptr"}

(* The CPU (external) executes one instruction. *)
Value(instr) ==
    LET p == [k \in DOMAIN instr.s |-> fpr[alloc[instr.s[k]]]]
    IN  CASE instr.i = "psq_l" -> <<SINGLE_SNANS[instr.n], SINGLE_SNANS[instr.n + 1]>>
          [] instr.i = "merge00" -> <<p[1][1], p[2][1]>>
          [] instr.i = "merge01" -> <<p[1][1], p[2][2]>>
          [] instr.i = "merge11" -> <<p[1][2], p[2][2]>>
          [] OTHER -> IF test.half = "Scalar" THEN <<Result(instr.i, Slot(p, 1)), Junk>>
                      ELSE Paired(instr.i, p)
Execute ==
    /\ Running
    /\ fpr' = [fpr EXCEPT ![alloc[Current.d]] = Value(Current)]
    /\ written' = written \cup {alloc[Current.d]}
    /\ flaws' = flaws \cup Flaws(Current)
    /\ pc' = pc + 1
    /\ UNCHANGED <<test, row, alloc>>

(* DO_TEST, after which the function returns. *)
Finished == test # None /\ pc > Len(test.code)
Return ==
    /\ Finished
    /\ test' = None /\ row' = NoRow /\ alloc' = Own
    /\ pc' = 0 /\ fpr' = NoRegisters
    /\ written' = {} /\ flaws' = {}

Init ==
    /\ test = None /\ row = NoRow /\ alloc = Own
    /\ pc = 0 /\ fpr = NoRegisters
    /\ written = {} /\ flaws = {}

Next ==
    \/ /\ test = None
       /\ \E call \in Suite : \E f \in Allocations(call[1], call[2]) : Call(call[1], call[2], f)
    \/ Execute
    \/ Return

Spec == Init /\ [][Next]_vars

-----------------------------------------------------------------------------
(* A double is read from the lower slot; the sums look at both results. *)
Got(o) == fpr[alloc[o]][1]
Passes ==
    CASE test.op = "sum0" -> Got("result") = row.expected /\ Got("ps1_result") = SINGLE_SNANS[5]
      [] test.op = "sum1" -> Got("result") = SINGLE_SNANS[4] /\ Got("ps1_result") = row.expected
      [] OTHER -> Got("result") = row.expected

Disjoint == \A x \in test.ins, o \in test.outs : alloc[x] # alloc[o]

(* A statement of one instruction passes in every allocation of registers, and  *)
(* so do the longer ones that name no general register as an operand, if the   *)
(* compiler keeps inputs and outputs apart; none of them does anything it did  *)
(* not declare.                                                            *)
SoundWhenDisjoint ==
    Finished /\ (Len(test.code) = 1 \/ (Disjoint /\ ~UsesPtr(test))) => Passes /\ flaws = {}

(* On a CPU that gives the first NaN, a subtest of nan.cpp fails only because    *)
(* its own statement read or wrote a register it had no claim to, never        *)
(* because the expected value is wrong for the operands it names.             *)
FailsOnlyFlawed == Finished /\ ~Passes => flaws # {}

(* The "(b=d)" of the messages and the WithShared of the names: the shared       *)
(* operand of the instruction tested is in its destination register.          *)
SharedAsNamed ==
    Running /\ Current.i = test.op => \A x \in test.shared : alloc[Current.s[x]] = alloc[Current.d]

=============================================================================
