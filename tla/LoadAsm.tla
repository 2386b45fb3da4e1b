------------------------------- MODULE LoadAsm -------------------------------
(***************************************************************************)
(* cputest/load.cpp: the integer loads.  Each test is one asm statement with   *)
(* a result, an address and, for the indexed forms, an offset.  The compiler   *)
(* picks their registers under the constraint "r", which allows register 0; as *)
(* the base of an address that register stands for the number 0.  The          *)
(* statements do not say that they read memory, so the array a test reads may   *)
(* not be stored before the first function call, which is the first DO_TEST.   *)
(***************************************************************************)
EXTENDS Integers, Sequences

CONSTANTS
    GeneralRegisters,  \* the numbers of the general registers, 0 .. 31 on the machine
    Array       \* where the compiler puts the test's array, an address that is not 0

ASSUME RegisterNumbers == GeneralRegisters \subseteq Nat
ASSUME ArrayAddress == Array \in Nat \ {0}

VARIABLES
    load,      \* the test called, None between calls
    n,         \* its iteration, an index of its array
    stored,    \* whether its array is in memory
    regs,      \* the registers of the operands in the last iteration
    outcome,   \* "passed" or "failed", of the last iteration
    readEarly  \* history: the last iteration read the array before it was stored

loadVars == <<load, n, stored, regs, outcome, readEarly>>

(* A test: its array; the bytes of an element and whether it is extended as a    *)
(* signed one; the operand in the instruction's base, and the one in its index,  *)
(* if it has one; what address holds, the first element or the current one; the *)
(* displacement, if it is not 0 (Steps: the current element's distance from the  *)
(* first); whether the base is updated; and the operands besides the result that *)
(* are outputs ("+r"), which share no register with it.                      *)
Load(bytes, signed, base, index, start, disp, update, outs) ==
    [bytes |-> bytes, signed |-> signed, base |-> base, index |-> index, start |-> start,
     disp |-> disp, update |-> update, outs |-> outs]

NoIndex == "absent"
Direct(bytes, signed, start, disp, update, outs) ==
    Load(bytes, signed, "address", NoIndex, start, disp, update, outs)
Indexed(bytes, signed, base, index, update, outs) ==
    Load(bytes, signed, base, index, "first", "none", update, outs)

Word == 4
Half == 2
Byte == 1
lwz == Direct(Word, FALSE, "current", "none", FALSE, {})
lwzu == Direct(Word, FALSE, "first", "steps", TRUE, {"address"})
lwzx == Indexed(Word, FALSE, "offset", "address", FALSE, {"offset"})
lwzux == Indexed(Word, FALSE, "offset", "address", TRUE, {"offset"})
lhz == Direct(Half, FALSE, "current", "none", FALSE, {})
lhzx == Indexed(Half, FALSE, "address", "offset", FALSE, {})
lhzu == Direct(Half, FALSE, "first", "steps", TRUE, {"address"})
lhzux == Indexed(Half, FALSE, "offset", "address", TRUE, {"offset"})
lha == Direct(Half, TRUE, "first", "steps", FALSE, {"address"})
lhax == Indexed(Half, TRUE, "address", "offset", FALSE, {})
lhau == Direct(Half, TRUE, "first", "steps", TRUE, {"address"})
lhaux == Indexed(Half, TRUE, "address", "offset", TRUE, {"address"})
lbz == Direct(Byte, FALSE, "current", "none", FALSE, {})
lbzx == Indexed(Byte, FALSE, "address", "offset", FALSE, {})
lbzu == Direct(Byte, FALSE, "current", "none", TRUE, {"address"})
lbzux == Indexed(Byte, FALSE, "offset", "address", TRUE, {"offset"})

Loads == {lwz, lwzu, lwzx, lwzux, lhz, lhzx, lhzu, lhzux, lha, lhax, lhau, lhaux,
          lbz, lbzx, lbzu, lbzux}

(* The arrays: words as signed numbers, 0xFFFFFFFF is -1. *)
values(bytes) ==
    CASE bytes = Word -> <<-1, 0, 1094795585, 286331153>>
      [] bytes = Half -> <<65535, 61440, 0, 3855, 61680, 34952>>
      [] bytes = Byte -> [k \in 1 .. 256 |-> k - 1]

(* (u32)(s32)(s16): the extension lha makes, as a signed number. *)
Extended(v) == IF v >= 32768 THEN v - 65536 ELSE v
Expected(t, k) == IF t.signed THEN Extended(values(t.bytes)[k]) ELSE values(t.bytes)[k]

-----------------------------------------------------------------------------
(* Memory, or an instruction's result, that the program says nothing about. *)
Other == <<>>
AddressOf(t, k) == Array + t.bytes * (k - 1)

Operands(t) == {"result", "address"} \cup (IF t.index = NoIndex THEN {} ELSE {"offset"})

(* The mutant lets the result have the register of an operand that is written. *)
AllocationsShared(t) ==
    {r \in [Operands(t) -> GeneralRegisters] :
         t.index # NoIndex => r["address"] # r["offset"]}
(* Outputs have registers of their own, and so have inputs that differ. *)
Allocations(t) ==
    {r \in [Operands(t) -> GeneralRegisters] :
        /\ \A x \in t.outs : r[x] # r["result"]
        /\ t.index # NoIndex => r["address"] # r["offset"]}

(* What the operands hold before the statement. *)
Given(t, k) ==
    [address |-> IF t.start = "first" THEN Array ELSE AddressOf(t, k),
     offset |-> AddressOf(t, k) - Array]
Displacement(t, k) == IF t.disp = "steps" THEN AddressOf(t, k) - Array ELSE 0

(* The CPU (external): the effective address, and what is loaded from it. *)
Effective(t, k, r) ==
    (IF r[t.base] = 0 THEN 0 ELSE Given(t, k)[t.base])
    + (IF t.index = NoIndex THEN Displacement(t, k) ELSE Given(t, k)[t.index])
Loaded(t, at, inMemory) ==
    LET k == ((at - Array) \div t.bytes) + 1
    IN  IF inMemory /\ at >= Array /\ k \in DOMAIN values(t.bytes) THEN <<Expected(t, k)>>
        ELSE Other

(* The registers after it: the result, then the base if it is updated.  An          *)
(* update form whose base is register 0 or the result's is invalid.            *)
After(t, k, r) ==
    LET at == Effective(t, k, r)
        invalid == t.update /\ (r[t.base] = 0 \/ r[t.base] = r["result"])
    IN  [result |-> IF invalid THEN Other ELSE Loaded(t, at, stored),
         base |-> IF invalid THEN Other ELSE <<at>>]

(* The DO_TESTs: the result, and in the update forms the base. *)
Passes(t, k, r) ==
    /\ After(t, k, r).result = <<Expected(t, k)>>
    /\ t.update => After(t, k, r).base = <<AddressOf(t, k)>>

-----------------------------------------------------------------------------
None == <<>>
LoadInit ==
    /\ load = None /\ n = 0 /\ stored = FALSE
    /\ regs = <<>> /\ outcome = "none" /\ readEarly = FALSE

(* A test is called; the compiler may have stored its array already. *)
CallLoad ==
    /\ load = None
    /\ load' \in Loads
    /\ stored' \in BOOLEAN
    /\ n' = 0 /\ regs' = <<>> /\ outcome' = "none" /\ readEarly' = FALSE

Iterate ==
    /\ load # None
    /\ n < Len(values(load.bytes))
    /\ \E r \in Allocations(load) :
          /\ regs' = r
          /\ outcome' = IF Passes(load, n + 1, r) THEN "passed" ELSE "failed"
    /\ n' = n + 1
    /\ readEarly' = ~stored
    /\ stored' = TRUE
    /\ UNCHANGED load

ReturnLoad ==
    /\ load # None
    /\ n = Len(values(load.bytes))
    /\ load' = None /\ n' = 0 /\ stored' = FALSE
    /\ regs' = <<>> /\ outcome' = "none" /\ readEarly' = FALSE

LoadNext == CallLoad \/ Iterate \/ ReturnLoad

LoadSpec == LoadInit /\ [][LoadNext]_loadVars

-----------------------------------------------------------------------------
(* The sixteen tests are right whichever registers the compiler picks, with two    *)
(* exceptions: one fails only if the base of its address was in register 0, or     *)
(* if it read its array before it was stored.                                *)
LoadsSound == outcome = "failed" => regs[load.base] = 0 \/ readEarly

=============================================================================
