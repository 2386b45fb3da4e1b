------------------------------ MODULE MCCpuTests ------------------------------
(* The programs of cputest/ and GetTimebase for TLC, one of them at a time: the   *)
(* part chosen at the start runs, the others stay in an initial state.           *)
(*                                                                         *)
(* Words of 3 values are enough for a carry to fall between any two of           *)
(* GetTimebase's reads, once or several times in one call.  For fctiw, words of   *)
(* 6 bits, frac of 12 and doubles with 4 bits of mantissa and 5 of exponent: all   *)
(* four bits of the largest word but its first are in a mantissa, as all 30 are   *)
(* in one of 52, and its smallest number takes more turns of the loop than frac   *)
(* has bits.                                                                *)
EXTENDS Timebase, LoadAsm, CpuReferences, CpuModes

(* For reciprocal.cpp, the exponents around each condition of the code, and the ends    *)
(* and the middle of each piece of the tables.                               *)
SomeExponents == {0, 1, 2, 894, 895, 1021, 1022, 1023, 1024, 1148, 1149, 2045, 2046, 2047}
SomeMantissas ==
    {32 * (1024 * piece + k) + low : piece \in 0 .. 31, k \in {0, 1, 512, 1023}, low \in {0, 31}}
    \cup {2 ^ k : k \in 0 .. 19}

VARIABLES
    part,
    test, row, alloc, at, fpr, written, flaws   \* NanAsm

Nan == INSTANCE NanAsm WITH pc <- at

nanVars == <<test, row, alloc, at, fpr, written, flaws>>
MCvars == <<vars, part, nanVars, modesVars, loadVars, refVars>>

MCInit ==
    /\ part \in {"timebase", "nan", "modes", "loads", "references"}
    /\ Nan!Init /\ LoadInit /\ RefInit
    /\ ModesInit
    /\ part # "modes" => fpscr.ni = 0 /\ fpscr.rn = 0 /\ ~so /\ program = "ni"
    /\ Init
    /\ part # "timebase" => tb = <<0, 0>>

TimebaseStep ==
    /\ part = "timebase" /\ Next
    /\ UNCHANGED <<part, nanVars, modesVars, loadVars, refVars>>
NanStep ==
    /\ part = "nan" /\ Nan!Next
    /\ UNCHANGED <<part, vars, modesVars, loadVars, refVars>>
ModesStep ==
    /\ part = "modes" /\ ModesNext
    /\ UNCHANGED <<part, vars, nanVars, loadVars, refVars>>
LoadsStep ==
    /\ part = "loads" /\ LoadNext
    /\ UNCHANGED <<part, vars, nanVars, modesVars, refVars>>
ReferencesStep ==
    /\ part = "references" /\ RefNext
    /\ UNCHANGED <<part, vars, nanVars, modesVars, loadVars>>

MCNext == TimebaseStep \/ NanStep \/ ModesStep \/ LoadsStep \/ ReferencesStep
MCSpec == MCInit /\ [][MCNext]_MCvars

-----------------------------------------------------------------------------
(* NanAsm's SoundWhenDisjoint and FailsOnlyFlawed: the statements of nan.cpp that   *)
(* name no general register as an operand pass if inputs and outputs have          *)
(* registers of their own, and a subtest fails only because its own statement     *)
(* used a register it had no claim to.                                       *)
NanSound == part = "nan" => Nan!SoundWhenDisjoint /\ Nan!FailsOnlyFlawed
=============================================================================
