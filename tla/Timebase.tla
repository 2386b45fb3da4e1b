------------------------------ MODULE Timebase ------------------------------
(***************************************************************************)
(* Common/timebase.s: reading the 64-bit time base of the PowerPC with      *)
(* 32-bit registers.  The counter is a pair (upper, lower word) that the    *)
(* hardware advances between any two instructions; GetTimebase reads the    *)
(* upper word, the lower word, the upper word again, and starts over when   *)
(* the two upper words differ.                                              *)
(***************************************************************************)
EXTENDS Integers

CONSTANTS
    L,        \* values of the lower word: 2^32 on the machine
    MaxUpper  \* bound: the largest upper word the counter reaches

ASSUME WordSize == L \in Nat \ {0}
ASSUME UpperBound == MaxUpper \in Nat

VARIABLES
    tb,       \* the counter, <<upper, lower>>
    pc,       \* the instruction GetTimebase is at; "idle" between calls
    r0,       \* upper word, first read
    r4,       \* lower word
    r3,       \* upper word, second read
    entry,    \* history: the counter when the current call was made
    last      \* history: what the previous call returned

vars == <<tb, pc, r0, r4, r3, entry, last>>

Time == (0 .. MaxUpper) \X (0 .. L - 1)
Upper(t) == t[1]
Lower(t) == t[2]

(* Chronological order of two counter values. *)
Before(s, t) == Upper(s) < Upper(t) \/ (Upper(s) = Upper(t) /\ Lower(s) <= Lower(t))

(* The value in the register pair r3:r4, where a 64-bit result is returned. *)
Returned == <<r3, r4>>

Init ==
    /\ tb \in Time
    /\ pc = "idle"
    /\ r0 = 0 /\ r4 = 0 /\ r3 = 0
    /\ entry = tb
    /\ last = <<0, 0>>

-----------------------------------------------------------------------------
(* The hardware: one tick, with the carry into the upper word. *)
Tick ==
    /\ \/ /\ Lower(tb) < L - 1
          /\ tb' = <<Upper(tb), Lower(tb) + 1>>
       \/ /\ Lower(tb) = L - 1
          /\ Upper(tb) < MaxUpper
          /\ tb' = <<Upper(tb) + 1, 0>>
    /\ UNCHANGED <<pc, r0, r4, r3, entry, last>>

(* The program: one action per instruction. *)
Call ==
    /\ pc = "idle"
    /\ entry' = tb
    /\ pc' = "mftbu0"
    /\ UNCHANGED <<tb, r0, r4, r3, last>>

ReadUpper ==
    /\ pc = "mftbu0"
    /\ r0' = Upper(tb)
    /\ pc' = "mftb4"
    /\ UNCHANGED <<tb, r4, r3, entry, last>>

ReadLower ==
    /\ pc = "mftb4"
    /\ r4' = Lower(tb)
    /\ pc' = "mftbu3"
    /\ UNCHANGED <<tb, r0, r3, entry, last>>

ReadUpperAgain ==
    /\ pc = "mftbu3"
    /\ r3' = Upper(tb)
    /\ pc' = "cmpw"
    /\ UNCHANGED <<tb, r0, r4, entry, last>>

(* No carry reached the upper word between its two reads.  The mutant takes *)
(* the first pair it reads, without the comparison.                         *)
StableAssumed == TRUE
Stable == r0 = r3

Compare ==
    /\ pc = "cmpw"
    /\ pc' = IF Stable THEN "beqlr" ELSE "mftbu0"
    /\ UNCHANGED <<tb, r0, r4, r3, entry, last>>

Return ==
    /\ pc = "beqlr"
    /\ last' = Returned
    /\ pc' = "idle"
    /\ UNCHANGED <<tb, r0, r4, r3, entry>>

Next ==
    \/ Tick
    \/ Call \/ ReadUpper \/ ReadLower \/ ReadUpperAgain \/ Compare \/ Return

Spec == Init /\ [][Next]_vars

-----------------------------------------------------------------------------
(* Every variable keeps its type. *)
TypeOK ==
    /\ tb \in Time /\ entry \in Time /\ last \in Time
    /\ pc \in {"idle", "mftbu0", "mftb4", "mftbu3", "cmpw", "beqlr"}
    /\ r0 \in 0 .. MaxUpper /\ r3 \in 0 .. MaxUpper
    /\ r4 \in 0 .. L - 1

(* A value GetTimebase is about to return was the counter's value at some    *)
(* moment of the call: it is never torn by a carry from the lower word into  *)
(* the upper word between the reads.                                         *)
NotTorn == pc = "beqlr" => Before(entry, Returned) /\ Before(Returned, tb)

(* Two reads of the time base never go backwards: what the timings of       *)
(* ipc.cpp and fs_timing.cpp subtract is never negative.                    *)
Monotonic == [][Before(last, last')]_vars

-----------------------------------------------------------------------------
(* The inductive invariant behind NotTorn and Monotonic: the lower word that *)
(* was read belongs to a moment of the call whose upper word u lies between  *)
(* the two upper words read, and calls do not overlap.                      *)
Sampled(u) ==
    /\ r0 <= u
    /\ Before(entry, <<u, r4>>)
    /\ Before(<<u, r4>>, tb)
    /\ pc # "mftbu3" => u <= r3

IInv ==
    /\ TypeOK
    /\ Before(entry, tb)
    /\ pc # "idle" => Before(last, entry)
    /\ pc = "mftb4" => r0 <= Upper(tb)
    /\ pc \in {"mftbu3", "cmpw", "beqlr"} => \E u \in 0 .. MaxUpper : Sampled(u)
    /\ pc = "beqlr" => r0 = r3
    /\ pc = "idle" => Before(last, tb)

=============================================================================
