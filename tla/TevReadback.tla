----------------------------- MODULE TevReadback -----------------------------
(***************************************************************************)
(* gxtest/util.cpp, GetTevOutput: a TEV stage computes 11 bits, the EFB       *)
(* keeps 8.  The caller's last stage is drawn twice, followed once by a      *)
(* stage that multiplies by four and once by three stages that halve, and    *)
(* the two values read back are put together.  One channel is modelled; the  *)
(* four are handled alike, except that an RGB8 EFB has no alpha.             *)
(***************************************************************************)
EXTENDS GxArithmetic

CONSTANTS
    Values,     \* outputs of the caller's last stage tried
    Stages,     \* numbers of the caller's last stage
    Dests,      \* registers the caller's last stage writes to
    PixelsRead,     \* <<channel, format>>: what is read, from which EFB
    Loaded      \* what the other registers hold when a pixel is drawn

Registers == {"Prev", "Color0", "Color1", "Color2"}
Word11 == -1024 .. 1023

ASSUME CallsAreLegal ==
    /\ Values \subseteq Word11 /\ Loaded \subseteq Word11
    /\ Stages \subseteq Nat
    /\ Dests \subseteq Registers
    /\ PixelsRead \subseteq {"color", "alpha"} \X {"RGB8", "RGBA6"}

VARIABLES
    pc,       \* "idle", "pass1", "draw1", "copy1", "pass2", ..., "done"
    call,     \* arguments: value, stage, dest, pixel, loaded
    last,     \* GenMode.numtevstages: the last stage drawn
    env,      \* the extra stages, by their distance from the caller's last
    stage,    \* next stage of the pixel being drawn
    regs,     \* TEV registers of the pixel
    efb,      \* the channel's byte in the copy of the EFB
    result1,  \* lower 6 bits
    result    \* what GetTevOutput returns

tevVars == <<pc, call, last, env, stage, regs, efb, result1, result>>

-----------------------------------------------------------------------------
At(here, next) == pc = here /\ pc' = next

(* The number of stages is a field of four bits. *)
NumTevStages(n) == n % 16

(* An extra stage: CGXDefault with one input, a or d, and a scale. *)
Extra(input, scale) == [input |-> input, reg |-> call.dest, scale |-> scale]
NoStage == [input |-> "Zero", reg |-> "Prev", scale |-> "Scale1"]

(* The asserts let the caller use at most 13 stages. *)
GetTevOutput(v, n, d, p, l) ==
    /\ n < 13
    /\ call' = [value |-> v, stage |-> n, dest |-> d, pixel |-> p, loaded |-> l]
    /\ UNCHANGED <<last, env, stage, regs, efb, result1, result>>

Call ==
    /\ At("idle", "pass1")
    /\ \E v \in Values, n \in Stages, d \in Dests, p \in PixelsRead, l \in Loaded :
           GetTevOutput(v, n, d, p, l)

(* A pixel starts with the registers as they were loaded; the caller's stages *)
(* come first.                                                             *)
StartPixel ==
    /\ stage' = call.stage
    /\ regs' = [r \in Registers |-> call.loaded]
    /\ UNCHANGED <<call, efb, result>>

(* The first pass has one stage more, which multiplies by four: through input *)
(* a, whose 8 bits keep the product within 11.  The mutant uses input d.     *)
FirstPassD ==
    /\ At("pass1", "draw1")
    /\ last' = NumTevStages(call.stage + 1)
    /\ env' = [env EXCEPT ![1] = Extra("d", "Scale4")]
    /\ StartPixel
    /\ UNCHANGED result1
FirstPass ==
    /\ At("pass1", "draw1")
    /\ last' = NumTevStages(call.stage + 1)
    /\ env' = [env EXCEPT ![1] = Extra("a", "Scale4")]
    /\ StartPixel
    /\ UNCHANGED result1

(* The second pass has three stages more, which halve. *)
SecondPass ==
    /\ At("pass2", "draw2")
    /\ last' = NumTevStages(call.stage + 3)
    /\ env' = [i \in 1 .. 3 |-> Extra("d", "Divide2")]
    /\ StartPixel
    /\ UNCHANGED result1

(* The GPU (external) evaluates the stages of the pixel. *)
Input(e, name) == IF e.input = name THEN regs[e.reg] ELSE 0
Evaluate(e) == TevCombinerExpectation(Input(e, "a"), 0, 0, Input(e, "d"), e.scale, "Zero", "Add", FALSE)
Draw ==
    /\ pc \in {"draw1", "draw2"}
    /\ stage <= last
    /\ regs' = IF stage = call.stage THEN [regs EXCEPT ![call.dest] = call.value]
               ELSE [regs EXCEPT !["Prev"] = Evaluate(env[stage - call.stage])]
    /\ stage' = stage + 1
    /\ UNCHANGED <<pc, call, last, env, efb, result1, result>>

(* copyfilter.cpp, PredictEfbColor: what an EFB gives back of a byte. *)
EfbByte(pixel, v) ==
    CASE pixel[2] = "RGBA6" -> SixBit(v)
      [] pixel = <<"alpha", "RGB8">> -> 255
      [] OTHER -> v

(* The GPU (external) writes the pixel to the EFB, without the upper 3 bits,  *)
(* and the EFB is copied.                                                  *)
CopyEfb ==
    /\ stage > last
    /\ At("draw1", "copy1") \/ At("draw2", "copy2")
    /\ efb' = EfbByte(call.pixel, regs["Prev"] % 256)
    /\ UNCHANGED <<call, last, env, stage, regs, result1, result>>

(* ReadTestBuffer(5, 5, 100) >> 2, the lower 6 bits. *)
ReadFirst ==
    /\ At("copy1", "pass2")
    /\ result1' = efb \div 4
    /\ UNCHANGED <<call, last, env, stage, regs, efb, result>>

(* ReadTestBuffer(5, 5, 100) >> 3, the upper 5 bits. *)
ReadSecond ==
    /\ At("copy2", "done")
    /\ result' = Combine(efb \div 8, result1)
    /\ UNCHANGED <<call, last, env, stage, regs, efb, result1>>

-----------------------------------------------------------------------------
NoCall == [value |-> 0, stage |-> 0, dest |-> "Prev", pixel |-> <<"color", "RGB8">>, loaded |-> 0]

NoStages == [i \in 1 .. 3 |-> NoStage]
NoPixel == [r \in Registers |-> 0]

TevInit ==
    /\ pc = "idle" /\ call = NoCall
    /\ last = 0 /\ env = NoStages
    /\ stage = 0 /\ regs = NoPixel /\ efb = 0
    /\ result1 = 0 /\ result = 0

(* The test has looked at the result; what the call kept is gone. *)
Return ==
    /\ At("done", "idle") /\ call' = NoCall
    /\ last' = 0 /\ env' = NoStages
    /\ stage' = 0 /\ regs' = NoPixel /\ efb' = 0
    /\ result1' = 0 /\ result' = 0

TevNext ==
    \/ Call
    \/ FirstPass \/ Draw \/ CopyEfb \/ ReadFirst \/ SecondPass \/ ReadSecond
    \/ Return

TevSpec == TevInit /\ [][TevNext]_tevVars

-----------------------------------------------------------------------------
Returned == pc = "done"

(* Every variable keeps its type: no register ever needs a twelfth bit, and   *)
(* the extra stages never run past the sixteen there are.                   *)
TevTypeOK ==
    /\ pc \in {"idle", "pass1", "draw1", "copy1", "pass2", "draw2", "copy2", "done"}
    /\ call \in [value : Word11, stage : 0 .. 12, dest : Registers,
                 pixel : {"color", "alpha"} \X {"RGB8", "RGBA6"}, loaded : Word11]
    /\ last \in 0 .. 15 /\ stage \in 0 .. 16
    /\ env \in [1 .. 3 -> [input : {"a", "d", "Zero"}, reg : Registers,
                           scale : {"Scale1", "Scale4", "Divide2"}]]
    /\ regs \in [Registers -> Word11]
    /\ efb \in 0 .. 255 /\ result1 \in 0 .. 63 /\ result \in Word11

(* All 11 bits and the sign of the last stage's output are read back, from an *)
(* RGB8 EFB, for a last stage that writes to PREV and is any of the 13.      *)
ReadsAllBits ==
    Returned /\ call.dest = "Prev" /\ call.pixel = <<"color", "RGB8">> => result = call.value

(* The compare test reads alpha from an RGBA6 EFB, which GetTevOutput is not  *)
(* made for: the two outcomes it tells apart, 0 and 255, are read exactly.   *)
CompareReads ==
    Returned /\ call.dest = "Prev" /\ call.pixel = <<"alpha", "RGBA6">> /\ call.value \in {0, 255}
        => result = call.value

(* What util.h says without an exception for the register written: all 11     *)
(* bits of the last stage.                                                 *)
ReadsAnyDest == Returned /\ call.pixel = <<"color", "RGB8">> => result = call.value

=============================================================================
