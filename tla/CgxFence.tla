------------------------------ MODULE CgxFence ------------------------------
(***************************************************************************)
(* gxtest/cgx.cpp: how a test waits for the GPU.  Commands written to the   *)
(* write-gather pipe reach the GPU only in bursts of 32 bytes;              *)
(* CGX_WaitForGpuToFinish appends a draw-done command, pads it out of the    *)
(* pipe, and sleeps until the PE-finish interrupt handler wakes it.          *)
(*                                                                         *)
(* The CPU runs either the program, or the interrupt handler, or, while the *)
(* program sleeps, the idle thread; the GPU (external) runs beside it.      *)
(***************************************************************************)
EXTENDS Integers

CONSTANTS
    CmdSizes,  \* bytes of the commands a test writes
    MaxCmds    \* bound: commands written in a behaviour, draw-dones included

ASSUME SizesArePositive == CmdSizes \subseteq Nat \ {0}
ASSUME CmdBound == MaxCmds \in Nat

Burst == 32        \* bytes the write-gather pipe collects
Word == 4          \* bytes of one wgPipe->U32 store
Pads == 8          \* stores in CGX_ForcePipelineFlush
BpLoad == 5        \* bytes of CGX_LOAD_BP_REG

VARIABLES
    fill,      \* bytes in the write-gather pipe
    held,      \* commands whose last byte is among them
    sent,      \* commands that have left the pipe
    done,      \* commands the GPU has executed, in order
    fences,    \* the numbers of the draw-done commands
    finish,    \* PE-finish interrupt pending
    finished,  \* _cgxfinished
    ints,      \* external interrupts enabled in the running thread
    pc,        \* the program; "run" while it renders, "asleep" in LWP_ThreadSleep
    pads,      \* stores of CGX_ForcePipelineFlush still to be made
    hpc        \* __CGXFinishInterruptHandler, "none" outside it

pipe == <<fill, held, sent>>
vars == <<pipe, done, fences, finish, finished, ints, pc, pads, hpc>>

(* Commands are numbered in the order they are written. *)
written == sent + held

-----------------------------------------------------------------------------
(* n bytes are stored: whole bursts leave, and with them each command whose *)
(* last byte they hold.                                                    *)
Store(n, commands) ==
    /\ fill' = (fill + n) % Burst
    /\ IF fill + n < Burst
       THEN held' = held + commands /\ UNCHANGED sent
       ELSE /\ held' = IF fill' = 0 THEN 0 ELSE commands
            /\ sent' = written + commands - held'

(* The program runs while no handler does and no interrupt can be taken. *)
Interrupted == hpc # "none" \/ (finish /\ ints)

At(here, next) ==
    /\ pc = here
    /\ ~Interrupted
    /\ pc' = next

(* A test writes a register or a primitive. *)
Write(n) ==
    /\ At("run", "run")
    /\ written < MaxCmds
    /\ Store(n, 1)
    /\ UNCHANGED <<done, fences, finish, finished, ints, pads, hpc>>

(* _CPU_ISR_Disable *)
Disable ==
    /\ At("run", "drawdone")
    /\ written < MaxCmds
    /\ ints' = FALSE
    /\ UNCHANGED <<pipe, done, fences, finish, finished, pads, hpc>>

DrawDone ==
    /\ At("drawdone", "flush")
    /\ Store(BpLoad, 1)
    /\ fences' = fences \cup {written + 1}
    /\ pads' = Pads
    /\ UNCHANGED <<done, finish, finished, ints, hpc>>

(* CGX_ForcePipelineFlush, one store at a time: a zero word is a NOP. *)
CGX_ForcePipelineFlush ==
    /\ At("flush", IF pads = 1 THEN "clear" ELSE "flush")
    /\ Store(Word, 0)
    /\ pads' = pads - 1
    /\ UNCHANGED <<done, fences, finish, finished, ints, hpc>>

ClearForgotten ==  \* mutant: _cgxfinished keeps the value of the last wait
    /\ At("clear", "enable")
    /\ UNCHANGED <<pipe, done, fences, finish, finished, ints, pads, hpc>>

Clear ==
    /\ At("clear", "enable")
    /\ finished' = FALSE
    /\ UNCHANGED <<pipe, done, fences, finish, ints, pads, hpc>>

(* _CPU_ISR_Flash: enable interrupts, then disable them again. *)
FlashEnable ==
    /\ At("enable", "disable")
    /\ ints' = TRUE
    /\ UNCHANGED <<pipe, done, fences, finish, finished, pads, hpc>>

FlashDisableForgotten ==  \* mutant: interrupts stay enabled from here on
    /\ At("disable", "test")
    /\ UNCHANGED <<pipe, done, fences, finish, finished, ints, pads, hpc>>

FlashDisable ==
    /\ At("disable", "test")
    /\ ints' = FALSE
    /\ UNCHANGED <<pipe, done, fences, finish, finished, pads, hpc>>

Test ==
    /\ At("test", IF finished THEN "restore" ELSE "sleep")
    /\ UNCHANGED <<pipe, done, fences, finish, finished, ints, pads, hpc>>

(* LWP_ThreadSleep: the thread is queued and the idle thread runs, with     *)
(* interrupts enabled.                                                     *)
Sleep ==
    /\ At("sleep", "asleep")
    /\ ints' = TRUE
    /\ UNCHANGED <<pipe, done, fences, finish, finished, pads, hpc>>

(* _CPU_ISR_Restore *)
Restore ==
    /\ At("restore", "run")
    /\ ints' = TRUE
    /\ UNCHANGED <<pipe, done, fences, finish, finished, pads, hpc>>

-----------------------------------------------------------------------------
(* The handler runs with interrupts disabled, so the program does not run   *)
(* before its end; the GPU does.                                           *)

HandlerAt(here, next) ==
    /\ hpc = here
    /\ hpc' = next
    /\ UNCHANGED <<pipe, done, fences, pads>>

EnterHandler ==
    /\ finish /\ ints
    /\ HandlerAt("none", "ack")
    /\ UNCHANGED <<finish, finished, ints, pc>>

AckForgotten ==  \* mutant: the interrupt is not acknowledged
    /\ HandlerAt("ack", "set")
    /\ UNCHANGED <<finish, finished, ints, pc>>

Ack ==
    /\ HandlerAt("ack", "set")
    /\ finish' = FALSE
    /\ UNCHANGED <<finished, ints, pc>>

Set ==
    /\ HandlerAt("set", "broadcast")
    /\ finished' = TRUE
    /\ UNCHANGED <<finish, ints, pc>>

(* LWP_ThreadBroadcast: a sleeping program continues after LWP_ThreadSleep, *)
(* with interrupts disabled as when it called it.                          *)
Broadcast ==
    /\ HandlerAt("broadcast", "none")
    /\ IF pc = "asleep"
       THEN pc' = "test" /\ ints' = FALSE
       ELSE UNCHANGED <<pc, ints>>
    /\ UNCHANGED <<finish, finished>>

(* The GPU (external) executes the next command it was sent. *)
Execute ==
    /\ done < sent
    /\ done' = done + 1
    /\ finish' = (finish \/ done + 1 \in fences)
    /\ UNCHANGED <<pipe, fences, finished, ints, pc, pads, hpc>>

-----------------------------------------------------------------------------
(* After CGX_Init.  GX_Init has written commands of its own, so the pipe may *)
(* be filled to any point.                                                 *)
Init ==
    /\ fill \in 0 .. Burst - 1
    /\ held = 0 /\ sent = 0 /\ done = 0
    /\ fences = {}
    /\ finish = FALSE /\ finished = FALSE
    /\ ints = TRUE
    /\ pc = "run" /\ pads = 0 /\ hpc = "none"

ProgramStep ==
    \/ DrawDone \/ CGX_ForcePipelineFlush \/ Clear \/ FlashEnable \/ FlashDisable
    \/ Test \/ Sleep \/ Restore

HandlerStep == EnterHandler \/ Ack \/ Set \/ Broadcast

(* The behaviour may end between waits, when all MaxCmds are written. *)
AllWritten == pc = "run" /\ written = MaxCmds /\ UNCHANGED vars

Next ==
    \/ \E n \in CmdSizes : Write(n)
    \/ Disable \/ ProgramStep
    \/ HandlerStep
    \/ Execute
    \/ AllWritten

Spec == Init /\ [][Next]_vars

(* The CPU runs a wait that was begun, and the handler; the GPU executes     *)
(* what it was sent.  Whether the test goes on rendering is up to it.        *)
FairSpec ==
    /\ Spec
    /\ WF_vars(ProgramStep) /\ WF_vars(HandlerStep) /\ WF_vars(Execute)

-----------------------------------------------------------------------------
(* Every variable keeps its type: in particular the pipe never holds a whole *)
(* burst, and exactly eight words are padded.                               *)
TypeOK ==
    /\ fill \in 0 .. Burst - 1
    /\ held \in 0 .. MaxCmds /\ sent \in 0 .. MaxCmds /\ done \in 0 .. sent
    /\ fences \subseteq 1 .. MaxCmds
    /\ finish \in BOOLEAN /\ finished \in BOOLEAN /\ ints \in BOOLEAN
    /\ pc \in {"run", "drawdone", "flush", "clear", "enable", "disable", "test",
               "sleep", "asleep", "restore"}
    /\ pads \in 0 .. Pads
    /\ hpc \in {"none", "ack", "set", "broadcast"}

(* When CGX_WaitForGpuToFinish is about to return, the GPU has executed all  *)
(* that was written before: the caller may read what it rendered.  An        *)
(* interrupt or a _cgxfinished left over from an earlier wait would end this *)
(* one too soon.                                                           *)
FenceComplete == pc = "restore" => done = written

(* No wakeup is lost: while the program sleeps, its draw-done has still to   *)
(* be executed (and has left the pipe), or its interrupt is pending, or the  *)
(* handler is running and has yet to broadcast.                             *)
WakeupComing ==
    pc = "asleep" =>
        \/ \E f \in fences : done < f /\ f <= sent
        \/ finish
        \/ hpc # "none"

(* A wait leaves nothing behind for the next one: no pending interrupt and   *)
(* no draw-done that could still raise one.                                 *)
NothingLeft ==
    pc = "run" => ~finish /\ hpc = "none" /\ \A f \in fences : f <= done

(* Seen from a test, the pipe, the interrupt and the sleeping implement the  *)
(* fence of GpuFence: commands are numbered on, the GPU executes them in     *)
(* order, and a wait ends only when none is left.                           *)
Fence == INSTANCE GpuFence WITH waiting <- pc # "run"

ImplementsFence == Fence!Spec

(* Every wait returns, if the GPU executes what it is sent. *)
WaitReturns == pc = "drawdone" ~> pc = "run"

=============================================================================
