------------------------------ MODULE GpuFence ------------------------------
(***************************************************************************)
(* What CGX_WaitForGpuToFinish promises to a test, without the write-gather *)
(* pipe, the interrupt and the sleeping: it returns only when the GPU has   *)
(* executed every command written so far.  CgxFence implements it, and      *)
(* EfbReadback is built on it.                                             *)
(***************************************************************************)
EXTENDS Naturals

VARIABLES
    written,   \* commands written
    done,      \* of these, the commands the GPU has executed
    waiting    \* CGX_WaitForGpuToFinish is running

vars == <<written, done, waiting>>

Init == written = 0 /\ done = 0 /\ waiting = FALSE

(* A test writes a command, or the wait writes its draw-done. *)
Write ==
    /\ written' = written + 1
    /\ UNCHANGED <<done, waiting>>

(* The GPU executes the next command. *)
Execute ==
    /\ done < written
    /\ done' = done + 1
    /\ UNCHANGED <<written, waiting>>

Wait ==
    /\ ~waiting
    /\ waiting' = TRUE
    /\ UNCHANGED <<written, done>>

Return ==
    /\ waiting
    /\ done = written
    /\ waiting' = FALSE
    /\ UNCHANGED <<written, done>>

Next == Write \/ Execute \/ Wait \/ Return

Spec == Init /\ [][Next]_vars
=============================================================================
