-------------------------------- MODULE MCGpu --------------------------------
(***************************************************************************)
(* The fence and the GX test programs for TLC.  In a behaviour one of them is   *)
(* exercised, the other stays as it begins.                                 *)
(***************************************************************************)
EXTENDS CgxFence, GxPrograms

CONSTANT Components    \* those to exercise: "fence", "program"

VARIABLE component

gpuVars == <<component, vars, programVars>>

CornerColumns == {0, 1, 63, 128, 170, 254, 255}

(* Rounds of the loops: colours at the corners of the rounding, registers at   *)
(* the boundaries of the bits that are put together, and stages that lerp,    *)
(* saturate, clamp and lose the sign, with every scale, bias and operation.   *)
CornerSteps == {256 * ambcolor + matcolor : ambcolor \in {0, 1, 127, 128, 255}, matcolor \in {0, 1, 128, 255}}
CornerReds == {-1024, -1023, -513, -64, -1, 0, 1, 63, 64, 255, 256, 1022}
TevStage(a, b, c, scale, bias, op, clamp) ==
    [a |-> a, b |-> b, c |-> c, scale |-> scale, bias |-> bias, op |-> op, clamp |-> clamp]
SomeStages ==
    <<TevStage(12, 34, 56, "Scale1", "Zero", "Add", FALSE), TevStage(12, 34, 56, "Scale1", "Zero", "Sub", FALSE),
      TevStage(-1024, 1023, 255, "Scale2", "AddHalf", "Add", FALSE), TevStage(255, 255, 127, "Scale4", "AddHalf", "Add", FALSE),
      TevStage(255, 0, 128, "Scale4", "SubHalf", "Sub", FALSE), TevStage(255, 254, 128, "Divide2", "SubHalf", "Sub", FALSE),
      TevStage(1, 2, -1, "Divide2", "Zero", "Add", TRUE), TevStage(255, 255, 0, "Scale4", "Zero", "Add", TRUE),
      TevStage(200, 100, 77, "Scale2", "SubHalf", "Sub", TRUE), TevStage(-300, 700, -129, "Divide2", "AddHalf", "Sub", FALSE)>>
FewBlues == <<0, 1, 170, 255>>
NoStages == <<>>
NoBlues == <<>>

GpuInit ==
    /\ component \in Components
    /\ Init /\ ProgramInit
    /\ component # "program" => main = "clipping"

GpuNext ==
    /\ UNCHANGED component
    /\ \/ component = "fence" /\ Next /\ UNCHANGED programVars
       \/ component = "program" /\ ProgramNext /\ UNCHANGED vars

(* The fairness of the fence; a program needs none. *)
GpuSpec ==
    /\ GpuInit /\ [][GpuNext]_gpuVars
    /\ WF_vars(ProgramStep) /\ WF_vars(HandlerStep) /\ WF_vars(Execute)
=============================================================================
