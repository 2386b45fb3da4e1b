------------------------------- MODULE MCGxTests ------------------------------
(***************************************************************************)
(* What the GX tests calculate, for TLC.  In a behaviour one component is       *)
(* exercised, the others stay as they begin.                               *)
(***************************************************************************)
EXTENDS EfbTile, TevReadback, CopyFilter, Sequences

VARIABLE component    \* "tile", "tev" or "filter"

vars == <<component, tileVars, tevVars, filterVars>>

(* Every read of every rectangle of up to Widest by Highest pixels with its   *)
(* corner at one of two places, up to the edge of a small EFB.              *)
TileCorners == {<<0, 0>>, <<7, 2>>}
Widest == 9
Highest == 6
SmallSites ==
    {[left |-> c[1], top |-> c[2], right |-> c[1] + w - 1, bottom |-> c[2] + h - 1,
      x |-> s, y |-> t, width |-> w] : <<c, w, h, s, t>> \in
        {q \in TileCorners \X (1 .. Widest) \X (1 .. Highest) \X (0 .. Widest - 1) \X (0 .. Highest - 1) :
            q[4] < q[2] /\ q[5] < q[3]}}

(* Every output of the first and of the last stage a caller may use, written  *)
(* to PREV as in the tests.                                                 *)
AllValues == Word11
TestsRead == {<<"color", "RGB8">>, <<"alpha", "RGBA6">>}

(* The sums next to those that fill a field, a byte or a weight of one, in     *)
(* columns that reach the corners of the arithmetic.                         *)
BoundarySums == {0, 1, 31, 32} \cup (62 .. 65) \cup (125 .. 128) \cup (187 .. 189)
CornerColumns == {0, 1, 63, 128, 170, 254, 255}

Init ==
    /\ component \in {"tile", "tev", "filter"}
    /\ TileInit /\ TevInit /\ FilterInit

Next ==
    /\ UNCHANGED component
    /\ \/ component = "tile" /\ TileNext /\ UNCHANGED <<tevVars, filterVars>>
       \/ component = "tev" /\ TevNext /\ UNCHANGED <<tileVars, filterVars>>
       \/ component = "filter" /\ FilterNext /\ UNCHANGED <<tileVars, tevVars>>

Spec == Init /\ [][Next]_vars
=============================================================================
