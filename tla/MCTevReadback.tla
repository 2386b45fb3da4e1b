---------------------------- MODULE MCTevReadback ----------------------------
(* TevReadback for TLC: a few values of a stage's output. *)
EXTENDS TevReadback

Around0 == {-3, 0, 5, 255}
ColorFromRGB8 == {<<"color", "RGB8">>}
PixelsLoaded == {0, 300}
=============================================================================
