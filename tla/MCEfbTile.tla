------------------------------ MODULE MCEfbTile ------------------------------
(* EfbTile for TLC: the calls the tests make in the real EFB. *)
EXTENDS EfbTile

Site(left, top, right, bottom, x, y, width) ==
    [left |-> left, top |-> top, right |-> right, bottom |-> bottom, x |-> x, y |-> y, width |-> width]

(* The calls of the tests, one per call site (one pixel where a test reads     *)
(* several): rasterization, clipping and lighting, tev, copyfilter.          *)
TestSites ==
    {Site(50, 0, 127, 127, 0, 0, 128), Site(0, 0, 127, 127, 0, 0, 128),
     Site(50, 100, 127, 127, 10, 10, 128),
     Site(0, 0, 199, 49, 125, 25, 200), Site(0, 0, 199, 49, 51, 1, 200),
     Site(0, 0, 99, 99, 5, 5, 100), Site(0, 0, 99, 9, 5, 5, 100),
     Site(0, 0, 255, 7, 255, 4, 256)}
=============================================================================
