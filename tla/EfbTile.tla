------------------------------- MODULE EfbTile -------------------------------
(***************************************************************************)
(* Where a pixel of an EFB copy lands in test_buffer, and where a test looks *)
(* for it.  CGX_DoEfbCopyTex gives the GPU the rectangle and the stride of   *)
(* a row of tiles; the GPU writes tiles of 4 by 4 pixels, two cache lines    *)
(* each, alpha and red in the first and green and blue in the second;        *)
(* ReadTestBuffer finds a pixel again from its coordinates and the width of  *)
(* the copy, which its caller has to repeat.  EfbReadback is about when the  *)
(* bytes are there; this module is about which bytes they are.              *)
(***************************************************************************)
EXTENDS Integers

CONSTANTS
    EfbWidth, EfbHeight,   \* pixels of the EFB; test_buffer holds them all
    Sites                  \* calls of CopyToTestBuffer and ReadTestBuffer made

ASSUME EfbIsTiled ==
    /\ EfbWidth \in Nat \ {0} /\ EfbWidth % 4 = 0
    /\ EfbHeight \in Nat \ {0} /\ EfbHeight % 4 = 0

(* A call site copies a rectangle of the EFB and reads the pixel x, y of it. *)
ASSUME SitesFit == \A s \in Sites :
    /\ s.left \in Nat /\ s.right \in s.left .. EfbWidth - 1
    /\ s.top \in Nat /\ s.bottom \in s.top .. EfbHeight - 1
    /\ s.x \in 0 .. s.right - s.left /\ s.y \in 0 .. s.bottom - s.top
    /\ s.width \in Nat \ {0}

VARIABLES
    rect,     \* the rectangle copied last, None before the first
    stride,   \* BPMEM_MIPMAP_STRIDE of that copy
    read      \* the last read of it and what it found, None before

tileVars == <<rect, stride, read>>

None == [none |-> TRUE]
LineSize == 32
TileSize == 2 * LineSize
TestBufferSize == EfbWidth * EfbHeight * 4
Channel == {"r", "g", "b", "a"}

(* (n + 3) >> 2, the tiles that n pixels take. *)
Tiles(n) == (n + 3) \div 4

-----------------------------------------------------------------------------
(* CGX_DoEfbCopyTex computes the stride of a row of tiles, in lines. *)
Stride(w) == Tiles(w) * 2

(* The size GX_GetTexBufferSize (external, libogc) gives for RGBA8, which is  *)
(* what DCInvalidateRange invalidates.                                      *)
GetTexBufferSize(w, h) == Tiles(w) * Tiles(h) * TileSize

(* The GPU (external): the byte of a channel of the copy's pixel x, y.  *)
InTile(x, y) == 2 * (4 * (y % 4) + (x % 4))
Offset(c) == CASE c = "a" -> 0 [] c = "r" -> 1 [] c = "g" -> LineSize [] c = "b" -> LineSize + 1
Written(x, y, c) ==
    LineSize * ((y \div 4) * stride + 2 * (x \div 4)) + InTile(x, y) + Offset(c)

(* ReadTestBuffer's address of the same channel.  The mutant takes the        *)
(* width for a number of tiles without rounding up.                         *)
ValAddrDown(s, t, width) ==
    LET base == ((t \div 4) * (width \div 4) + s \div 4) * 32
        blkOff == (t % 4) * 4 + (s % 4)
    IN  (base + blkOff) * 2
ValAddr(s, t, width) ==
    LET base == ((t \div 4) * Tiles(width) + s \div 4) * 32
        blkOff == (t % 4) * 4 + (s % 4)
    IN  (base + blkOff) * 2

-----------------------------------------------------------------------------
Rect(s) == [left |-> s.left, top |-> s.top, w |-> s.right - s.left + 1, h |-> s.bottom - s.top + 1]

(* CopyToTestBuffer and the registers CGX_DoEfbCopyTex loads for it. *)
CopyToTestBuffer(s) ==
    /\ rect' = Rect(s)
    /\ stride' = Stride(Rect(s).w)
    /\ read' = None

(* The pixels and channels the GPU wrote to a byte. *)
Pixels == (0 .. rect.w - 1) \X (0 .. rect.h - 1)
Source(offset) == {p \in Pixels \X Channel : Written(p[1][1], p[1][2], p[2]) = offset}

ReadTestBuffer(s) ==
    /\ rect = Rect(s)
    /\ read' = [x |-> s.x, y |-> s.y,
                found |-> [c \in Channel |-> Source(ValAddr(s.x, s.y, s.width) + Offset(c))]]
    /\ UNCHANGED <<rect, stride>>

TileInit == rect = None /\ stride = 0 /\ read = None

TileNext == \E s \in Sites : CopyToTestBuffer(s) \/ ReadTestBuffer(s)

TileSpec == TileInit /\ [][TileNext]_tileVars

-----------------------------------------------------------------------------
(* Every variable keeps its type. *)
TileTypeOK ==
    /\ rect = None \/ \E s \in Sites : rect = Rect(s)
    /\ stride \in 0 .. EfbWidth \div 2
    /\ read = None \/ /\ read.x \in 0 .. rect.w - 1 /\ read.y \in 0 .. rect.h - 1
                      /\ read.found \in [Channel -> SUBSET (Pixels \X Channel)]

(* ReadTestBuffer returns the channels of the pixel it was asked for, and of  *)
(* no other, whatever the width of the copy.                                *)
ReadsPixel ==
    read # None => \A c \in Channel : read.found[c] = {<< <<read.x, read.y>>, c>>}

(* A copy stays inside test_buffer, even if it is not a whole number of tiles *)
(* wide and ends at the edge of the EFB, and inside the range that           *)
(* CGX_DoEfbCopyTex invalidates.                                            *)
InBuffer ==
    rect # None => \A x \in 0 .. rect.w - 1, y \in 0 .. rect.h - 1, c \in Channel :
        /\ Written(x, y, c) \in 0 .. TestBufferSize - 1
        /\ Written(x, y, c) < GetTexBufferSize(rect.w, rect.h)

=============================================================================
