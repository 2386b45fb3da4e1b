------------------------------ MODULE CPMemory ------------------------------
(***************************************************************************)
(* gxtest/CPMemory.h and gxtest/XFMemory.h: the vertex descriptor and the  *)
(* vertex attribute table of the command processor, the matrix indices,    *)
(* and the lighting channel of the transform unit.                         *)
(***************************************************************************)
EXTENDS BPMemory

VertexArray == [POSITION |-> 0, NORMAL |-> 1, COLOR |-> 2, COLOR2 |-> 3, TEXCOORD0 |-> 4]

(***************************************************************************)
(* How a component is present, its formats, and its element counts.        *)
(***************************************************************************)
VertexComponent == [NOT_PRESENT |-> 0, DIRECT |-> 1, INDEX8 |-> 2, INDEX16 |-> 3]
VTXATTR == [NONE |-> 0, DIRECT |-> 1, INDEX8 |-> 2, INDEX16 |-> 3]
FORMAT == [UBYTE |-> 0, BYTE |-> 1, USHORT |-> 2, SHORT |-> 3, FLOAT |-> 4]
COLOR_FORMAT == [F16B_565 |-> 0, F24B_888 |-> 1, F32B_888x |-> 2, F16B_4444 |-> 3,
                 F24B_6666 |-> 4, F32B_8888 |-> 5]
VA_FMT == [U8 |-> 0, S8 |-> 1, U16 |-> 2, S16 |-> 3, F32 |-> 4]
VA_FMT_CLR == [RGB565 |-> 0, RGB8 |-> 1, RGBX8 |-> 2, RGBA4 |-> 3, RGBA6 |-> 4, RGBA8 |-> 5]
VA_TYPE == [POS_XY |-> 0, POS_XYZ |-> 1, NRM_XYZ |-> 0, NRM_NBT |-> 1, NRM_NBT3 |-> 2,
            CLR_RGB |-> 0, CLR_RGBA |-> 1, TEX_S |-> 0, TEX_ST |-> 1]

\* The bits of the three groups of the vertex attribute table that scale
\* by a number of fractional bits: 0x3e0001f0, 0x07c3e1f0, 0xf87c3e1f.
VAT_FRACBITS ==
  <<(4..8) \cup (25..29),
    (4..8) \cup (13..17) \cup (22..26),
    (0..4) \cup (9..13) \cup (18..22) \cup (27..31)>>

\* The attributes in the order GX numbers them.
VA == <<"PTNMTXIDX", "TEX0MTXIDX", "TEX1MTXIDX", "TEX2MTXIDX", "TEX3MTXIDX", "TEX4MTXIDX",
        "TEX5MTXIDX", "TEX6MTXIDX", "TEX7MTXIDX", "POS", "NRM", "CLR0", "CLR1", "TEX0", "TEX1",
        "TEX2", "TEX3", "TEX4", "TEX5", "TEX6", "TEX7", "POSMTXARRAY", "NRMMTXARRAY",
        "TEXMTXARRAY", "LIGHTARRAY", "NBT">>

(***************************************************************************)
(* TVtxDesc, a word of 64 bits read as two of 32.                          *)
(***************************************************************************)
TVtxDesc == Unprinted(
  [Hex0 |-> U64(0, 32), Hex1 |-> U64(32, 32),
   PosMatIdx |-> U64(0, 1), Tex0MatIdx |-> U64(1, 1), Tex1MatIdx |-> U64(2, 1),
   Tex2MatIdx |-> U64(3, 1), Tex3MatIdx |-> U64(4, 1), Tex4MatIdx |-> U64(5, 1),
   Tex5MatIdx |-> U64(6, 1), Tex6MatIdx |-> U64(7, 1), Tex7MatIdx |-> U64(8, 1),
   Position |-> U64(9, 2), Normal |-> U64(11, 2), Color0 |-> U64(13, 2), Color1 |-> U64(15, 2),
   Tex0Coord |-> U64(17, 2), Tex1Coord |-> U64(19, 2), Tex2Coord |-> U64(21, 2),
   Tex3Coord |-> U64(23, 2), Tex4Coord |-> U64(25, 2), Tex5Coord |-> U64(27, 2),
   Tex6Coord |-> U64(29, 2), Tex7Coord |-> U64(31, 2)])

UVAT_group0 == Unprinted(
  [PosElements |-> U(0, 1), PosFormat |-> U(1, 3), PosFrac |-> U(4, 5),
   NormalElements |-> U(9, 1), NormalFormat |-> U(10, 3),
   Color0Elements |-> U(13, 1), Color0Comp |-> U(14, 3),
   Color1Elements |-> U(17, 1), Color1Comp |-> U(18, 3),
   Tex0CoordElements |-> U(21, 1), Tex0CoordFormat |-> U(22, 3), Tex0Frac |-> U(25, 5),
   ByteDequant |-> U(30, 1), NormalIndex3 |-> U(31, 1)])

UVAT_group1 == Unprinted(
  [Tex1CoordElements |-> U(0, 1), Tex1CoordFormat |-> U(1, 3), Tex1Frac |-> U(4, 5),
   Tex2CoordElements |-> U(9, 1), Tex2CoordFormat |-> U(10, 3), Tex2Frac |-> U(13, 5),
   Tex3CoordElements |-> U(18, 1), Tex3CoordFormat |-> U(19, 3), Tex3Frac |-> U(22, 5),
   Tex4CoordElements |-> U(27, 1), Tex4CoordFormat |-> U(28, 3)])

UVAT_group2 == Unprinted(
  [Tex4Frac |-> U(0, 5),
   Tex5CoordElements |-> U(5, 1), Tex5CoordFormat |-> U(6, 3), Tex5Frac |-> U(9, 5),
   Tex6CoordElements |-> U(14, 1), Tex6CoordFormat |-> U(15, 3), Tex6Frac |-> U(18, 5),
   Tex7CoordElements |-> U(23, 1), Tex7CoordFormat |-> U(24, 3), Tex7Frac |-> U(27, 5)])

TMatrixIndexA == Unprinted(
  [PosNormalMtxIdx |-> U(0, 6), Tex0MtxIdx |-> U(6, 6), Tex1MtxIdx |-> U(12, 6),
   Tex2MtxIdx |-> U(18, 6), Tex3MtxIdx |-> U(24, 6), Hex |-> U(0, 30)])
TMatrixIndexB == Unprinted(
  [Tex4MtxIdx |-> U(0, 6), Tex5MtxIdx |-> U(6, 6), Tex6MtxIdx |-> U(12, 6),
   Tex7MtxIdx |-> U(18, 6), Hex |-> U(0, 24)])

(***************************************************************************)
(* LitChannel of XFMemory.h: the mask of lights lies in two halves.        *)
(***************************************************************************)
LitChannel == Unprinted(
  [matsource |-> U(0, 1), enablelighting |-> U(1, 1), lightMask0_3 |-> U(2, 4),
   ambsource |-> U(6, 1), diffusefunc |-> U(7, 2), attnfunc |-> U(9, 2),
   lightMask4_7 |-> U(11, 4)])

GetFullLightMask(hex) ==
  IF Get(LitChannel, "enablelighting", hex) # {}
  THEN Get(LitChannel, "lightMask0_3", hex)
         \cup ShiftLeft(Get(LitChannel, "lightMask4_7", hex), 4, 32)
  ELSE {}
=============================================================================
