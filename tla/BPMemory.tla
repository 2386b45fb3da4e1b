------------------------------ MODULE BPMemory ------------------------------
(***************************************************************************)
(* gxtest/BPMemory.h: the registers of the GPU's blitting processor.       *)
(*                                                                         *)
(* An enumeration is the values of its members and the table its           *)
(* EnumFormatter prints them from, "" where the table has a nullptr.  A    *)
(* register is the fields of its union, next to the whole word (hex), and  *)
(* the fields its formatter shows; a register without a formatter shows    *)
(* none.                                                                   *)
(***************************************************************************)
EXTENDS BitFields, Sequences

Enum(members, names) == [member |-> members, names |-> names]

(***************************************************************************)
(* EnumMap::InBounds and EnumFormatter::format, whose three spellings are  *)
(* the name and the number ('u', the default), the number and the name     *)
(* ('s'), and the name alone ('n').  A value the table does not name is    *)
(* Invalid.                                                                *)
(***************************************************************************)
InBounds(enum, e) == e \in 0..Len(enum.names) - 1
HasName(enum, e) == InBounds(enum, e) /\ enum.names[e + 1] # ""
Formatted(enum, e, format_type) ==
  CASE HasName(enum, e) /\ format_type = "u" -> <<enum.names[e + 1], e>>
    [] HasName(enum, e) /\ format_type = "s" -> <<e, enum.names[e + 1]>>
    [] HasName(enum, e) /\ format_type = "n" -> <<enum.names[e + 1]>>
    [] ~HasName(enum, e) /\ format_type = "s" -> <<e, "Invalid">>
    [] OTHER -> <<"Invalid", e>>

(***************************************************************************)
(* BitField<position, bits, T>: of an unsigned T, of s32, of an            *)
(* enumeration (whose bits Value() masks, is_signed being false for it),   *)
(* and of a storage of 64 bits.                                            *)
(***************************************************************************)
U(position, bits) ==
  [pos |-> position, bits |-> bits, signed |-> FALSE, w |-> 32, enum |-> Enum(<<>>, <<>>)]
S(position, bits) == [U(position, bits) EXCEPT !.signed = TRUE]
E(position, bits, enum) == [U(position, bits) EXCEPT !.enum = enum]
U64(position, bits) == [U(position, bits) EXCEPT !.w = 64]

Register(fields, shown) == [field |-> fields, shown |-> shown]
Unprinted(fields) == Register(fields, {})
Printed(fields) == Register(fields, DOMAIN fields)

(***************************************************************************)
(* The formats of textures, of palettes and of copies of the EFB.          *)
(***************************************************************************)
TextureFormat ==
  Enum([I4 |-> 0, I8 |-> 1, IA4 |-> 2, IA8 |-> 3, RGB565 |-> 4, RGB5A3 |-> 5, RGBA8 |-> 6,
        C4 |-> 8, C8 |-> 9, C14X2 |-> 10, CMPR |-> 14, XFB |-> 15],
       <<"I4", "I8", "IA4", "IA8", "RGB565", "RGB5A3", "RGBA8", "", "C4", "C8",
         "C14X2", "", "", "", "CMPR">>)

TLUTFormat == Enum([IA8 |-> 0, RGB565 |-> 1, RGB5A3 |-> 2], <<"IA8", "RGB565", "RGB5A3">>)

EFBCopyFormat ==
  Enum([R4 |-> 0, R8_0x1 |-> 1, RA4 |-> 2, RA8 |-> 3, RGB565 |-> 4, RGB5A3 |-> 5,
        RGBA8 |-> 6, A8 |-> 7, R8 |-> 8, G8 |-> 9, B8 |-> 10, RG8 |-> 11, GB8 |-> 12,
        XFB |-> 15],
       <<"R4/I4/Z4", "R8/I8/Z8H (?)", "RA4/IA4", "RA8/IA8 (Z16 too?)", "RGB565", "RGB5A3",
         "RGBA8", "A8", "R8/I8/Z8H", "G8/Z8M", "B8/Z8L",
         "RG8/Z16R (Note: G and R are reversed)", "GB8/Z16L">>)

(***************************************************************************)
(* The address of a register, bits 24 to 31 of the word that loads it.     *)
(***************************************************************************)
BPMEM ==
  [GENMODE |-> 0, DISPLAYCOPYFILTER |-> 1, IND_MTXA |-> 6, IND_MTXB |-> 7, IND_MTXC |-> 8,
   IND_IMASK |-> 15, IND_CMD |-> 16, SCISSORTL |-> 32, SCISSORBR |-> 33, LINEPTWIDTH |-> 34,
   PERF0_TRI |-> 35, PERF0_QUAD |-> 36, RAS1_SS0 |-> 37, RAS1_SS1 |-> 38, IREF |-> 39,
   TREF |-> 40, SU_SSIZE |-> 48, SU_TSIZE |-> 49, ZMODE |-> 64, BLENDMODE |-> 65,
   CONSTANTALPHA |-> 66, ZCOMPARE |-> 67, FIELDMASK |-> 68, SETDRAWDONE |-> 69,
   BUSCLOCK0 |-> 70, PE_TOKEN_ID |-> 71, PE_TOKEN_INT_ID |-> 72, EFB_TL |-> 73,
   EFB_WH |-> 74, EFB_ADDR |-> 75, MIPMAP_STRIDE |-> 77, COPYYSCALE |-> 78, CLEAR_AR |-> 79,
   CLEAR_GB |-> 80, CLEAR_Z |-> 81, TRIGGER_EFB_COPY |-> 82, COPYFILTER0 |-> 83,
   COPYFILTER1 |-> 84, CLEARBBOX1 |-> 85, CLEARBBOX2 |-> 86, CLEAR_PIXEL_PERF |-> 87,
   REVBITS |-> 88, SCISSOROFFSET |-> 89, PRELOAD_ADDR |-> 96, PRELOAD_TMEMEVEN |-> 97,
   PRELOAD_TMEMODD |-> 98, PRELOAD_MODE |-> 99, LOADTLUT0 |-> 100, LOADTLUT1 |-> 101,
   TEXINVALIDATE |-> 102, PERF1 |-> 103, FIELDMODE |-> 104, BUSCLOCK1 |-> 105,
   TX_SETMODE0 |-> 128, TX_SETMODE1 |-> 132, TX_SETIMAGE0 |-> 136, TX_SETIMAGE1 |-> 140,
   TX_SETIMAGE2 |-> 144, TX_SETIMAGE3 |-> 148, TX_SETTLUT |-> 152, TX_SETMODE0_4 |-> 160,
   TX_SETMODE1_4 |-> 164, TX_SETIMAGE0_4 |-> 168, TX_SETIMAGE1_4 |-> 172,
   TX_SETIMAGE2_4 |-> 176, TX_SETIMAGE3_4 |-> 180, TX_SETTLUT_4 |-> 184,
   TEV_COLOR_ENV |-> 192, TEV_ALPHA_ENV |-> 193, TEV_COLOR_RA |-> 224, TEV_COLOR_BG |-> 225,
   FOGRANGE |-> 232, FOGPARAM0 |-> 238, FOGBMAGNITUDE |-> 239, FOGBEXPONENT |-> 240,
   FOGPARAM3 |-> 241, FOGCOLOR |-> 242, ALPHACOMPARE |-> 243, BIAS |-> 244, ZTEX2 |-> 245,
   TEV_KSEL |-> 246, BP_MASK |-> 254]

(***************************************************************************)
(* The colour and alpha combiners of a TEV stage.                          *)
(***************************************************************************)
TevScale == Enum([Scale1 |-> 0, Scale2 |-> 1, Scale4 |-> 2, Divide2 |-> 3],
                 <<"1", "2", "4", "0.5">>)
TevOp == Enum([Add |-> 0, Sub |-> 1], <<"Add", "Subtract">>)
TevCompareMode == Enum([R8 |-> 0, GR16 |-> 1, BGR24 |-> 2, RGB8 |-> 3, A8 |-> 3],
                       <<"R8", "GR16", "BGR24", "RGB8 / A8">>)
TevComparison == Enum([GT |-> 0, EQ |-> 1], <<"Greater than", "Equal to">>)

TevColorArg ==
  Enum([PrevColor |-> 0, PrevAlpha |-> 1, Color0 |-> 2, Alpha0 |-> 3, Color1 |-> 4,
        Alpha1 |-> 5, Color2 |-> 6, Alpha2 |-> 7, TexColor |-> 8, TexAlpha |-> 9,
        RasColor |-> 10, RasAlpha |-> 11, One |-> 12, Half |-> 13, Konst |-> 14, Zero |-> 15],
       <<"prev.rgb", "prev.aaa", "c0.rgb", "c0.aaa", "c1.rgb", "c1.aaa", "c2.rgb", "c2.aaa",
         "tex.rgb", "tex.aaa", "ras.rgb", "ras.aaa", "ONE", "HALF", "konst.rgb", "ZERO">>)

TevAlphaArg ==
  Enum([PrevAlpha |-> 0, Alpha0 |-> 1, Alpha1 |-> 2, Alpha2 |-> 3, TexAlpha |-> 4,
        RasAlpha |-> 5, Konst |-> 6, Zero |-> 7],
       <<"prev", "c0", "c1", "c2", "tex", "ras", "konst", "ZERO">>)

TevOutput == Enum([Prev |-> 0, Color0 |-> 1, Color1 |-> 2, Color2 |-> 3],
                  <<"prev", "c0", "c1", "c2">>)
TevBias == Enum([Zero |-> 0, AddHalf |-> 1, SubHalf |-> 2, Compare |-> 3],
                <<"0", "+0.5", "-0.5", "compare">>)

ColorCombiner == Printed(
  [d |-> E(0, 4, TevColorArg), c |-> E(4, 4, TevColorArg), b |-> E(8, 4, TevColorArg),
   a |-> E(12, 4, TevColorArg), bias |-> E(16, 2, TevBias), op |-> E(18, 1, TevOp),
   comparison |-> E(18, 1, TevComparison), clamp |-> U(19, 1), scale |-> E(20, 2, TevScale),
   compare_mode |-> E(20, 2, TevCompareMode), dest |-> E(22, 2, TevOutput)])

AlphaCombiner == Printed(
  [rswap |-> U(0, 2), tswap |-> U(2, 2), d |-> E(4, 3, TevAlphaArg), c |-> E(7, 3, TevAlphaArg),
   b |-> E(10, 3, TevAlphaArg), a |-> E(13, 3, TevAlphaArg), bias |-> E(16, 2, TevBias),
   op |-> E(18, 1, TevOp), comparison |-> E(18, 1, TevComparison), clamp |-> U(19, 1),
   scale |-> E(20, 2, TevScale), compare_mode |-> E(20, 2, TevCompareMode),
   dest |-> E(22, 2, TevOutput)])

(***************************************************************************)
(* Indirect textures.  SDK and hardware disagree on the top bit of the     *)
(* scale: s2 is what the hardware uses of sdk_s2.                          *)
(***************************************************************************)
IndTexFormat == Enum([ITF_8 |-> 0, ITF_5 |-> 1, ITF_4 |-> 2, ITF_3 |-> 3],
                     <<"ITF_8", "ITF_5", "ITF_4", "ITF_3">>)
IndTexBias ==
  Enum([None |-> 0, S |-> 1, T |-> 2, ST |-> 3, U |-> 4, SU |-> 5, TU_ |-> 6, STU |-> 7],
       <<"None", "S", "T", "ST", "U", "SU", "TU", "STU">>)
IndMtxIndex == Enum([Off |-> 0, Matrix0 |-> 1, Matrix1 |-> 2, Matrix2 |-> 3],
                    <<"Off", "Matrix 0", "Matrix 1", "Matrix 2">>)
IndMtxId == Enum([Indirect |-> 0, S |-> 1, T |-> 2], <<"Indirect", "S", "T">>)
IndTexBumpAlpha == Enum([Off |-> 0, S |-> 1, T |-> 2, U |-> 3], <<"Off", "S", "T", "U">>)
IndTexWrap ==
  Enum([ITW_OFF |-> 0, ITW_256 |-> 1, ITW_128 |-> 2, ITW_64 |-> 3, ITW_32 |-> 4,
        ITW_16 |-> 5, ITW_0 |-> 6],
       <<"Off", "256", "128", "64", "32", "16", "0">>)

IND_MTXA == Printed([ma |-> S(0, 11), mb |-> S(11, 11), s0 |-> U(22, 2)])
IND_MTXB == Printed([mc |-> S(0, 11), md |-> S(11, 11), s1 |-> U(22, 2)])
IND_MTXC == Printed([me |-> S(0, 11), mf |-> S(11, 11), s2 |-> U(22, 1), sdk_s2 |-> U(22, 2)])
IND_IMASK == Unprinted([mask |-> U(0, 24)])

TevStageIndirect == Register(
  [bt |-> U(0, 2), fmt |-> E(2, 2, IndTexFormat), bias |-> E(4, 3, IndTexBias),
   bias_s |-> U(4, 1), bias_t |-> U(5, 1), bias_u |-> U(6, 1), bs |-> E(7, 2, IndTexBumpAlpha),
   matrix_index |-> E(9, 2, IndMtxIndex), matrix_id |-> E(11, 2, IndMtxId),
   sw |-> E(13, 3, IndTexWrap), tw |-> E(16, 3, IndTexWrap), lb_utclod |-> U(19, 1),
   fb_addprev |-> U(20, 1)],
  {"bt", "fmt", "bias", "bs", "matrix_index", "matrix_id", "sw", "tw", "lb_utclod",
   "fb_addprev"})

TEXSCALE == Printed([ss0 |-> U(0, 4), ts0 |-> U(4, 4), ss1 |-> U(8, 4), ts1 |-> U(12, 4)])
RAS1_IREF == Printed(
  [bi0 |-> U(0, 3), bc0 |-> U(3, 3), bi1 |-> U(6, 3), bc1 |-> U(9, 3),
   bi2 |-> U(12, 3), bc2 |-> U(15, 3), bi3 |-> U(18, 3), bc3 |-> U(21, 3)])

(***************************************************************************)
(* Which texture and colour each pair of TEV stages takes, and its         *)
(* constants.                                                              *)
(***************************************************************************)
RasColorChanGapless ==  \* mutant: the names follow one another
  Enum([Color0 |-> 0, Color1 |-> 1, AlphaBump |-> 5, NormalizedAlphaBump |-> 6, Zero |-> 7],
       <<"Color chan 0", "Color chan 1", "Alpha bump", "Norm alpha bump", "Zero">>)
RasColorChan ==
  Enum([Color0 |-> 0, Color1 |-> 1, AlphaBump |-> 5, NormalizedAlphaBump |-> 6, Zero |-> 7],
       <<"Color chan 0", "Color chan 1", "", "", "", "Alpha bump", "Norm alpha bump", "Zero">>)
TwoTevStageOrders == Printed(
  [texmap0 |-> U(0, 3), texcoord0 |-> U(3, 3), enable0 |-> U(6, 1),
   colorchan0 |-> E(7, 3, RasColorChan), texmap1 |-> U(12, 3), texcoord1 |-> U(15, 3),
   enable1 |-> U(18, 1), colorchan1 |-> E(19, 3, RasColorChan)])

TevRegType == Enum([Color |-> 0, Constant |-> 1], <<"Color", "Constant">>)
RA == Printed([red |-> S(0, 11), alpha |-> S(12, 11), type |-> E(23, 1, TevRegType)])
BG == Printed([blue |-> S(0, 11), green |-> S(12, 11), type |-> E(23, 1, TevRegType)])

KonstSel ==
  Enum([V1 |-> 0, V7_8 |-> 1, V3_4 |-> 2, V5_8 |-> 3, V1_2 |-> 4, V3_8 |-> 5, V1_4 |-> 6,
        V1_8 |-> 7, K0 |-> 12, K1 |-> 13, K2 |-> 14, K3 |-> 15, K0_R |-> 16, K1_R |-> 17,
        K2_R |-> 18, K3_R |-> 19, K0_G |-> 20, K1_G |-> 21, K2_G |-> 22, K3_G |-> 23,
        K0_B |-> 24, K1_B |-> 25, K2_B |-> 26, K3_B |-> 27, K0_A |-> 28, K1_A |-> 29,
        K2_A |-> 30, K3_A |-> 31],
       <<"1", "7/8", "3/4", "5/8", "1/2", "3/8", "1/4", "1/8", "", "", "", "",
         "Konst 0 RGB (invalid for alpha)", "Konst 1 RGB (invalid for alpha)",
         "Konst 2 RGB (invalid for alpha)", "Konst 3 RGB (invalid for alpha)",
         "Konst 0 Red", "Konst 1 Red", "Konst 2 Red", "Konst 3 Red",
         "Konst 0 Green", "Konst 1 Green", "Konst 2 Green", "Konst 3 Green",
         "Konst 0 Blue", "Konst 1 Blue", "Konst 2 Blue", "Konst 3 Blue",
         "Konst 0 Alpha", "Konst 1 Alpha", "Konst 2 Alpha", "Konst 3 Alpha">>)
TevKSel == Printed(
  [swap1 |-> U(0, 2), swap2 |-> U(2, 2), kcsel0 |-> E(4, 5, KonstSel),
   kasel0 |-> E(9, 5, KonstSel), kcsel1 |-> E(14, 5, KonstSel), kasel1 |-> E(19, 5, KonstSel)])

(***************************************************************************)
(* Textures.                                                               *)
(***************************************************************************)
WrapMode == Enum([Clamp |-> 0, Repeat |-> 1, Mirror |-> 2], <<"Clamp", "Repeat", "Mirror">>)
MipMode == Enum([None |-> 0, Point |-> 1, Linear |-> 2], <<"None", "Mip point", "Mip linear">>)
FilterMode == Enum([Near |-> 0, Linear |-> 1], <<"Near", "Linear">>)
LODType == Enum([Edge |-> 0, Diagonal |-> 1], <<"Edge LOD", "Diagonal LOD">>)
MaxAniso == Enum([One |-> 0, Two |-> 1, Four |-> 2], <<"1", "2", "4">>)

TexMode0 == Printed(
  [wrap_s |-> E(0, 2, WrapMode), wrap_t |-> E(2, 2, WrapMode),
   mag_filter |-> E(4, 1, FilterMode), mipmap_filter |-> E(5, 2, MipMode),
   min_filter |-> E(7, 1, FilterMode), diag_lod |-> E(8, 1, LODType), lod_bias |-> S(9, 8),
   max_aniso |-> E(19, 2, MaxAniso), lod_clamp |-> U(21, 1)])
TexMode1 == Printed([min_lod |-> U(0, 8), max_lod |-> U(8, 8)])
TexImage0 == Printed([width |-> U(0, 10), height |-> U(10, 10), format |-> E(20, 4, TextureFormat)])
TexImage1 == Printed([tmem_even |-> U(0, 15), cache_width |-> U(15, 3),
                      cache_height |-> U(18, 3), cache_manually_managed |-> U(21, 1)])
TexImage2 == Printed([tmem_odd |-> U(0, 15), cache_width |-> U(15, 3), cache_height |-> U(18, 3)])
TexImage3 == Printed([image_base |-> U(0, 24)])
TexTLUT == Printed([tmem_offset |-> U(0, 10), tlut_format |-> E(10, 2, TLUTFormat)])
BPU_PreloadTileInfo == Printed([count |-> U(0, 15), type |-> U(15, 2)])

ZTexFormat == Enum([U8 |-> 0, U16 |-> 1, U24 |-> 2], <<"u8", "u16", "u24">>)
ZTexOp == Enum([Disabled |-> 0, Add |-> 1, Replace |-> 2], <<"Disabled", "Add", "Replace">>)
ZTex1 == Unprinted([bias |-> U(0, 24)])
ZTex2 == Printed([type |-> E(0, 2, ZTexFormat), op |-> E(2, 2, ZTexOp)])

(***************************************************************************)
(* Geometry and rasterisation.                                             *)
(***************************************************************************)
CullMode == Enum([None |-> 0, Back |-> 1, Front |-> 2, All |-> 3],
                 <<"None", "Back-facing primitives only", "Front-facing primitives only",
                   "All primitives">>)
AspectRatioAdjustment == Enum([DontAdjust |-> 0, Adjust |-> 1], <<"Don't adjust", "Adjust">>)

GenMode == Printed(
  [numtexgens |-> U(0, 4), numcolchans |-> U(4, 3), unused |-> U(7, 1),
   flat_shading |-> U(8, 1), multisampling |-> U(9, 1), numtevstages |-> U(10, 4),
   cullmode |-> E(14, 2, CullMode), numindstages |-> U(16, 3), zfreeze |-> U(19, 1)])
LPSize == Printed(
  [linesize |-> U(0, 8), pointsize |-> U(8, 8), lineoff |-> U(16, 3), pointoff |-> U(19, 3),
   adjust_for_aspect_ratio |-> E(22, 1, AspectRatioAdjustment)])
X12Y12 == Unprinted([y |-> U(0, 12), x |-> U(12, 12)])
X10Y10 == Unprinted([x |-> U(0, 10), y |-> U(10, 10)])
S32X10Y10 == Unprinted([x |-> S(0, 10), y |-> S(10, 10)])
TCInfo == Printed(
  [scale_minus_1 |-> U(0, 16), range_bias |-> U(16, 1), cylindric_wrap |-> U(17, 1),
   line_offset |-> U(18, 1), point_offset |-> U(19, 1)])

(***************************************************************************)
(* The frame buffer: blending, fog, depth, alpha test, pixel formats.      *)
(***************************************************************************)
SrcBlendFactor ==
  Enum([Zero |-> 0, One |-> 1, DstClr |-> 2, InvDstClr |-> 3, SrcAlpha |-> 4,
        InvSrcAlpha |-> 5, DstAlpha |-> 6, InvDstAlpha |-> 7],
       <<"0", "1", "dst_color", "1-dst_color", "src_alpha", "1-src_alpha", "dst_alpha",
         "1-dst_alpha">>)
DstBlendFactor ==
  Enum([Zero |-> 0, One |-> 1, SrcClr |-> 2, InvSrcClr |-> 3, SrcAlpha |-> 4,
        InvSrcAlpha |-> 5, DstAlpha |-> 6, InvDstAlpha |-> 7],
       <<"0", "1", "src_color", "1-src_color", "src_alpha", "1-src_alpha", "dst_alpha",
         "1-dst_alpha">>)
LogicOp ==
  Enum([Clear |-> 0, And |-> 1, AndReverse |-> 2, Copy |-> 3, AndInverted |-> 4, NoOp |-> 5,
        Xor |-> 6, Or |-> 7, Nor |-> 8, Equiv |-> 9, Invert |-> 10, OrReverse |-> 11,
        CopyInverted |-> 12, OrInverted |-> 13, Nand |-> 14, Set |-> 15],
       <<"Clear (0)", "And (src & dst)", "And Reverse (src & ~dst)", "Copy (src)",
         "And Inverted (~src & dst)", "NoOp (dst)", "Xor (src ^ dst)", "Or (src | dst)",
         "Nor (~(src | dst))", "Equiv (~(src ^ dst))", "Invert (~dst)",
         "Or Reverse (src | ~dst)", "Copy Inverted (~src)", "Or Inverted (~src | dst)",
         "Nand (~(src & dst))", "Set (1)">>)
BlendMode == Printed(
  [blendenable |-> U(0, 1), logicopenable |-> U(1, 1), dither |-> U(2, 1),
   colorupdate |-> U(3, 1), alphaupdate |-> U(4, 1), dstfactor |-> E(5, 3, DstBlendFactor),
   srcfactor |-> E(8, 3, SrcBlendFactor), subtract |-> U(11, 1), logicmode |-> E(12, 4, LogicOp)])

FogProjection == Enum([Perspective |-> 0, Orthographic |-> 1], <<"Perspective", "Orthographic">>)
FogType ==
  Enum([Off |-> 0, Linear |-> 2, Exp |-> 4, ExpSq |-> 5, BackwardsExp |-> 6,
        BackwardsExpSq |-> 7],
       <<"Off (no fog)", "", "Linear fog", "", "Exponential fog", "Exponential-squared fog",
         "Backwards exponential fog", "Backwards exponenential-sequared fog">>)
FogParam0 == Printed([mant |-> U(0, 11), exp |-> U(11, 8), sign |-> U(19, 1)])
FogParam3 == Printed(
  [c_mant |-> U(0, 11), c_exp |-> U(11, 8), c_sign |-> U(19, 1),
   proj |-> E(20, 1, FogProjection), fsel |-> E(21, 3, FogType)])
FogRangeKElement == Printed([HI |-> U(0, 12), LO |-> U(12, 12)])
RangeBase == Printed([Center |-> U(0, 10), Enabled |-> U(10, 1)])
FogColor == Printed([b |-> U(0, 8), g |-> U(8, 8), r |-> U(16, 8)])

CompareMode ==
  Enum([Never |-> 0, Less |-> 1, Equal |-> 2, LEqual |-> 3, Greater |-> 4, NEqual |-> 5,
        GEqual |-> 6, Always |-> 7],
       <<"Never", "Less", "Equal", "LEqual", "Greater", "NEqual", "GEqual", "Always">>)
ZMode == Printed([testenable |-> U(0, 1), func |-> E(1, 3, CompareMode), updateenable |-> U(4, 1)])
ConstantAlpha == Printed([alpha |-> U(0, 8), enable |-> U(8, 1)])
FieldMode == Printed([texLOD |-> E(0, 1, AspectRatioAdjustment)])
FieldMaskState == Enum([Skip |-> 0, Write |-> 1], <<"Skipped", "Written">>)
FieldMask == Printed([odd |-> E(0, 1, FieldMaskState), even |-> E(1, 1, FieldMaskState)])

\* INVALID_FMT, 0xffffffff, is a number TLC has not: -1 stands for it.
PixelFormat ==
  Enum([RGB8_Z24 |-> 0, RGBA6_Z24 |-> 1, RGB565_Z16 |-> 2, Z24 |-> 3, Y8 |-> 4, U8 |-> 5,
        V8 |-> 6, YUV420 |-> 7, INVALID_FMT |-> -1],
       <<"RGB8_Z24", "RGBA6_Z24", "RGB565_Z16", "Z24", "Y8", "U8", "V8", "YUV420">>)
DepthFormat ==
  Enum([ZLINEAR |-> 0, ZNEAR |-> 1, ZMID |-> 2, ZFAR |-> 3, ZINV_LINEAR |-> 4,
        ZINV_NEAR |-> 5, ZINV_MID |-> 6, ZINV_FAR |-> 7],
       <<"linear", "compressed (near)", "compressed (mid)", "compressed (far)", "inv linear",
         "compressed (inv near)", "compressed (inv mid)", "compressed (inv far)">>)
PEControl == Printed([pixel_format |-> E(0, 3, PixelFormat), zformat |-> E(3, 3, DepthFormat),
                      early_ztest |-> U(6, 1)])

AlphaTestOp == Enum([And |-> 0, Or |-> 1, Xor |-> 2, Xnor |-> 3], <<"And", "Or", "Xor", "Xnor">>)
AlphaTest == Printed(
  [ref0 |-> U(0, 8), ref1 |-> U(8, 8), comp0 |-> E(16, 3, CompareMode),
   comp1 |-> E(19, 3, CompareMode), logic |-> E(22, 2, AlphaTestOp)])

(***************************************************************************)
(* Copies out of the EFB.                                                  *)
(***************************************************************************)
FrameToField == Enum([Progressive |-> 0, InterlacedEven |-> 2, InterlacedOdd |-> 3],
                     <<"Progressive", "", "Interlaced (even lines)", "Interlaced (odd lines)">>)
GammaCorrection == Enum([Gamma1_0 |-> 0, Gamma1_7 |-> 1, Gamma2_2 |-> 2, Invalid2_2 |-> 3],
                        <<"1.0", "1.7", "2.2", "Invalid 2.2">>)
UPE_Copy == Printed(
  [clamp_top |-> U(0, 1), clamp_bottom |-> U(1, 1), unknown_bit |-> U(2, 1),
   target_pixel_format |-> U(3, 4), gamma |-> E(7, 2, GammaCorrection), half_scale |-> U(9, 1),
   scale_invert |-> U(10, 1), clear |-> U(11, 1), frame_to_field |-> E(12, 2, FrameToField),
   copy_to_xfb |-> U(14, 1), intensity_fmt |-> U(15, 1), auto_conv |-> U(16, 1)])
CopyFilterCoefficients == Unprinted(
  [Low |-> U64(0, 32), w0 |-> U64(0, 6), w1 |-> U64(6, 6), w2 |-> U64(12, 6),
   w3 |-> U64(18, 6), High |-> U64(32, 32), w4 |-> U64(32, 6), w5 |-> U64(38, 6),
   w6 |-> U64(44, 6)])

(***************************************************************************)
(* The members of the unions that compute something.  Numbers small enough *)
(* for TLC stand for words where the code does arithmetic.                 *)
(***************************************************************************)
LOCAL INSTANCE FiniteSetsExt

Number(word) == MapThenSumSet(LAMBDA b : 2^b, word)
WordOf(n, w) == {b \in Bits(w) : IF b > 30 THEN n < 0 ELSE (n \div 2^b) % 2 = 1}
Signed(word) == IF 31 \in word THEN -1 - Number(Bits(31) \ word) ELSE Number(word)

\* The field of a register as the program reads it.
Get(register, name, hex) == Value(hex, register.field[name])
Num(register, name, hex) == Number(Get(register, name, hex))

\* IND_MTX::GetScale() of the three columns of an indirect matrix.
GetScale(col0, col1, col2) ==
  Get(IND_MTXA, "s0", col0)
    \cup ShiftLeft(Get(IND_MTXB, "s1", col1), 2, 8)
    \cup ShiftLeft(Get(IND_MTXC, "s2", col2), 4, 8)

IsActive(tevind) ==
  \/ Num(TevStageIndirect, "bs", tevind) # IndTexBumpAlpha.member.Off
  \/ Num(TevStageIndirect, "matrix_index", tevind) # IndMtxIndex.member.Off

\* TwoTevStageOrders: of the even stage, i = 0, or of the odd one.
getTexMap(orders, i) ==
  Get(TwoTevStageOrders, IF i # 0 THEN "texmap1" ELSE "texmap0", orders)
getTexCoord(orders, i) ==
  Get(TwoTevStageOrders, IF i # 0 THEN "texcoord1" ELSE "texcoord0", orders)
getEnable(orders, i) ==
  Get(TwoTevStageOrders, IF i # 0 THEN "enable1" ELSE "enable0", orders)
getColorChan(orders, i) ==
  Get(TwoTevStageOrders, IF i # 0 THEN "colorchan1" ELSE "colorchan0", orders)

\* RAS1_IREF reads its word without its fields.
irefTexCoord(hex, i) == ShiftRight(hex, 6 * i + 3, 32) \cap Bits(3)
irefTexMap(hex, i) == ShiftRight(hex, 6 * i, 32) \cap Bits(3)

getKC(ksel, i) == Get(TevKSel, IF i # 0 THEN "kcsel1" ELSE "kcsel0", ksel)
getKA(ksel, i) == Get(TevKSel, IF i # 0 THEN "kasel1" ELSE "kasel0", ksel)

\* In units of 1/256.
fogGetValue(k, i) == Num(FogRangeKElement, IF i # 0 THEN "HI" ELSE "LO", k)

\* The format of a copy is stored with its top bit at the bottom.
SetRealFormatStraight(copy, format_raw) ==  \* mutant: the format as it is
  Assign(copy, UPE_Copy.field.target_pixel_format, format_raw)
SetRealFormat(copy, format_raw) ==
  LET rotated == ShiftLeft(format_raw \cap Bits(3), 1, 32)
                   \cup ShiftRight(format_raw \cap {3}, 3, 32)
  IN Assign(copy, UPE_Copy.field.target_pixel_format, rotated)
tp_realFormat(copy) ==
  LET target == Num(UPE_Copy, "target_pixel_format", copy)
  IN (target \div 2) + (target % 2) * 8

clampShown(copy) ==
  LET top == Get(UPE_Copy, "clamp_top", copy) # {}
      bottom == Get(UPE_Copy, "clamp_bottom", copy) # {}
  IN IF top THEN (IF bottom THEN "Top and Bottom" ELSE "Top only")
            ELSE (IF bottom THEN "Bottom only" ELSE "None")

GetCoefficients(hex) ==
  [i \in 0..6 |-> Get(CopyFilterCoefficients, <<"w0", "w1", "w2", "w3", "w4", "w5", "w6">>[i + 1],
                      hex)]

(***************************************************************************)
(* TexUnitAddress: the registers of the eight texture units lie in two     *)
(* banks of four, interleaved: register r of unit u is word                *)
(*   u & 3, r << 2, (u >> 2) << 5                                          *)
(* of AllTexUnits, and 0x80 above it in the addresses of the BP.           *)
(***************************************************************************)
TexUnitRegister ==
  Enum([SETMODE0 |-> 0, SETMODE1 |-> 1, SETIMAGE0 |-> 2, SETIMAGE1 |-> 3, SETIMAGE2 |-> 4,
        SETIMAGE3 |-> 5, SETTLUT |-> 6, UNKNOWN |-> 7], <<>>)
TexUnitAddress == Unprinted(
  [UnitIdLow |-> U(0, 2), Reg |-> E(2, 3, TexUnitRegister), UnitIdHigh |-> U(5, 1),
   FullAddress |-> U(0, 6)])

\* The constructor.
Address(unit_id, reg) ==
  LET f == TexUnitAddress.field
      low == Assign({}, f.UnitIdLow, WordOf(unit_id % 4, 32))
      high == Assign(low, f.UnitIdHigh, WordOf(unit_id \div 4, 32))
  IN Assign(high, f.Reg, WordOf(reg, 32))

FromBPAddress(bp) == Assign({}, TexUnitAddress.field.FullAddress, WordOf(bp % 64, 32))
GetUnitID(address) ==
  Num(TexUnitAddress, "UnitIdLow", address) + Num(TexUnitAddress, "UnitIdHigh", address) * 4
GetOffset(address) == Num(TexUnitAddress, "FullAddress", address)
GetBPAddress(address) == Number(Get(TexUnitAddress, "FullAddress", address) \cup {7})
ComputeOffset(unit_id) == (unit_id % 4) + ((unit_id \div 4) % 2) * 32

\* The word of a TexUnit that holds each register: three words of padding
\* follow each of them, and `unknown' is the last.
TexUnit == [reg \in 0..7 |-> 4 * reg]
AllRegisters == 0..63

\* GetUnit(UnitId).reg: the word of AllRegisters.
GetUnit(unit_id, reg) == GetOffset(Address(unit_id, TexUnitRegister.member.SETMODE0)) + TexUnit[reg]
\* The same register through the members tex0 to tex7, which debuggers use.
texMember(unit_id, reg) == ComputeOffset(unit_id) + TexUnit[reg]
=============================================================================
