----------------------------- MODULE GxRegisters -----------------------------
(***************************************************************************)
(* How the programs make the words they load into the GPU: a union is      *)
(* given a whole word (hex), or one of CGXDefault's (cgx_defaults.h), and  *)
(* then some of its fields are assigned one after the other, through       *)
(* BitField's operator=.                                                   *)
(***************************************************************************)
EXTENDS CPMemory

LOCAL INSTANCE SequencesExt

CONSTANTS
  Chosen,      \* the names of the registers that are programmed
  MaxAssigns   \* how many fields are assigned, at most

ASSUME AssignsBound == MaxAssigns \in Nat

VARIABLES
  register,    \* the name of the union
  start,       \* the word it was given first
  hex,         \* its word now
  meant,       \* for each field assigned since, the value that was meant
  left         \* how many assignments may still follow

vars == <<register, start, hex, meant, left>>

(***************************************************************************)
(* Every union of BPMemory.h, CPMemory.h and XFMemory.h by its name.       *)
(***************************************************************************)
Layout ==
  [IND_MTXA |-> IND_MTXA, IND_MTXB |-> IND_MTXB, IND_MTXC |-> IND_MTXC,
   IND_IMASK |-> IND_IMASK, ColorCombiner |-> ColorCombiner, AlphaCombiner |-> AlphaCombiner,
   TevStageIndirect |-> TevStageIndirect, TwoTevStageOrders |-> TwoTevStageOrders,
   TEXSCALE |-> TEXSCALE, RAS1_IREF |-> RAS1_IREF, TexMode0 |-> TexMode0,
   TexMode1 |-> TexMode1, TexImage0 |-> TexImage0, TexImage1 |-> TexImage1,
   TexImage2 |-> TexImage2, TexImage3 |-> TexImage3, TexTLUT |-> TexTLUT, ZTex1 |-> ZTex1,
   ZTex2 |-> ZTex2, GenMode |-> GenMode, LPSize |-> LPSize, X12Y12 |-> X12Y12,
   X10Y10 |-> X10Y10, S32X10Y10 |-> S32X10Y10, BlendMode |-> BlendMode,
   FogParam0 |-> FogParam0, FogParam3 |-> FogParam3, FogRangeKElement |-> FogRangeKElement,
   RangeBase |-> RangeBase, FogColor |-> FogColor, ZMode |-> ZMode,
   ConstantAlpha |-> ConstantAlpha, FieldMode |-> FieldMode, FieldMask |-> FieldMask,
   PEControl |-> PEControl, TCInfo |-> TCInfo, RA |-> RA, BG |-> BG, TevKSel |-> TevKSel,
   AlphaTest |-> AlphaTest, UPE_Copy |-> UPE_Copy,
   CopyFilterCoefficients |-> CopyFilterCoefficients,
   BPU_PreloadTileInfo |-> BPU_PreloadTileInfo, TexUnitAddress |-> TexUnitAddress,
   TVtxDesc |-> TVtxDesc, UVAT_group0 |-> UVAT_group0, UVAT_group1 |-> UVAT_group1,
   UVAT_group2 |-> UVAT_group2, TMatrixIndexA |-> TMatrixIndexA,
   TMatrixIndexB |-> TMatrixIndexB, LitChannel |-> LitChannel]

(***************************************************************************)
(* CGXDefault: the word with the register's address on top, and a value    *)
(* for the fields that matter.  GX_TEXMAP_NULL and GX_TEXCOORDNULL are     *)
(* 0xff, of which the fields keep three bits.                              *)
(***************************************************************************)
At(address) == ShiftLeft(WordOf(address, 32), 24, 32)

Assigned(layout, word, assigns) ==
  FoldLeft(LAMBDA w, assign : Assign(w, layout.field[assign[1]], WordOf(assign[2], 32)),
           word, assigns)

GX_NULL == 255

DefaultGenMode ==
  Assigned(GenMode, At(BPMEM.GENMODE),
           <<<<"numtexgens", 0>>, <<"numcolchans", 1>>, <<"numtevstages", 0>>,
             <<"cullmode", CullMode.member.None>>, <<"numindstages", 0>>, <<"zfreeze", 0>>>>)

DefaultZMode ==
  Assigned(ZMode, At(BPMEM.ZMODE),
           <<<<"testenable", 0>>, <<"func", CompareMode.member.Always>>, <<"updateenable", 0>>>>)

DefaultCombiner(layout, zero, address) ==
  Assigned(layout, At(address),
           <<<<"a", zero>>, <<"b", zero>>, <<"c", zero>>, <<"d", zero>>,
             <<"op", TevOp.member.Add>>, <<"bias", TevBias.member.Zero>>,
             <<"scale", TevScale.member.Scale1>>, <<"clamp", 0>>,
             <<"dest", TevOutput.member.Prev>>>>)
DefaultColorCombiner(stage) ==
  DefaultCombiner(ColorCombiner, TevColorArg.member.Zero, BPMEM.TEV_COLOR_ENV + 2 * stage)
DefaultAlphaCombiner(stage) ==
  DefaultCombiner(AlphaCombiner, TevAlphaArg.member.Zero, BPMEM.TEV_ALPHA_ENV + 2 * stage)

DefaultOrders(index) ==
  Assigned(TwoTevStageOrders, At(BPMEM.TREF + index),
           <<<<"texmap0", GX_NULL>>, <<"texcoord0", GX_NULL>>, <<"enable0", 0>>,
             <<"colorchan0", RasColorChan.member.Color0>>>>)

DefaultTevReg(index, is_konst_color) ==
  LET type == IF is_konst_color THEN TevRegType.member.Constant ELSE TevRegType.member.Color
  IN [ra |-> Assigned(RA, At(BPMEM.TEV_COLOR_RA + 2 * index), <<<<"type", type>>>>),
      bg |-> Assigned(BG, At(BPMEM.TEV_COLOR_BG + 2 * index), <<<<"type", type>>>>)]

(***************************************************************************)
(* BitfieldTest (bitfield.cpp): the words and values it assigns to a       *)
(* TevReg::RA one after the other, and what it then expects of alpha and   *)
(* red.                                                                    *)
(***************************************************************************)
Pair(alpha, red) == <<<<"alpha", alpha>>, <<"red", red>>>>
BitfieldTest ==
  <<[hex |-> 3430008, assigns |-> <<>>, alpha |-> 837, red |-> -392],
    [hex |-> 4966056, assigns |-> <<>>, alpha |-> -836, red |-> -344],
    [hex |-> 0, assigns |-> Pair(-263, -345), alpha |-> -263, red |-> -345],
    [hex |-> 0, assigns |-> Pair(-263, -345) \o Pair(15, -619), alpha |-> 15, red |-> -619],
    [hex |-> 0, assigns |-> Pair(-263, -345) \o Pair(15, -619) \o Pair(523, 176),
     alpha |-> 523, red |-> 176]>>

TestPasses(test) ==
  LET word == Assigned(RA, WordOf(test.hex, 32), test.assigns)
  IN /\ Signed(Value(word, RA.field.alpha)) = test.alpha
     /\ Signed(Value(word, RA.field.red)) = test.red

\* The words a union starts with: zero, a default of its own, the words of
\* BitfieldTest, and one with every bit set.
Starts(name) ==
  {{}, Bits(32)} \cup
  CASE name = "GenMode" -> {DefaultGenMode}
    [] name = "ZMode" -> {DefaultZMode}
    [] name = "ColorCombiner" -> {DefaultColorCombiner(stage) : stage \in {0, 15}}
    [] name = "AlphaCombiner" -> {DefaultAlphaCombiner(stage) : stage \in {0, 15}}
    [] name = "TwoTevStageOrders" -> {DefaultOrders(index) : index \in {0, 7}}
    [] name = "RA" -> {DefaultTevReg(3, konst).ra : konst \in BOOLEAN}
                        \cup {WordOf(3430008, 32), WordOf(4966056, 32)}
    [] name = "BG" -> {DefaultTevReg(3, konst).bg : konst \in BOOLEAN}
    [] OTHER -> {At(BPMEM.TRIGGER_EFB_COPY)}

(***************************************************************************)
(* The values assigned: all ones (-1), the highest and the lowest a signed *)
(* field can hold, both wider than what is kept of them, and bits that     *)
(* alternate.                                                              *)
(***************************************************************************)
Samples(f) ==
  {Bits(f.w), Bits(f.bits - 1), (f.bits - 1)..(f.w - 1), {b \in Bits(f.w) : b % 2 = 1}}

Field(name) == Layout[register].field[name]

\* The fields that the unions let share bits: views of the whole word or of
\* a half of it, the members of which only one applies at a time (bias tells
\* which), and a field next to its parts.
Views == {"Low", "High", "Hex0", "Hex1", "Hex", "FullAddress"}
Shares(n, m) == \/ n \in Views
                \/ m \in Views
                \/ {n, m} \in {{"op", "comparison"}, {"scale", "compare_mode"},
                              {"s2", "sdk_s2"}, {"bias", "bias_s"}, {"bias", "bias_t"},
                              {"bias", "bias_u"}}

(***************************************************************************)
(* What the compiler checks of each field, and what nobody checks: that    *)
(* the members of a union are words of one width and that those which do   *)
(* not share bits on purpose lie apart, below the address.                 *)
(***************************************************************************)
OfBp == DOMAIN Layout \ {"CopyFilterCoefficients", "TVtxDesc", "UVAT_group0", "UVAT_group1",
                         "UVAT_group2", "TMatrixIndexA", "TMatrixIndexB", "LitChannel"}

ASSUME ChosenExist == Chosen \subseteq DOMAIN Layout

ASSUME LayoutsApart ==
  \A r \in DOMAIN Layout : \A n \in DOMAIN Layout[r].field :
    LET f == Layout[r].field[n]
    IN /\ f.pos \in Nat /\ f.bits \in Nat /\ f.w \in Nat /\ f.signed \in BOOLEAN
       /\ IsField(f) /\ (f.signed => f.w >= IntBits)
       /\ r \in OfBp => f.pos + f.bits <= 24
       /\ \A m \in DOMAIN Layout[r].field \ {n} :
            Shares(n, m) \/ (f.w = Layout[r].field[m].w /\ Disjoint(f, Layout[r].field[m]))

Init ==
  /\ register \in Chosen
  /\ start \in Starts(register)
  /\ hex = start
  /\ meant = <<>>
  /\ left = MaxAssigns

Set(name, val) ==
  /\ left > 0
  /\ left' = left - 1
  /\ hex' = Assign(hex, Field(name), val)
  /\ meant' = [n \in {n \in DOMAIN meant : ~Shares(n, name)} \cup {name} |->
                 IF n = name THEN Kept(Field(name), val) ELSE meant[n]]
  /\ UNCHANGED <<register, start>>

Next == \E name \in DOMAIN Layout[register].field : \E val \in Samples(Field(name)) : Set(name, val)

Spec == Init /\ [][Next]_vars

-----------------------------------------------------------------------------
(***************************************************************************)
(* A field reads as what was last assigned to it, cut to its width and     *)
(* with its sign, whatever other fields were assigned after it: no two     *)
(* members of a union (BPMemory.h, CPMemory.h, XFMemory.h) share a bit     *)
(* unless they are meant to.                                               *)
(***************************************************************************)
KeepsMeaning == \A n \in DOMAIN meant : Value(hex, Field(n)) = meant[n]

(***************************************************************************)
(* The top byte of a word loaded into the BP is the address of its         *)
(* register: no assignment to a field, even of a negative or too wide      *)
(* value, makes the word another register's (CGX_LOAD_BP_REG sends it as   *)
(* it is).                                                                 *)
(***************************************************************************)
KeepsAddress == register \in OfBp => hex \cap (24..31) = start \cap (24..31)
=============================================================================
