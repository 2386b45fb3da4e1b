---------------------------- MODULE MCGxRegisters ----------------------------
(***************************************************************************)
(* The register layouts, checked: every union from every word it starts    *)
(* with, through every sequence of MaxAssigns assignments, and the         *)
(* equation of the stages that a reader of a log can meet.                 *)
(***************************************************************************)
EXTENDS TevEquation, BitUtils, FormatUtil

IntMax == 127
fmt == INSTANCE FmtFormat

Text(word) ==
  [n \in Layout[register].shown |->
     LET f == Field(n)
         value == Value(word, f)
     IN CASE register = "UPE_Copy" /\ n = "target_pixel_format" ->
               Formatted(EFBCopyFormat, tp_realFormat(word), "u")
          [] register = "UPE_Copy" /\ n \in {"clamp_top", "clamp_bottom"} -> <<clampShown(word)>>
          [] f.enum.names # <<>> -> Formatted(f.enum, Number(value), "u")
          [] OTHER -> <<value>>]
RegistersPrint ==
  /\ Layout[register].shown # {} /\ Text(hex) = Text(start) =>
       \A n \in DOMAIN Layout[register].field : Value(hex, Field(n)) = Value(start, Field(n))
  /\ \A n \in {n \in Layout[register].shown : Field(n).enum.names # <<>>} :
       LET enum == Field(n).enum
           real == {enum.member[m] : m \in DOMAIN enum.member \ {"XFB", "INVALID_FMT"}}
       IN hex = start => {e \in 0..31 : HasName(enum, e)} = real

(***************************************************************************)
(* Messages: every string of at most five characters that mean something  *)
(* to the parser, and every field made of the parts below, for every       *)
(* type of argument.  A width or precision that is an argument is one that *)
(* will do (7 and 1), or is missing, or is one of those that will not.     *)
(***************************************************************************)
Argument(type, value) == [type |-> fmt!Mapped[type], value |-> value, letters |-> {}, address |-> 11]
Arguments ==
  <<Argument("s32", -11), Argument("u8", 11), Argument("bool", TRUE), Argument("char", 9),
    Argument("f64", <<"1">>), Argument("name", <<"a", "b">>), Argument("literal", <<"a", "b">>),
    Argument("address", 10),
    [type |-> "custom", value |-> <<"t">>, letters |-> {"u", "s", "n"}, address |-> 0]>>
Nested == <<Argument("u8", 7), Argument("u8", 1)>>
Unfit ==
  <<Argument("s32", -1), Argument("u32", IntMax + 1), Argument("bool", TRUE), Argument("char", 9),
    Argument("literal", <<"a", "b">>)>>
Lists == [i \in DOMAIN Arguments |-> <<Arguments[i]>> \o Nested]
UnfitTails ==
  << <<>> >> \o [k \in DOMAIN Unfit |-> <<Unfit[k], Nested[2]>>]
            \o [k \in DOMAIN Unfit |-> <<Nested[1], Unfit[k]>>]
UnfitLists(i) == [k \in DOMAIN UnfitTails |-> <<Arguments[i]>> \o UnfitTails[k]]
ShortLists == <<<<>>, <<Arguments[1]>>, <<Arguments[7]>> \o Nested, <<Arguments[9]>> \o Nested>>
Numbers == {-11, -1, 0, 1, 10, 11}

Strings == UNION {[1..n -> {"{", "}", ":", "0", "<", "x"}] : n \in 0..5}
Fields ==
  {<<"{", ":">> \o align \o flags \o zero \o width \o precision \o type \o <<"}">> :
     align \in {<<>>, <<"<">>, <<"x", "^">>, <<"}", ">">>}, flags \in {<<>>, <<"+">>, <<"#">>},
     zero \in {<<>>, <<"0">>}, width \in {<<>>, <<"7">>, <<"{", "}">>, <<"{", "q", "}">>},
     precision \in {<<>>, <<".", "1">>, <<".", "{", "}">>},
     type \in {<<>>, <<"x">>, <<"s">>, <<"c">>, <<"L">>, <<"L", "e">>}}

(* A name inside a specification is not looked up before it is formatted.   *)
NestedName(s) ==
  \E i \in 2..(Len(s) - 1) : s[i] = "{" /\ s[i - 1] # "{" /\ s[i + 1] \in fmt!NameStart

(* Nor is more asked of an argument nested there than that it exists: all    *)
(* arguments but the first of a string in Fields are nested, and those that  *)
(* the other strings are given are fit to be.                               *)
Fit(a) == a.type \in fmt!IsInteger /\ a.value \in 0..IntMax
NestedFit(used, args) == \A k \in 2..Len(used) : Fit(args[used[k] + 1])

CheckedAndCounted(s, lists) ==
  \A i \in DOMAIN lists :
    LET Agree(checked, formatted) ==
          /\ formatted.ok <=> checked.ok /\ ~NestedName(s) /\ NestedFit(checked.used, lists[i])
          /\ formatted.ok => /\ Len(formatted.used) = CountFmtReplacementFields(s)
                             /\ ContainsNonPositionalArguments(s) <=> formatted.next > 0
    IN Agree(fmt!check(s, lists[i]), fmt!format(s, lists[i]))

(* What is read or written in two ways is the same in both.                 *)
ShortcutsAgree(s, lists) ==
  \A i \in DOMAIN lists :
    LET args == lists[i]
        c == [checking |-> FALSE, args |-> args]
        specs == [fmt!Start EXCEPT !.at = 3]
        Same(short, long, out) == (short.ok <=> long.ok) /\ (short.ok => short = long /\ out = short.out)
    IN /\ Same(fmt!ReadShort(c, s, fmt!Start), fmt!ReadLong(c, s, fmt!Start), fmt!format(s, args).out)
       /\ fmt!OneLetter(s, specs) /\ args # <<>> =>
            fmt!AllParts(c, s, specs, args[1].type) = fmt!parse_presentation_type(s, specs)

(* A width makes columns, and a number can be told from its text: unless it *)
(* is a character, or zeros stand where they could be digits.               *)
ColumnsAndNumbers(s) ==
  LET Out(a) == fmt!format(s, <<a>> \o Nested)
      number == [n \in Numbers |-> Out(Argument("s32", n))]
      specs == number[0].specs
      texts == {number[n].out : n \in Numbers}
  IN /\ \A i \in DOMAIN Arguments :
          LET p == Out(Arguments[i])
          IN Arguments[i].type # "double" /\ p.ok /\ p.specs.width # 0 => Len(p.out) = p.specs.width
     /\ number[0].ok /\ specs.type # "chr" /\ (specs.fill = "0" => specs.align = "numeric") =>
          Cardinality(texts) = Cardinality(Numbers)

(***************************************************************************)
(* What a format string is checked for when the program is compiled is     *)
(* what formatting it needs when a test fails, with one exception: of a     *)
(* width or a precision that is an argument only the existence is checked,  *)
(* and of one that is a name not even that.  So a string that compiles is   *)
(* refused when it is formatted, which ends the program, exactly if such an *)
(* argument is no integer (bool and char are none), is negative or is no    *)
(* int, or if there is a name.  A message that is formatted uses as many    *)
(* arguments as FormatUtil counts, and tells the numbers in it.             *)
(***************************************************************************)
MessagesPrint ==
  register = "TexUnitAddress" /\ hex = {} =>
    /\ \A s \in Strings : CheckedAndCounted(s, ShortLists) /\ ShortcutsAgree(s, ShortLists)
    /\ \A s \in Fields :
         /\ CheckedAndCounted(s, Lists) /\ ShortcutsAgree(s, Lists) /\ ColumnsAndNumbers(s)
         /\ (\E i \in 3..Len(s) : s[i] = "{") => \A n \in DOMAIN Arguments : CheckedAndCounted(s, UnfitLists(n))

(***************************************************************************)
(* What is printed tells everything.  A register that has a formatter      *)
(* prints two words alike only when all its fields are alike in both, and  *)
(* the message of a test that fails is formatted, with its numbers, unless *)
(* a width or precision in it is an argument that is not fit to be one.    *)
(***************************************************************************)
PrintsAll == RegistersPrint /\ MessagesPrint

(* The accessors with an index read the field of that index. *)
OddEven(Get1(_, _), even, odd) ==
  \A i \in 0..1 : Get1(hex, i) = Value(hex, Field(IF i = 0 THEN even ELSE odd))

(* The attributes, numbered by VA_*, are the fields of the descriptor: the *)
(* indices of matrices one bit each, the rest two bits each, which count   *)
(* the ways a component is present; the arrays are the same attributes     *)
(* from the position on.  Formats and element counts are enumerated twice. *)
Numbered(attribute) == CHOOSE i \in DOMAIN VA : VA[i] = attribute
AttributesAgree ==
  /\ \A i \in 1..9 : Field(<<"PosMatIdx", "Tex0MatIdx", "Tex1MatIdx", "Tex2MatIdx", "Tex3MatIdx",
                            "Tex4MatIdx", "Tex5MatIdx", "Tex6MatIdx", "Tex7MatIdx">>[i]) = U64(i - 1, 1)
  /\ \A i \in 0..11 : Field(<<"Position", "Normal", "Color0", "Color1", "Tex0Coord", "Tex1Coord",
                             "Tex2Coord", "Tex3Coord", "Tex4Coord", "Tex5Coord", "Tex6Coord",
                             "Tex7Coord">>[i + 1]) = U64(Numbered("POS") - 1 + 2 * i, 2)
  /\ \A array \in DOMAIN VertexArray :
       VertexArray[array] = Numbered([POSITION |-> "POS", NORMAL |-> "NRM", COLOR |-> "CLR0",
                                      COLOR2 |-> "CLR1", TEXCOORD0 |-> "TEX0"][array]) - Numbered("POS")
  /\ \A present \in DOMAIN VTXATTR \ {"NONE"} : VTXATTR[present] = VertexComponent[present]
  /\ VTXATTR.NONE = VertexComponent.NOT_PRESENT
  /\ <<FORMAT.UBYTE, FORMAT.BYTE, FORMAT.USHORT, FORMAT.SHORT, FORMAT.FLOAT>> =
       <<VA_FMT.U8, VA_FMT.S8, VA_FMT.U16, VA_FMT.S16, VA_FMT.F32>>
  /\ <<COLOR_FORMAT.F16B_565, COLOR_FORMAT.F24B_888, COLOR_FORMAT.F32B_888x,
       COLOR_FORMAT.F16B_4444, COLOR_FORMAT.F24B_6666, COLOR_FORMAT.F32B_8888>> =
       <<VA_FMT_CLR.RGB565, VA_FMT_CLR.RGB8, VA_FMT_CLR.RGBX8, VA_FMT_CLR.RGBA4, VA_FMT_CLR.RGBA6,
         VA_FMT_CLR.RGBA8>>
  /\ \A type \in DOMAIN VA_TYPE \ {"NRM_NBT3"} : VA_TYPE[type] \in 0..1  \* a field of one bit

FieldsAgree ==
  CASE register = "RA" /\ hex = {} -> \A i \in DOMAIN BitfieldTest : TestPasses(BitfieldTest[i])
    [] register = "TwoTevStageOrders" ->
         /\ OddEven(getTexMap, "texmap0", "texmap1")
         /\ OddEven(getTexCoord, "texcoord0", "texcoord1")
         /\ OddEven(getEnable, "enable0", "enable1")
         /\ OddEven(getColorChan, "colorchan0", "colorchan1")
    [] register = "TevKSel" ->
         OddEven(getKC, "kcsel0", "kcsel1") /\ OddEven(getKA, "kasel0", "kasel1")
    [] register = "FogRangeKElement" ->
         \A i \in 0..1 : fogGetValue(hex, i) = Number(Value(hex, Field(<<"LO", "HI">>[i + 1])))
    [] register = "RAS1_IREF" ->
         \A i \in 0..3 :
           /\ irefTexMap(hex, i) = Value(hex, Field(<<"bi0", "bi1", "bi2", "bi3">>[i + 1]))
           /\ irefTexCoord(hex, i) = Value(hex, Field(<<"bc0", "bc1", "bc2", "bc3">>[i + 1]))
    [] register = "UPE_Copy" ->
         \A format \in 0..15 :
           LET copy == SetRealFormat(hex, WordOf(format, 32))
           IN /\ tp_realFormat(copy) = format
              /\ copy \ (3..6) = hex \ (3..6)
    [] register \in {"UVAT_group0", "UVAT_group1", "UVAT_group2"} ->
         LET group == CHOOSE g \in 0..2 : register = <<"UVAT_group0", "UVAT_group1", "UVAT_group2">>[g + 1]
             fracs == {"PosFrac", "Tex0Frac", "Tex1Frac", "Tex2Frac", "Tex3Frac", "Tex4Frac",
                       "Tex5Frac", "Tex6Frac", "Tex7Frac"}
         IN VAT_FRACBITS[group + 1] =
              UNION {GetMask(Field(n)) : n \in DOMAIN Layout[register].field \cap fracs}
    [] register = "TVtxDesc" -> AttributesAgree
    [] register = "CopyFilterCoefficients" ->
         \A i \in 0..6 : GetCoefficients(hex)[i] =
           {b \in 0..5 : b + 6 * (i % 4) + 32 * (i \div 4) \in hex}
    [] register = "LitChannel" ->
         GetFullLightMask(hex) \in {{}, {b \in 0..7 : b + (IF b < 4 THEN 2 ELSE 7) \in hex}}
    [] register = "IND_MTXA" ->
         \A c2 \in {{}, {22}, {23}} :
           GetScale(hex, {22}, c2) = Value(hex, Field("s0")) \cup {2} \cup {b \in {4} : 22 \in c2}
    [] register = "TevStageIndirect" ->
         IsActive(hex) <=> hex \cap {7, 8, 9, 10} # {}
    [] OTHER -> TRUE

UnitsApart ==
  register = "TexUnitAddress" /\ hex = {} =>
    \A unit \in 0..7, reg \in 0..7 :
      LET address == Address(unit, reg)
          Bank(names) == BPMEM[names[reg + 1]]
      IN /\ GetUnitID(address) = unit
         /\ FromBPAddress(GetBPAddress(address)) = address
         /\ GetOffset(address) = GetUnit(unit, reg)
         /\ GetOffset(address) = texMember(unit, reg)
         /\ GetUnit(unit, reg) \in AllRegisters
         /\ \A u \in 0..7, r \in 0..7 : GetUnit(u, r) = GetUnit(unit, reg) => u = unit /\ r = reg
         /\ reg # TexUnitRegister.member.UNKNOWN =>
              GetBPAddress(address) - (unit % 4) =
                IF unit < 4
                THEN Bank(<<"TX_SETMODE0", "TX_SETMODE1", "TX_SETIMAGE0", "TX_SETIMAGE1",
                            "TX_SETIMAGE2", "TX_SETIMAGE3", "TX_SETTLUT">>)
                ELSE Bank(<<"TX_SETMODE0_4", "TX_SETMODE1_4", "TX_SETIMAGE0_4", "TX_SETIMAGE1_4",
                            "TX_SETIMAGE2_4", "TX_SETIMAGE3_4", "TX_SETTLUT_4">>)

(***************************************************************************)
(* BitUtils' operators, for an int of 4 bits: what they extract is a field *)
(* except that of a type narrower than int the bits above stay.            *)
(***************************************************************************)
UtilitiesAgree ==
  register = "TexUnitAddress" /\ hex = {} =>
    \A w \in {1, 2, 4, 5, 6} : \A word \in Words(w) :
      LET Unsigned(begin, end) ==
            Value(word, [pos |-> begin, bits |-> end - begin + 1, signed |-> FALSE, w |-> w])
      IN /\ \A begin \in Bits(w) : \A end \in begin..(w - 1) :
              /\ begin = end => ExtractBit(word, begin, w) = Unsigned(begin, begin)
              /\ ExtractBits(word, begin, end, w, 4) =
                   IF w < 4 THEN ShiftRight(word, begin, w) ELSE Unsigned(begin, end)
         /\ \A n \in 0..(2 * w) :
              /\ RotateLeft(word, n, w) = {(b + n) % w : b \in word}
              /\ RotateRight(RotateLeft(word, n, w), n, w) = word
         /\ IsValidLowMask(word, w) <=> \E n \in 0..w : word = Bits(n)

(***************************************************************************)
(* FormatUtil's operators on every string of at most four parts: a text,   *)
(* an escaped brace of either kind, or a field with or without a number.   *)
(***************************************************************************)
Parts ==
  {[text |-> t, fields |-> 0, named |-> TRUE] : t \in {<<>>, <<"x">>, <<"{", "{">>, <<"}", "}">>}}
  \cup {[text |-> t, fields |-> 1, named |-> FALSE] : t \in {<<"{", "}">>, <<"{", ":", "x", "}">>}}
  \cup {[text |-> t, fields |-> 1, named |-> TRUE] : t \in {<<"{", "0", "}">>, <<"{", "0", ":", "x", "}">>}}

FieldsCounted ==
  register = "TexUnitAddress" /\ hex = {} =>
    \A a, b, c, d \in Parts :
      LET s == a.text \o b.text \o c.text \o d.text
      IN /\ CountFmtReplacementFields(s) = a.fields + b.fields + c.fields + d.fields
         /\ ContainsNonPositionalArguments(s) <=> ~(a.named /\ b.named /\ c.named /\ d.named)

(***************************************************************************)
(* What the members of a union compute is what its fields hold: the        *)
(* accessors with an index, the shifts by hand of RAS1_IREF, the format    *)
(* of a copy and its rotation, the masks of the attribute table, the       *)
(* attributes' numbers and their places in the descriptor, and the         *)
(* addresses of the texture units, which are those of the BP's own table   *)
(* and meet no other unit's; BitUtils' extractions are fields and its      *)
(* rotations undo each other; FormatUtil counts the fields of a string;    *)
(* and every DO_TEST of BitfieldTest holds.                                *)
(***************************************************************************)
AccessorsAgree == FieldsAgree /\ UnitsApart /\ UtilitiesAgree /\ FieldsCounted

(***************************************************************************)
(* The equations are checked for one assignment of values to the names     *)
(* that are not constants, primes, with the constants and enough of the    *)
(* other arguments for each of the four to differ.                         *)
(***************************************************************************)
SomeColors == {<<3, 5, 7, 11, 13, 17, 19, 23, 29, 31, 37, 41, 4, 2, 43, 0>>}
SomeAlphas == {<<3, 5, 7, 11, 13, 17, 19, 0>>}
=============================================================================
