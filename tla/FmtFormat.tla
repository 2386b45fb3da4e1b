------------------------------ MODULE FmtFormat ------------------------------
(***************************************************************************)
(* fmt as DO_TEST uses it: FMT_STRING checks the format string against the *)
(* types of the arguments when the program is compiled, and a test that    *)
(* fails formats its message with the same parser at run time, when        *)
(* anything the check let pass and the formatter refuses would end the     *)
(* program.  A string is a sequence of characters.  The parser p is its    *)
(* place at, the argument counter next, the arguments used, the text out,  *)
(* and the specs of the field it is in; a call of on_error makes it not    *)
(* ok, and nothing that follows matters.  A context c is the arguments and *)
(* whether they are only checked.  Names, code points of several bytes,    *)
(* locales that group digits and the digits of a floating-point number are *)
(* left out.                                                               *)
(***************************************************************************)
EXTENDS Integers, Sequences, TLC
LOCAL INSTANCE SequencesExt
LOCAL INSTANCE FiniteSetsExt

CONSTANT IntMax  \* numeric_limits<int>::max()

(***************************************************************************)
(* The types of arguments: what an argument is mapped to, of which int and *)
(* uint stand for the wider ones as well.                                  *)
(***************************************************************************)
Mapped ==
  [s8 |-> "int", u8 |-> "uint", s16 |-> "int", u16 |-> "uint", s32 |-> "int", u32 |-> "uint",
   u64 |-> "uint", bool |-> "bool", char |-> "char", f64 |-> "double", literal |-> "string",
   name |-> "cstring", address |-> "pointer", formatted |-> "custom"]
Integral == {"int", "uint", "bool", "char"}
Arithmetic == Integral \cup {"double"}
Signed == {"int", "char"}
IsInteger == {"int", "uint"}

(***************************************************************************)
(* Characters.  q and _ stand for the letters that mean nothing.           *)
(***************************************************************************)
Digit == [c \in {"0", "1", "2", "3", "4", "5", "6", "7", "8", "9"} |->
            CHOOSE n \in 0..9 : ToString(n) = c]
Align == ("<" :> "left") @@ (">" :> "right") @@ ("^" :> "center")
Sign == ("+" :> "plus") @@ ("-" :> "minus") @@ (" " :> "space")
Presentation ==
  [d |-> "dec", o |-> "oct", x |-> "hex_lower", X |-> "hex_upper", b |-> "bin_lower", B |-> "bin_upper",
   a |-> "hexfloat_lower", A |-> "hexfloat_upper", e |-> "exp_lower", E |-> "exp_upper",
   f |-> "fixed_lower", F |-> "fixed_upper", g |-> "general_lower", G |-> "general_upper",
   c |-> "chr", s |-> "string", p |-> "pointer"]
AsciiLetter == DOMAIN Presentation \cup {"L", "n", "u", "q"}
NameStart == AsciiLetter \cup {"_"}
OfInt == {"none", "dec", "oct", "hex_lower", "hex_upper", "bin_lower", "bin_upper", "chr"}

CharAt(s, i) == IF i <= Len(s) THEN s[i] ELSE "end"
Char(s, p) == CharAt(s, p.at)
EndOf(s, i, chars) == Min({j \in i..(Len(s) + 1) : CharAt(s, j) \notin chars})

(***************************************************************************)
(* The specifications of a field, and the parser before its string.        *)
(***************************************************************************)
format_specs ==
  [width |-> 0, precision |-> -1, type |-> "none", align |-> "none", sign |-> "none",
   alt |-> FALSE, localized |-> FALSE, fill |-> " "]
Start == [at |-> 1, next |-> 0, used |-> <<>>, out |-> <<>>, ok |-> TRUE, specs |-> format_specs]

Require(p, condition) == [p EXCEPT !.ok = @ /\ condition]
Skip(p) == [p EXCEPT !.at = @ + 1]
Set(p, name, value) == [p EXCEPT !.specs[name] = value]
Text(p, text) == [p EXCEPT !.out = @ \o text]

(***************************************************************************)
(* A number of as many digits as any int can have, or of one more if that  *)
(* is an int too: leading zeros count.                                     *)
(***************************************************************************)
digits10 == Max({n \in 0..9 : 10^n - 1 <= IntMax})
DigitsValue(digits) == FoldLeft(LAMBDA v, c : 10 * v + Digit[c], 0, digits)
Fits(digits) ==
  Len(digits) <= digits10 \/ (Len(digits) = digits10 + 1 /\ DigitsValue(digits) <= IntMax)
NumberAt(begin, digits, error_value) ==
  [end |-> begin + Len(digits), value |-> IF Fits(digits) THEN DigitsValue(digits) ELSE error_value]
parse_nonnegative_int(s, begin, error_value) ==
  NumberAt(begin, SubSeq(s, begin, EndOf(s, begin, DOMAIN Digit) - 1), error_value)

IndexRef(s, number) ==
  [kind |-> IF CharAt(s, number.end) \in {"}", ":"} THEN "index" ELSE "invalid",
   id |-> number.value, end |-> number.end]
parse_arg_id(s, begin) ==
  LET c == CharAt(s, begin)
  IN CASE c \in {"}", ":"} -> [kind |-> "auto", id |-> 0, end |-> begin]
       [] c = "0" -> IndexRef(s, [end |-> begin + 1, value |-> 0])
       [] c \in DOMAIN Digit \ {"0"} -> IndexRef(s, parse_nonnegative_int(s, begin, IntMax))
       [] c \in NameStart ->
            [kind |-> "name", id |-> 0, end |-> EndOf(s, begin, NameStart \cup DOMAIN Digit)]
       [] OTHER -> [kind |-> "invalid", id |-> 0, end |-> begin]

(***************************************************************************)
(* next_arg_id and check_arg_id, with the test that the argument exists,   *)
(* which comes with them at compile time and with get_arg at run time.  No *)
(* argument has a name.                                                    *)
(***************************************************************************)
on_arg_id(c, p, ref) ==
  LET id == IF ref.kind = "auto" THEN p.next ELSE ref.id
  IN [p EXCEPT !.at = ref.end,
               !.used = Append(@, id),
               !.next = IF ref.kind = "auto" THEN @ + 1 ELSE -1,
               !.ok = /\ @
                      /\ ref.kind = "auto" => p.next >= 0
                      /\ ref.kind = "index" => p.next <= 0
                      /\ ref.kind \in {"auto", "index"}
                      /\ id < Len(c.args)]
arg(c, p) == c.args[Last(p.used) + 1]

(***************************************************************************)
(* A width or precision that is an argument: its value is looked at when   *)
(* it is formatted, and a name not even looked up when it is checked.      *)
(***************************************************************************)
get_dynamic_spec_unsigned(c, p, name) ==  \* mutant: a negative one is let pass
  CASE c.checking \/ ~p.ok -> p
    [] ~c.checking /\ p.ok ->
         IF arg(c, p).type \in IsInteger
         THEN Require(Set(p, name, arg(c, p).value), arg(c, p).value <= IntMax)
         ELSE Require(p, FALSE)
get_dynamic_spec(c, p, name) ==
  CASE c.checking \/ ~p.ok -> p
    [] ~c.checking /\ p.ok ->
         IF arg(c, p).type \in IsInteger
         THEN Require(Set(p, name, arg(c, p).value), arg(c, p).value \in 0..IntMax)
         ELSE Require(p, FALSE)
on_dynamic(c, p, ref, name) ==
  IF c.checking /\ ref.kind = "name" THEN [p EXCEPT !.at = ref.end]
  ELSE get_dynamic_spec(c, on_arg_id(c, p, ref), name)

(***************************************************************************)
(* The parts of a specification in their order, each with what is required *)
(* of the argument's type.  At the end of the string no part is there.     *)
(***************************************************************************)
parse_align(s, p) ==
  LET c == Char(s, p)
      next == CharAt(s, p.at + 1)
  IN CASE next \in DOMAIN Align ->
            Skip(Skip(Require(Set(Set(p, "fill", c), "align", Align[next]), c # "{")))
       [] next \notin DOMAIN Align /\ c \in DOMAIN Align -> Skip(Set(p, "align", Align[c]))
       [] OTHER -> p

parse_sign(s, p, type) ==
  LET c == Char(s, p)
  IN IF c \in DOMAIN Sign
     THEN Skip(Require(Set(p, "sign", Sign[c]), type \in (Arithmetic \ Integral) \cup Signed))
     ELSE p

parse_flag(s, p, type, c, name) ==
  IF Char(s, p) = c THEN Skip(Require(Set(p, name, TRUE), type \in Arithmetic)) ELSE p

on_zero(p) ==
  [p EXCEPT !.specs.align = IF @ = "none" THEN "numeric" ELSE @, !.specs.fill = "0"]
parse_zero(s, p, type) ==
  IF Char(s, p) = "0" THEN Skip(Require(on_zero(p), type \in Arithmetic)) ELSE p

Given(p, name, number) ==
  Require([Set(p, name, number.value) EXCEPT !.at = number.end], number.value # -1)
Close(s, p) == Skip(Require(p, Char(s, p) = "}"))
parse_number(c, s, p, name) ==
  CASE Char(s, p) \in DOMAIN Digit -> Given(p, name, parse_nonnegative_int(s, p.at, -1))
    [] Char(s, p) = "{" -> Close(s, on_dynamic(c, p, parse_arg_id(s, p.at + 1), name))
    [] OTHER -> Require(p, name # "precision")

parse_precision(c, s, p, type) ==
  IF Char(s, p) = "."
  THEN Require(parse_number(c, s, Skip(p), "precision"), type \notin Integral \cup {"pointer"})
  ELSE p

parse_presentation_type(s, p) ==
  CASE Char(s, p) \in {"end", "}"} -> p
    [] Char(s, p) \in DOMAIN Presentation -> Skip(Set(p, "type", Presentation[Char(s, p)]))
    [] OTHER -> Require(p, FALSE)

(***************************************************************************)
(* A letter alone is read at once.                                         *)
(***************************************************************************)
OneLetter(s, p) == Char(s, p) \in AsciiLetter \ {"L"} /\ CharAt(s, p.at + 1) = "}"
AllParts(c, s, p, type) ==
  LET signed == parse_sign(s, parse_align(s, p), type)
      zero == parse_zero(s, parse_flag(s, signed, type, "#", "alt"), type)
      number == parse_precision(c, s, parse_number(c, s, zero, "width"), type)
  IN parse_presentation_type(s, parse_flag(s, number, type, "L", "localized"))
parse_format_specs(c, s, p, type) ==
  IF OneLetter(s, p) THEN parse_presentation_type(s, p) ELSE AllParts(c, s, p, type)

(***************************************************************************)
(* The presentations of a type: formatter::parse and the write functions   *)
(* ask the same check_*_spec of them.                                      *)
(***************************************************************************)
CheckSpec(type, specs) ==
  CASE type \in {"int", "uint"} -> specs.type \in OfInt
    [] type = "bool" -> specs.type \in OfInt \cup {"string"}
    [] type = "char" -> /\ specs.type \in OfInt
                        /\ specs.type \in {"none", "chr"} =>
                             specs.align # "numeric" /\ specs.sign = "none" /\ ~specs.alt
    [] type = "double" -> specs.type \in {"none"} \cup {Presentation[l] : l \in {"a", "A", "e", "E", "f", "F", "g", "G"}}
    [] type = "cstring" -> specs.type \in {"none", "string", "pointer"}
    [] type = "string" -> specs.type \in {"none", "string"}
    [] type = "pointer" -> specs.type \in {"none", "pointer"}

(***************************************************************************)
(* Writing.  The padding goes to the left of what is aligned to the right  *)
(* or behind a prefix, and by half of what is centred; what is not aligned *)
(* follows its type's default.                                             *)
(***************************************************************************)
write_padded(default, specs, width, text) ==
  LET padding == IF specs.width > width THEN specs.width - width ELSE 0
      align == IF specs.align = "none" THEN default ELSE specs.align
      left == CASE align \in {"right", "numeric"} -> padding
                [] align = "center" -> padding \div 2
                [] OTHER -> 0
      fill(n) == [i \in 1..n |-> specs.fill]
  IN fill(left) \o text \o fill(padding - left)

Lower == <<"0", "1", "2", "3", "4", "5", "6", "7", "8", "9", "a", "b", "c", "d", "e", "f">>
Upper == <<"0", "1", "2", "3", "4", "5", "6", "7", "8", "9", "A", "B", "C", "D", "E", "F">>
format_uint(value, base, digits) ==
  LET f[n \in 0..value] == (IF n < base THEN <<>> ELSE f[n \div base]) \o <<digits[(n % base) + 1]>>
  IN f[value]

(***************************************************************************)
(* Zeros stand between the prefix and the digits.                          *)
(***************************************************************************)
write_int_unprefixed(specs, prefix, digits) ==  \* mutant: zeros as if there were no prefix
  prefix \o [i \in 1..(IF specs.align = "numeric" THEN specs.width - Len(digits) ELSE 0) |-> "0"] \o digits
write_int_digits(specs, prefix, digits) ==
  LET size == Len(prefix) + Len(digits)
      zeros == CASE specs.align = "numeric" /\ specs.width > size -> specs.width - size
                 [] specs.align # "numeric" /\ specs.precision > Len(digits) ->
                      specs.precision - Len(digits)
                 [] OTHER -> 0
      text == prefix \o [i \in 1..zeros |-> "0"] \o digits
  IN IF specs.width = 0 /\ specs.precision = -1 THEN prefix \o digits
     ELSE write_padded("right", specs, Len(text), text)

(* A character is written as the number it has.                            *)
Character(code) == <<ToString(code)>>

write_int(value, specs) ==
  LET abs == IF value < 0 THEN -value ELSE value
      sign == CASE value < 0 -> <<"-">>
                [] value >= 0 /\ specs.sign = "plus" -> <<"+">>
                [] value >= 0 /\ specs.sign = "space" -> <<" ">>
                [] OTHER -> <<>>
      alt(prefix) == IF specs.alt THEN sign \o prefix ELSE sign
      oct == format_uint(abs, 8, Lower)
      dec == format_uint(abs, 10, Lower)
  IN CASE specs.type \in {"none", "dec"} /\ specs.localized ->
            write_padded("right", specs, Len(sign \o dec), sign \o dec)
       [] specs.type \in {"none", "dec"} /\ ~specs.localized -> write_int_digits(specs, sign, dec)
       [] specs.type = "hex_lower" -> write_int_digits(specs, alt(<<"0", "x">>), format_uint(abs, 16, Lower))
       [] specs.type = "hex_upper" -> write_int_digits(specs, alt(<<"0", "X">>), format_uint(abs, 16, Upper))
       [] specs.type = "bin_lower" -> write_int_digits(specs, alt(<<"0", "b">>), format_uint(abs, 2, Lower))
       [] specs.type = "bin_upper" -> write_int_digits(specs, alt(<<"0", "B">>), format_uint(abs, 2, Lower))
       [] specs.type = "oct" ->
            write_int_digits(specs, IF specs.precision <= Len(oct) /\ abs # 0 THEN alt(<<"0">>) ELSE sign, oct)
       [] specs.type = "chr" -> write_padded("left", specs, 1, Character(abs))

write_ptr(value, specs) ==
  LET text == <<"0", "x">> \o format_uint(value, 16, Lower)
  IN write_padded("right", specs, Len(text), text)

write_string(text, specs) ==
  LET size == IF specs.precision >= 0 /\ specs.precision < Len(text) THEN specs.precision ELSE Len(text)
  IN write_padded("left", specs, IF specs.width # 0 THEN size ELSE 0, SubSeq(text, 1, size))

BoolText(value) == IF value THEN <<"t", "r", "u", "e">> ELSE <<"f", "a", "l", "s", "e">>

(* A value of type double is its text.                                     *)
write(a, specs) ==
  CASE a.type \in {"int", "uint"} -> write_int(a.value, specs)
    [] a.type = "bool" /\ specs.type \notin {"none", "string"} ->
         write_int(IF a.value THEN 1 ELSE 0, specs)
    [] a.type = "bool" /\ specs.type \in {"none", "string"} ->
         write_padded("left", specs, Len(BoolText(a.value)), BoolText(a.value))
    [] a.type = "char" /\ specs.type \notin {"none", "chr"} -> write_int(a.value, specs)
    [] a.type = "char" /\ specs.type \in {"none", "chr"} ->
         write_padded("left", specs, 1, Character(a.value))
    [] a.type \in {"string", "cstring"} /\ specs.type # "pointer" -> write_string(a.value, specs)
    [] a.type = "cstring" /\ specs.type = "pointer" -> write_ptr(a.address, specs)
    [] a.type = "pointer" -> write_ptr(a.value, specs)
    [] a.type = "double" -> a.value

(* What has no specification is written by functions of its own.           *)
write_default(a) ==
  CASE a.type \in {"int", "uint"} ->
         (IF a.value < 0 THEN <<"-">> ELSE <<>>)
           \o format_uint(IF a.value < 0 THEN -a.value ELSE a.value, 10, Lower)
    [] a.type = "bool" -> BoolText(a.value)
    [] a.type = "char" -> Character(a.value)
    [] a.type = "pointer" -> write_ptr(a.value, format_specs)
    [] OTHER -> a.value

(***************************************************************************)
(* The handlers of a field: format_string_checker writes nothing.  A type  *)
(* with a formatter of its own reads at most one letter, of those its      *)
(* parse knows (EnumFormatter's u, s and n; none for a test's context).    *)
(***************************************************************************)
on_replacement_field(c, p) ==
  IF c.checking \/ ~p.ok THEN p ELSE Text(p, write_default(arg(c, p)))

custom(s, p, letters) == IF Char(s, p) \in letters THEN Skip(p) ELSE p
parse(c, s, p, a) ==
  LET Checked(q) == Require(q, CheckSpec(a.type, q.specs))
  IN IF a.type = "custom" THEN custom(s, p, a.letters)
     ELSE Checked(parse_format_specs(c, s, [p EXCEPT !.specs = format_specs], a.type))
Written(c, s, p, a) ==
  CASE Char(s, p) # "}" -> Require(p, FALSE)
    [] Char(s, p) = "}" /\ (c.checking \/ ~p.ok) -> p
    [] OTHER -> Text(p, IF a.type = "custom" THEN a.value ELSE write(a, p.specs))
on_format_specs(c, s, p) ==
  IF p.ok THEN Written(c, s, parse(c, s, p, arg(c, p)), arg(c, p)) ELSE p

(* p is at the brace that opens the field, and then behind its number.     *)
AfterNumber(c, s, p) ==
  CASE Char(s, p) = "}" -> Skip(on_replacement_field(c, p))
    [] Char(s, p) = ":" -> Close(s, on_format_specs(c, s, Skip(p)))
    [] OTHER -> Require(p, FALSE)
parse_replacement_field(c, s, p) ==
  CASE CharAt(s, p.at + 1) = "end" -> Require(p, FALSE)
    [] CharAt(s, p.at + 1) = "{" -> Skip(Skip(Text(p, <<"{">>)))
    [] OTHER -> AfterNumber(c, s, on_arg_id(c, p, parse_arg_id(s, p.at + 1)))

(***************************************************************************)
(* A short string is read character by character, a long one by looking    *)
(* for the next brace of either kind.                                      *)
(***************************************************************************)
RECURSIVE ReadShort(_, _, _)
ReadShort(c, s, p) ==
  LET ch == Char(s, p)
  IN CASE ~p.ok \/ ch = "end" -> p
       [] p.ok /\ ch = "{" -> ReadShort(c, s, parse_replacement_field(c, s, p))
       [] p.ok /\ ch = "}" ->
            IF CharAt(s, p.at + 1) = "}" THEN ReadShort(c, s, Skip(Skip(Text(p, <<"}">>))))
            ELSE Require(p, FALSE)
       [] OTHER -> ReadShort(c, s, Skip(Text(p, <<ch>>)))

Find(s, i, end, ch) == Min({j \in i..end : j = end \/ s[j] = ch})

RECURSIVE writer(_, _, _)
writer(s, p, end) ==
  LET close == Find(s, p.at, end, "}")
  IN CASE close = end -> [Text(p, SubSeq(s, p.at, end - 1)) EXCEPT !.at = end]
       [] close # end /\ (close + 1 = end \/ CharAt(s, close + 1) # "}") -> Require(p, FALSE)
       [] OTHER -> writer(s, [Text(p, SubSeq(s, p.at, close)) EXCEPT !.at = close + 2], end)

RECURSIVE ReadLong(_, _, _)
ReadLong(c, s, p) ==
  LET open == Find(s, p.at, Len(s) + 1, "{")
      Fields(q) == IF q.ok /\ open <= Len(s) THEN ReadLong(c, s, parse_replacement_field(c, s, q)) ELSE q
  IN IF p.ok THEN Fields(writer(s, p, open)) ELSE p

parse_format_string(c, s) ==
  IF Len(s) < 32 THEN ReadShort(c, s, Start) ELSE ReadLong(c, s, Start)

(***************************************************************************)
(* check_format_string, and what vformat_to adds: a shortcut for "{}".     *)
(***************************************************************************)
check(s, args) == parse_format_string([checking |-> TRUE, args |-> args], s)
format(s, args) ==
  LET c == [checking |-> FALSE, args |-> args]
      only == on_arg_id(c, Start, [kind |-> "auto", id |-> 0, end |-> 2])
  IN IF s = <<"{", "}">> THEN on_replacement_field(c, only) ELSE parse_format_string(c, s)
=============================================================================
