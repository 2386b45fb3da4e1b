------------------------------ MODULE FormatUtil ------------------------------
(***************************************************************************)
(* The counts of Common/FormatUtil.h, by which DO_TEST compares its format *)
(* string with its arguments at compile time.  A string is a sequence of   *)
(* characters, of which "{", "}" and ":" matter.  The loops are recursive  *)
(* functions of their index.                                               *)
(***************************************************************************)
EXTENDS Naturals, Sequences

Escaped(s, i) == i < Len(s) /\ s[i + 1] = "{"

CountFmtReplacementFields(s) ==
  LET From[i \in 1..(Len(s) + 2)] ==
        CASE i > Len(s) -> 0
          [] i <= Len(s) /\ s[i] # "{" -> From[i + 1]
          [] i <= Len(s) /\ s[i] = "{" /\ Escaped(s, i) -> From[i + 2]
          [] OTHER -> 1 + From[i + 1]
  IN From[1]

(* A brace that ends the string is no field here. *)
ContainsNonPositionalArguments(s) ==
  LET From[i \in 1..(Len(s) + 2)] ==
        CASE i >= Len(s) -> FALSE
          [] i < Len(s) /\ s[i] # "{" -> From[i + 1]
          [] i < Len(s) /\ s[i] = "{" /\ Escaped(s, i) -> From[i + 2]
          [] OTHER -> s[i + 1] \in {"}", ":"} \/ From[i + 1]
  IN From[1]
=============================================================================
