----------------------------- MODULE TevEquation -----------------------------
(***************************************************************************)
(* The equation that the formatters of ColorCombiner and AlphaCombiner     *)
(* (BPMemory.h) print for a TEV stage, with additions of zero and          *)
(* multiplications by one left out.                                        *)
(*                                                                         *)
(* An equation is printed as                                               *)
(*   (d sign term bias) * scale                                            *)
(* where each part may be missing; the record holds the parts as they      *)
(* are printed but for spaces, a term as its form and the names in it, a   *)
(* part that is not printed as None.                                       *)
(***************************************************************************)
EXTENDS GxRegisters

CONSTANTS
  ColorArgs, AlphaArgs,      \* numbers of the arguments that are combined
  ColorValues, AlphaValues   \* what they may be worth, in units of 1/4

(* Every argument has a value; those that are constants have their own.    *)
ASSUME ArgsAreNumbered == ColorArgs \subseteq 0..15 /\ AlphaArgs \subseteq 0..7
ASSUME ColorsHaveValues ==
  \A v \in ColorValues : v \in [1..16 -> Int] /\ v[13] = 4 /\ v[14] = 2 /\ v[16] = 0
ASSUME AlphasHaveValues == \A v \in AlphaValues : v \in [1..8 -> Int] /\ v[8] = 0

\* The names of the arguments in the equation of a colour.
alt_names ==
  <<"prev.rgb", "prev.aaa", "c0.rgb", "c0.aaa", "c1.rgb", "c1.aaa", "c2.rgb", "c2.aaa",
    "tex.rgb", "tex.aaa", "ras.rgb", "ras.aaa", "1", ".5", "konst.rgb", "0">>

Arg == TevColorArg.member
AlphaArg == TevAlphaArg.member

(***************************************************************************)
(* What both formatters print around the term: op, the bias with a sign of *)
(* its own when something precedes it, a zero when nothing else is there.  *)
(***************************************************************************)
None == "none"
Term(form, names) == [form |-> form, names |-> names]

Around(comb, d, term) ==
  LET has_bias == comb.bias # TevBias.member.Zero
      plus == comb.bias = TevBias.member.AddHalf
      op == IF comb.op = TevOp.member.Sub THEN "-" ELSE "+"
      has_term == term.form # None
      has_d == d # None
      has_some == has_term \/ has_d
  IN [dest |-> IF comb.dest = TevOutput.member.Prev THEN "dest" ELSE TevOutput.names[comb.dest + 1],
      d |-> d,
      sign |-> IF has_term /\ (has_d \/ comb.op = TevOp.member.Sub) THEN op ELSE None,
      term |-> term,
      bias |-> CASE has_bias /\ has_some -> IF plus THEN "+.5" ELSE "-.5"
                 [] has_bias /\ ~has_some -> IF plus THEN ".5" ELSE "-.5"
                 [] ~has_bias /\ has_some -> None
                 [] OTHER -> "0",
      scale |-> IF comb.scale = TevScale.member.Scale1 THEN None ELSE TevScale.names[comb.scale + 1]]

\* If c is one, (1 - c) * a is zero; if b or c is zero, b * c is.
HasALikeB(cc) == cc.a # Arg.Zero /\ cc.c # Arg.Zero  \* mutant: as for b
HasA(cc) == cc.a # Arg.Zero /\ cc.c # Arg.One
HasB(cc) == cc.b # Arg.Zero /\ cc.c # Arg.Zero

ColorEquation(cc) ==
  LET Name(arg) == alt_names[arg + 1]
      has_ac == HasA(cc)
      has_bc == HasB(cc)
      term ==
        CASE ~has_ac /\ ~has_bc -> Term(None, <<>>)
          [] has_ac /\ has_bc /\ cc.c = Arg.Half -> Term("average", <<Name(cc.a), Name(cc.b)>>)
          [] has_ac /\ has_bc /\ cc.c # Arg.Half -> Term("lerp", <<Name(cc.a), Name(cc.b), Name(cc.c)>>)
          [] has_ac /\ ~has_bc /\ cc.c = Arg.Zero -> Term("plain", <<Name(cc.a)>>)
          [] has_ac /\ ~has_bc /\ cc.c = Arg.Half -> Term("product", <<".5", Name(cc.a)>>)
          [] has_ac /\ ~has_bc /\ cc.c \notin {Arg.Zero, Arg.Half} ->
               Term("complement", <<Name(cc.c), Name(cc.a)>>)
          [] ~has_ac /\ has_bc /\ cc.c = Arg.One -> Term("plain", <<Name(cc.b)>>)
          [] OTHER -> Term("product", <<Name(cc.c), Name(cc.b)>>)
  IN Around(cc, IF cc.d = Arg.Zero THEN None ELSE Name(cc.d), term)

AlphaEquation(ac) ==
  LET Name(arg) == TevAlphaArg.names[arg + 1]
      has_ac == ac.a # AlphaArg.Zero
      has_bc == ac.b # AlphaArg.Zero /\ ac.c # AlphaArg.Zero
      term ==
        CASE ~has_ac /\ ~has_bc -> Term(None, <<>>)
          [] has_ac /\ has_bc -> Term("lerp", <<Name(ac.a), Name(ac.b), Name(ac.c)>>)
          [] has_ac /\ ~has_bc /\ ac.c = AlphaArg.Zero -> Term("plain", <<Name(ac.a)>>)
          [] has_ac /\ ~has_bc /\ ac.c # AlphaArg.Zero -> Term("complement", <<Name(ac.c), Name(ac.a)>>)
          [] OTHER -> Term("product", <<Name(ac.c), Name(ac.b)>>)
  IN Around(ac, IF ac.d = AlphaArg.Zero THEN None ELSE Name(ac.d), term)

(***************************************************************************)
(* What a reader takes from the text, for given values of the names: a     *)
(* value is in units of 1/4, a sum of 1/16, a scaled one of 1/32.          *)
(***************************************************************************)
Env(names, value) ==
  [n \in {names[i] : i \in DOMAIN names} |-> value[CHOOSE i \in DOMAIN names : names[i] = n]]

NameValue(name, env) ==
  CASE name = "1" -> 4
    [] name = ".5" -> 2
    [] name = "0" -> 0
    [] OTHER -> env[name]

TermValue(term, env) ==
  LET V(i) == NameValue(term.names[i], env)
  IN CASE term.form = None -> 0
       [] term.form = "average" -> 2 * (V(1) + V(2))
       [] term.form = "lerp" -> (4 - V(3)) * V(1) + V(3) * V(2)
       [] term.form = "plain" -> 4 * V(1)
       [] term.form = "complement" -> (4 - V(1)) * V(2)
       [] OTHER -> V(1) * V(2)

ReadValue(eq, env) ==
  LET term == TermValue(eq.term, env)
      signed == IF eq.sign = "-" THEN -term ELSE term
      bias == CASE eq.bias \in {"+.5", ".5"} -> 8
                [] eq.bias = "-.5" -> -8
                [] OTHER -> 0
      sum == (IF eq.d = None THEN 0 ELSE 4 * NameValue(eq.d, env)) + signed + bias
  IN CASE eq.scale = None -> 2 * sum
       [] eq.scale = "2" -> 4 * sum
       [] eq.scale = "4" -> 8 * sum
       [] OTHER -> sum

-----------------------------------------------------------------------------
(***************************************************************************)
(* The equation printed for a stage is the one the formatter's comment     *)
(* gives,                                                                  *)
(*   dest = (d (OP) ((1 - c)*a + c*b) + bias) * scale                      *)
(* whichever constants are simplified away: whatever the names are worth,  *)
(* both have the same value (the formatters of the two combiners).         *)
(***************************************************************************)
Combination(comb, value) ==
  LET V(arg) == value[arg + 1]
      lerp == (4 - V(comb.c)) * V(comb.a) + V(comb.c) * V(comb.b)
      sum == 4 * V(comb.d) + (IF comb.op = 1 THEN -lerp ELSE lerp) + <<0, 8, -8>>[comb.bias + 1]
  IN sum * <<2, 4, 8, 1>>[comb.scale + 1]

Combiners(args) ==
  [a : args, b : args, c : args, d : args, op : 0..1, bias : 0..2, scale : 0..3, dest : 0..3]

ColorsExact ==
  \A cc \in Combiners(ColorArgs), v \in ColorValues :
    ReadValue(ColorEquation(cc), Env(alt_names, v)) = Combination(cc, v)
AlphasExact ==
  \A ac \in Combiners(AlphaArgs), v \in AlphaValues :
    ReadValue(AlphaEquation(ac), Env(TevAlphaArg.names, v)) = Combination(ac, v)

EquationExact ==
  /\ register = "ColorCombiner" => ColorsExact
  /\ register = "AlphaCombiner" => AlphasExact
=============================================================================
