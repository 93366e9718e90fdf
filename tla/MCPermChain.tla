---------------------------- MODULE MCPermChain ----------------------------
(* Rules in the style of the manual's examples, and files and directories  *)
(* with different bits for the three classes.                              *)
EXTENDS PermChain

S(lhs, op, rhs) == [lhs |-> lhs, op |-> op, rhs |-> rhs, octal |-> {}]

MCRule ==
  { S({"o"}, "-", {"r", "w", "x"}), S({"g"}, "=", {"r", "D"}), S({"a"}, "+", {"X"}),
    S({"g"}, "=", {"u"}), S({"u", "g"}, "+", {"o"}), S({"g", "d"}, "-", {"w"}),
    S({"u", "f"}, "+", {"x"}), S({}, "-", {"x"}), S({}, "=", {"g", "t"}),
    S({"u"}, "none", {}), S({"u"}, "=", {"r", "w", "X"}), S({"u"}, "-", {"r"}),
    [S({}, "octal", {}) EXCEPT !.octal = {<<"u", "r">>, <<"u", "w">>, <<"g", "r">>}] }

(* The same with rules that name a kind of file and no class.              *)
MCKindRule == { S({"d"}, "-", {"w"}), S({"f"}, "-", {"x"}), S({}, "-", {"w"}) }

MCMode ==
  [ dir : BOOLEAN,
    bits : { {}, {<<"u", "r">>, <<"u", "w">>, <<"g", "r">>, <<"special", "setgid">>},
             {<<"u", "w">>, <<"u", "x">>, <<"g", "w">>, <<"o", "x">>},
             Bit, {<<"u", "r">>, <<"u", "w">>, <<"u", "x">>, <<"g", "r">>, <<"special", "sticky">>} } ]
=============================================================================
