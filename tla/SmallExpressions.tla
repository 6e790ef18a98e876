-------------------------- MODULE SmallExpressions --------------------------
(* Small expressions for Meaning: every kind of node, targets of up to three  *)
(* links, and assignments, calls and branches nested in indices, arguments    *)
(* and values.                                                                *)
EXTENDS Trees

CONSTANTS
    Compound, \* the operators of assignments other than =
    Levels    \* the operators of each precedence level


Methods == [m \in {} |-> m]

Symbols ==
    [g |-> [type |-> "GLOBAL", index |-> "@global_0"],
     l |-> [type |-> "LOCAL", index |-> 1],
     p |-> [type |-> "PARAM", index |-> 0],
     f |-> [type |-> "FUNCTION", index |-> "f"],
     C |-> [type |-> "CLASS", index |-> "C"]]

g == Var("g")
CallG == Chn(Name("g"), <<Fun(<<>>)>>)

Links == {Index(<<>>), Index(<<Var("p")>>), Index(<<One, g>>), Member,
          Fun(<<g>>), Method("m", <<Var("l"), One>>)}
Ending == {Index(<<>>), Index(<<CallG>>), Index(<<One, g>>), Member, Fun(<<>>)}

\* Chains that a method call does not end, and those that it ends.
Targets == {Chn(h, ls) : h \in {Name("g"), Name("this"), [kind |-> "paren", exp |-> g]},
                         ls \in {<<b>> : b \in Ending} \cup {<<a, b>> : a \in Links, b \in Ending}}
           \cup {Chn(Name("l"), <<a, b, c>>) : a \in Links, b \in Links, c \in {Index(<<One>>), Member}}
           \cup {Var(n) : n \in {"g", "l", "p", "f", "C", "this", "undefined"}}
           \cup {In(NewC(<<>>)), In(Proto(<<"C">>))}

Assignments ==
    {Let(op, t, One) : op \in {"=", "+"}, t \in Targets}
    \cup {Let(op, g, CallG) : op \in Compound}

\* What else may be nested in another expression.
Nested ==
    {Let("=", g, One), Let("+", Chn(Name("g"), <<Member>>), One),
     Chn(Name("g"), <<Method("m", <<One>>)>>), In(NewC(<<One>>)),
     IfThen(g, One, Let("=", Var("l"), One)), List("and", <<g, CallG>>),
     Chn(Name("g"), <<Method("m", <<>>), Index(<<g>>), Fun(<<One, g>>)>>),
     Chn([kind |-> "super"], <<Method("m", <<Var("p")>>)>>), Var("undefined"),
     Let("=", Chn(Name("l"), <<Index(<<>>)>>), Var("l"))}

\* Operands of operators.
Operands == {CallG, g, Par(Let("=", Var("l"), One)), Par(List("or", <<g, CallG>>))}

Uses(x, y) ==
    {Let("=", Chn(Name("g"), <<Index(<<x>>), Member>>), y),
     Let("+", Chn(Name("g"), <<Method("m", <<x>>), Index(<<y>>)>>), One),
     Let("=", Chn([kind |-> "paren", exp |-> x], <<Member>>), y),
     Chn(Name("l"), <<Fun(<<x, y>>), Index(<<x, y>>)>>),
     Chn(Name("p"), <<Method("m", <<x, y>>), Method("string", <<>>)>>),
     Chn([kind |-> "super"], <<Index(<<x>>), Member>>),
     In(NewC(<<x, y>>)), In([kind |-> "array", items |-> <<x, y>>]),
     In([kind |-> "map", pairs |-> <<[key |-> x, value |-> y], [key |-> y, value |-> One]>>]),
     IfThen(Par(x), y, x)}

Combines(x, y) ==
    {List(k, <<x, y, x>>) : k \in {"and", "or", "comma"}}
    \cup {List("range", <<x, y>>), [kind |-> "power", base |-> x, exponent |-> y], IfThen(x, y, x)}
    \cup {Not(ops, x) : ops \in {<<"!">>, <<"-", "~">>, <<"+">>, <<"typeof">>, <<"++">>}}
    \cup UNION {{Bin(p, <<op, op>>, <<x, y, x>>) : op \in DOMAIN Levels[p]} : p \in DOMAIN Levels \ {8}}
    \cup {Bin(13, <<"-", "+">>, <<x, y, x>>), Bin(11, <<"in">>, <<x, y>>)}

Expressions ==
    Assignments
    \cup UNION {Uses(x, y) : x \in Nested, y \in Nested \cup {g, One}}
    \cup UNION {Combines(x, y) : x \in Operands, y \in Operands}
    \cup {In(Proto(<<"string">>)), In(Proto(<<"C", "D">>)), In(Proto(<<"undefined">>))}

=============================================================================
