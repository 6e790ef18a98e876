---------------------------- MODULE SmallPrograms ----------------------------
(* Small programs for Meaning: two functions that call one another, a system  *)
(* call, and every place a call may stand in.                                 *)
EXTENDS Trees, TLC


f0 == <<"f", 0>>
f1 == <<"f", 1>>
s0 == <<"s", 0>>

\* Items named m hold f_0, items named n hold f_1, and so does every method new.
Methods == ("m" :> f0) @@ ("n" :> f1) @@ ("new" :> f1)

Symbols ==
    [g |-> [type |-> "GLOBAL", index |-> "@global_0"],
     i |-> [type |-> "GLOBAL", index |-> "@global_1"],
     C |-> [type |-> "CLASS", index |-> "C"],
     f |-> [type |-> "FUNCTION", index |-> f0],
     h |-> [type |-> "FUNCTION", index |-> f1],
     s |-> [type |-> "FUNCTION", index |-> s0]]

F(args) == Chn(Name("f"), <<Fun(args)>>)
H(args) == Chn(Name("h"), <<Fun(args)>>)
S(args) == Chn(Name("s"), <<Fun(args)>>)
g == Var("g")
p == Var("p")
q == Var("q")
This == Var("this")
Keeps(e) == ExpStmt(Let("=", Chn(Name("g"), <<Member>>), e))

\* Bodies of f_0, with parameters p and q.
Bodies == {
    <<Returns(<<This>>)>>,
    <<Keeps(This)>>,
    <<ForStmt("l", p, <<Returns(<<Var("l")>>)>>), Returns(<<q>>)>>,
    <<IfStmt(p, <<Returns(<<q>>)>>, <<>>)>>,
    <<VarStmt("l", <<H(<<q>>)>>), VarStmt("k", <<>>), Returns(<<Bin(13, <<"+", "+", "+">>, <<Var("l"), This, p, Var("k")>>)>>)>>,
    <<VarStmt("l", <<This>>), IfStmt(g, <<Returns(<<F(<<q, p>>)>>)>>, <<>>), Returns(<<Bin(13, <<"+">>, <<Var("l"), p>>)>>)>>,
    <<ExpStmt(Let("=", p, Chn(Name("this"), <<Method("n", <<Chn(Name("q"), <<Method("n", <<This>>)>>)>>)>>))),
      Returns(<<List("or", <<p, This>>)>>)>>,
    <<Returns(<<S(<<q, This>>)>>)>>}

\* These return without a value.
NoValueBodies == {
    <<Returns(<<>>)>>,
    <<ForStmt("l", H(<<q>>), <<Keeps(Var("l")), IfStmt(p, <<Returns(<<>>)>>, <<ExpStmt(H(<<>>))>>)>>)>>}

\* f_1 has one parameter with a default value.
Seconds == {
    FunctionOf(f1, <<Param("x", <<One>>)>>, <<ExpStmt(Let("=", Var("x"), Bin(13, <<"+">>, <<Var("x"), This>>))), Returns(<<Var("x")>>)>>),
    FunctionOf(f1, <<Param("x", <<S(<<g>>)>>)>>, <<ForStmt("l", Var("x"), <<Returns(<<This>>)>>)>>),
    FunctionOf(f1, <<Param("x", <<>>)>>, <<Keeps(Var("x"))>>)}

Uses == {
    <<Keeps(F(<<One>>))>>,
    <<Keeps(F(<<Var("empty"), F(<<>>)>>))>>,
    <<ExpStmt(Let("=", g, Bin(13, <<"+">>, <<g, F(<<g, One>>)>>)))>>,
    <<Keeps(Chn(Name("g"), <<Method("m", <<H(<<>>), Chn(Name("g"), <<Method("n", <<One, g>>)>>)>>)>>))>>,
    <<ForStmt("i", F(<<g>>), <<ExpStmt(F(<<Var("i"), One, g>>))>>)>>,
    <<Keeps(Chn([kind |-> "new", path |-> <<"C">>, args |-> <<F(<<>>)>>], <<>>)), ExpStmt(F(<<H(<<>>)>>))>>,
    <<ExpStmt(S(<<>>)), Keeps(H(<<Chn(Name("g"), <<Member, Fun(<<F(<<>>)>>)>>)>>))>>}

\* The value of f_0 is not used.
NoValueUses == {
    <<ExpStmt(F(<<One>>)), Keeps(H(<<g>>))>>,
    <<ForStmt("i", g, <<ExpStmt(F(<<Var("i"), One, g>>))>>)>>}

Program(ps, body, second, uses) ==
    <<FunctionOf(f0, <<Param("p", ps), Param("q", <<List("or", <<p, H(<<>>)>>)>>)>>, body), second,
      SyscallOf(s0, "print", <<Param("a", <<One>>)>>)>> \o uses

Programs ==
    {Program(ps, b, second, u) : ps \in {<<>>, <<g>>}, b \in Bodies, second \in Seconds, u \in Uses}
    \cup {Program(ps, b, second, u) : ps \in {<<>>, <<g>>}, b \in NoValueBodies, second \in Seconds, u \in NoValueUses}

=============================================================================
