----------------------------- MODULE MCModules -----------------------------
(* Programs of a main file and two modules, one of which the other may      *)
(* import, with all kinds of names exported in the ways there are.          *)
EXTENDS Modules, TLC

MCFiles == {"main", "m1", "m2"}
MCLetters == {"x", "f", "c", "g", "k", "e", "p", "q", "r"}

X == <<"x">>
G == <<"g">>
K == <<"k">>
E == <<"e">>
P == <<"p">>
Q == <<"q">>

Decls == (X :> "GLOBAL") @@ (G :> "FUNCTION") @@ (K :> "CLASS") @@ (E :> "ENUM")

File(imports, exports, marked) ==
    [imports |-> imports, decls |-> Decls, exports |-> exports, marked |-> marked]

UpTo(n, S) == UNION {[1..k -> S] : k \in 0..n}

MainImports == UpTo(2, {<<m, as>> : m \in {"m1", "m2"}, as \in {P, Q}} \cup {<<"m1", K>>})
               \cup {<<<<"m1", P>>, <<"m2", Q>>, <<"m2", <<"r">>>>>>}

\* The exports of a module: names of their own, names that are not declared, and names
\* that meet others: e as fg, the key of g; x as fck, the key of g as ck, the key of k;
\* and x and g under the names of k and e.
Exports == {<< <<X, X>>, <<K, X \o K>> >>, << <<G, P>>, <<E, E>> >>, << <<Q, Q>> >>, << <<P, X>> >>, <<>>,
            << <<E, <<"f">> \o G>> >>, << <<G, <<"c">> \o K>>, <<X, <<"f", "c">> \o K>> >>, << <<X, K>>, <<G, E>> >>}

MCPrograms ==
    {[f \in MCFiles |-> CASE f = "main" -> File(main, <<>>, {})
                         [] f = "m1" -> File(m1, exports, {G, K})
                         [] f = "m2" -> File(<<>>, << <<X, X>> >>, marked)] :
        main \in MainImports, m1 \in {<<>>, << <<"m2", P>> >>},
        exports \in Exports, marked \in {{K, E}, {E, G}}}

=============================================================================
