----------------------------- MODULE SyntaxTree -----------------------------
(***************************************************************************)
(* From a parse to the tree that the generators walk.  The parsers of      *)
(* wicked.grammar are combinators of mpc: terminals yield leaves,          *)
(* sequences and repetitions fold the results of their parts, and a        *)
(* reference to a rule adds its name to the tag of what the rule yields.   *)
(* mpc folds a node with one child into that child and concatenates their  *)
(* tags; mpc_unfold of the compiler takes them apart again, so that every  *)
(* generator finds each rule as a node of its own, with its text.          *)
(*                                                                         *)
(* A parse is the sequence of results that the parsers have in hand.       *)
(***************************************************************************)
EXTENDS Naturals, Sequences, SequencesExt

CONSTANTS
    Rules,      \* names of rules
    Texts,      \* what terminals match
    MaxParsers, \* bound: terminals, folds and rules in a parse
    MaxPending  \* bound: results in hand at once

VARIABLES
    results,    \* the results of the parsers, the latest last
    derivations,\* for each result the rules and terminals that it stands for
    parsers     \* parsers applied so far

vars == <<results, derivations, parsers>>

-----------------------------------------------------------------------------
(* Nodes.  A tag is the sequence of its parts: names of rules and, at the   *)
(* end, the kind of a terminal or Inner (">").                              *)

Inner == ">"
None == <<>> \* NULL: what a parser yields that matched nothing

mpc_ast_new(tag, contents) == [tag |-> tag, contents |-> contents, children |-> <<>>]

mpc_ast_add_child(r, a) == [r EXCEPT !.children = Append(@, a)]

\* Add to the tag of a the tag t without its last character.
mpc_ast_add_root_tag(a, t) == [a EXCEPT !.tag = Front(t) \o @]

mpc_ast_add_tag(a, t) == IF a = None THEN None ELSE [a EXCEPT !.tag = <<t>> \o @]

mpc_ast_add_root(a) ==
    IF a = None \/ Len(a.children) <= 1 THEN a
    ELSE mpc_ast_add_child(mpc_ast_new(<<Inner>>, ""), a)

Spliced(a) ==
    CASE Len(a.children) = 0 -> <<a>>
      [] Len(a.children) = 1 -> <<mpc_ast_add_root_tag(a.children[1], a.tag)>>
      [] OTHER -> a.children

mpcf_fold_ast(xs) ==
    IF xs = <<>> THEN None
    ELSE IF Len(xs) = 1 \/ (Len(xs) = 2 /\ xs[2] = None) THEN xs[1]
    ELSE IF Len(xs) = 2 /\ xs[1] = None THEN xs[2]
    ELSE [mpc_ast_new(<<Inner>>, "") EXCEPT
            !.children = FlattenSeq([i \in 1..Len(SelectSeq(xs, LAMBDA x : x /= None)) |->
                                        Spliced(SelectSeq(xs, LAMBDA x : x /= None)[i])])]

\* A faulty variant: only the outermost rule of a tag is taken apart.
RECURSIVE UnfoldOnce(_)
UnfoldOnce(ast) ==
    LET children == [i \in DOMAIN ast.children |-> UnfoldOnce(ast.children[i])]
    IN  IF Len(ast.tag) = 1 \/ ast.tag[2] = Inner THEN [ast EXCEPT !.children = children]
        ELSE [ast EXCEPT !.tag = <<@[1], Inner>>,
                         !.children = <<[ast EXCEPT !.tag = Tail(@), !.children = children]>>]

RECURSIVE mpc_unfold(_)
mpc_unfold(ast) ==
    IF Len(ast.tag) > 1 /\ ast.tag[2] /= Inner
    THEN LET sub == [ast EXCEPT !.tag = Tail(@)]
         IN  [ast EXCEPT !.tag = <<@[1], Inner>>, !.children = <<mpc_unfold(sub)>>]
    ELSE [ast EXCEPT !.children = [i \in DOMAIN @ |-> mpc_unfold(@[i])]]

-----------------------------------------------------------------------------
(* Parsers.                                                                 *)

Init == results = <<>> /\ derivations = <<>> /\ parsers = 0

Yield(n, ast, derivation) ==
    LET kept == Len(results) - n
    IN  /\ parsers < MaxParsers
        /\ kept < MaxPending
        /\ results' = Append(SubSeq(results, 1, kept), ast)
        /\ derivations' = Append(SubSeq(derivations, 1, kept), derivation)
        /\ parsers' = parsers + 1

Latest(s, n) == SubSeq(s, Len(s) - n + 1, Len(s))

Leaf(text) == mpc_ast_new(<<"regex">>, text)

Terminal == \E text \in Texts : Yield(0, Leaf(text), <<Leaf(text)>>)

\* An optional part that is not there.
Nothing == Yield(0, None, <<>>)

\* The parts of a sequence or the repetitions of a part.  In the grammar every
\* sequence of three parts has one that must be there, and what is repeated is
\* never empty.
Sequence ==
    \E n \in (0..Len(results)) \ {1} :
        /\ n < 3 \/ \E i \in 1..n : Latest(results, n)[i] /= None
        /\ Yield(n, mpcf_fold_ast(Latest(results, n)), FlattenSeq(Latest(derivations, n)))

\* A node of the tree as it should be: the text of a rule that is made of
\* one thing is the text of that thing.
Node(name, parts) ==
    [tag |-> <<name, Inner>>, children |-> parts,
     contents |-> IF Len(parts) = 1 THEN parts[1].contents ELSE ""]

mpcaf_grammar_id ==
    \E name \in Rules :
        /\ results /= <<>>
        /\ Yield(1, mpc_ast_add_root(mpc_ast_add_tag(Last(results), name)),
                 IF Last(derivations) = <<>> THEN <<>> ELSE <<Node(name, Last(derivations))>>)

Next == Terminal \/ Nothing \/ Sequence \/ mpcaf_grammar_id

Spec == Init /\ [][Next]_vars

-----------------------------------------------------------------------------
(* Properties.                                                              *)

\* The rule of a program is a sequence that begins and ends with a terminal.
Program(ast) == mpcf_fold_ast(<<Leaf(""), ast, Leaf("")>>)

(* However the parsers were nested, the unfolded tree of a program has for *)
(* every rule that matched something one node, in order, with its parts as *)
(* children, whatever mpc folded together: the generators address children *)
(* by their number and read names from the text of nodes (compiler.c,      *)
(* mpc_unfold; mpc.c, mpcf_fold_ast).                                      *)
TreeIsTheDerivation ==
    \A i \in DOMAIN results :
        mpc_unfold(Program(results[i])) =
            [tag |-> <<Inner>>, contents |-> "", children |-> <<Leaf("")>> \o derivations[i] \o <<Leaf("")>>]

=============================================================================
