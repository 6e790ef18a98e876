--------------------------- MODULE MCStatementGen ---------------------------
(* Instances of StatementGen for TLC: function names are model values, and   *)
(* nothing tells one from another.                                          *)
EXTENDS StatementGen

LOCAL INSTANCE TLC

NameSymmetry == Permutations(Functions)

\* Programs in deep nests of statements with plain expressions, and smaller ones
\* with expressions of every shape.
Nests == INSTANCE StatementGen WITH Exps <- {"plain"}
Shapes == INSTANCE StatementGen WITH MaxPos <- MaxPos - 1, MaxNesting <- MaxNesting - 1

VARIABLE programs \* which of the two

MCInit == Init /\ programs \in {"nests", "shapes"}

MCNext ==
    /\ \/ programs = "nests" /\ Nests!Next
       \/ programs = "shapes" /\ Shapes!Next
    /\ UNCHANGED programs

MCSpec == MCInit /\ [][MCNext]_<<vars, programs>>

=============================================================================
