------------------------------ MODULE MCSymbols ------------------------------
(* Instances of Symbols for TLC.                                             *)
EXTENDS Symbols

\* Parameter lists, one of which names a parameter twice.
Lists == {<<>>, <<"x">>, <<"x", "x">>}

\* Programs of blocks, which read names, and programs of classes and functions,
\* some named like variables, with conversion methods and assignments.
Blocks == INSTANCE Symbols WITH
    Callables <- {"m"},
    ParamLists <- {<<>>, <<"x">>},
    Ops <- Ops \ {"set"}
Methods == INSTANCE Symbols WITH
    Callables <- {"x", "string"},
    Ops <- {"set", "var", "class", "function", "end"}

VARIABLE programs \* which of the two

MCNext ==
    /\ \/ programs = "blocks" /\ Blocks!Next
       \/ programs = "methods" /\ Methods!Next
    /\ UNCHANGED programs

MCInit == Init /\ programs \in {"blocks", "methods"}

MCSpec ==
    /\ MCInit
    /\ [][MCNext]_<<vars, programs>>
    /\ WF_<<vars, programs>>(MCNext)

=============================================================================
