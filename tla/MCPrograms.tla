----------------------------- MODULE MCPrograms -----------------------------
(* Instances of Meaning for TLC: single expressions, and whole programs.      *)
CONSTANT MaxTests \* bound: how often an unknown value may count as true

VARIABLES
    input, \* which of the two
    tree, todo, exp_states, uniqueid, symbols, error,
    code, pc, stack, reg, calls, scopes, log

vars == <<input, tree, todo, exp_states, uniqueid, symbols, error,
          code, pc, stack, reg, calls, scopes, log>>

None == [n \in {} |-> n]

G == INSTANCE ExpressionGen WITH Expressions <- {}, Symbols <- None, Methods <- None
X == INSTANCE SmallExpressions WITH Compound <- DOMAIN G!CompoundOp, Levels <- G!Levels
P == INSTANCE SmallPrograms

Expression == INSTANCE Meaning WITH
    Expressions <- X!Expressions, Programs <- {}, Debug <- TRUE,
    Symbols <- X!Symbols, Methods <- X!Methods
Program == INSTANCE Meaning WITH
    Expressions <- {}, Programs <- P!Programs, Debug <- TRUE,
    Symbols <- P!Symbols, Methods <- P!Methods

Init ==
    \/ input = "expression" /\ Expression!Init
    \/ input = "program" /\ Program!ProgramInit

Next ==
    /\ \/ input = "expression" /\ Expression!Next
       \/ input = "program" /\ Program!ProgramNext
    /\ UNCHANGED input

Spec == Init /\ [][Next]_vars /\ WF_vars(Next)

-----------------------------------------------------------------------------
(* The properties of Meaning, each of the inputs it is about.                 *)

\* generator_expressions.c, generator_functions.c: every expression is refused or
\* compiled, every program is compiled, and the code comes to its end and has then
\* done what the expression, or the functions and statements of the program, mean.
DoesWhatIsMeant ==
    <>(IF input = "expression" THEN error \/ Expression!DidWhatIsMeant
       ELSE Program!ProgramDidWhatIsMeant)

\* generator_expressions.c: what cannot be compiled is refused, and nothing else.
RefusesExactly == input = "expression" => Expression!RefusesExactly

\* generator_functions.c: the scopes of the debugger are the active functions.
ScopesFollowCalls == input = "program" => Program!ScopesFollowCalls

=============================================================================
