---------------------------- MODULE FunctionGen ----------------------------
(***************************************************************************)
(* Whole programs: generator_functions.c and, from generator_statements.c, *)
(* generator_if.c, generator_while.c and generator_variables.c, the        *)
(* statements that keep or move operands, around the expressions of        *)
(* ExpressionGen.  What loops and jumps do is the subject of StatementGen. *)
(*                                                                         *)
(* A program is a sequence of parts:                                       *)
(*   function(name, params, body)   syscall(name, alias, params)           *)
(*   exp(exp)   var(name, values)   if(test, then, else)                   *)
(*   for(name, list, body)          return(values)                         *)
(* where values holds the value, if there is one, and a parameter is a     *)
(* name and its default values, one or none.  Names of functions look like *)
(* f_0 and are pairs, <<"f", 0>>, as the labels of the generators are.     *)
(* Conversion methods (functions named string) are left out.               *)
(***************************************************************************)
EXTENDS ExpressionGen

CONSTANTS
    Programs, \* the programs to compile
    Debug     \* state->debug

Statement(kind) == Item("part") /\ It.kind = kind
Parts(ps) == [i \in DOMAIN ps |-> <<"part", ps[i]>>]

Debugs(is) == IF Debug THEN is ELSE <<>>

-----------------------------------------------------------------------------
(* Statements.                                                              *)

ExpressionStmt ==
    /\ Statement("exp")
    /\ Do(<<>>, <<<<"exp", It.exp>>, Emits(<<Pop>>)>>)
    /\ Keep

\* The variable of a declaration or a loop is set without keeping the value.
SetVariable(n) == Emits(<<<<StoreOf[symbols[n].type], symbols[n].index>>>>)

\* generate_decl.
Decl ==
    /\ Statement("var")
    /\ Do(<<>>, IF It.values = <<>> THEN <<>> ELSE Calls(It.values) \o <<SetVariable(It.name)>>)
    /\ Keep

\* generate_if.
If ==
    /\ Statement("if")
    /\ Do(<<>>, <<<<"exp", It.test>>, <<"then", It>>>>)
    /\ Keep

\* The rest of it; the number of the labels is taken behind the condition.
Then ==
    /\ Item("then")
    /\ LET else == <<"@else", uniqueid>>
           endif == <<"@endif", uniqueid>>
       IN Do(<<<<"brfalse", else>>>>,
             Parts(It.then)
             \o (IF It.else = <<>> THEN <<Emits(<<<<"label", else>>, <<"label", else>>>>)>>
                 ELSE <<Emits(<<<<"jmp", endif>>, <<"label", else>>>>), <<"block", It.else>>>>)
             \o <<Emits(<<<<"label", endif>>>>)>>)
    /\ uniqueid' = uniqueid + 1
    /\ UNCHANGED <<exp_states, symbols>>

\* generate_block.
Block ==
    /\ Item("block")
    /\ Do(<<>>, Parts(It) \o <<Emits(<<<<"label", <<"@end", uniqueid>>>>>>)>>)
    /\ uniqueid' = uniqueid + 1
    /\ UNCHANGED <<exp_states, symbols>>

\* generate_for: the array, its length and the index stay on the stack.
For ==
    /\ Statement("for")
    /\ LET start == <<"startfor", uniqueid>>
           continue == <<"continue", uniqueid>>
           end == <<"endfor", uniqueid>>
       IN Do(<<>>, <<<<"exp", It.list>>,
                     Emits(<<Dup, <<"arr.len", 0>>, <<"ld.lit", "0">>, <<"label", start>>,
                             Dup, <<"ld.stack", 2>>, <<"cmp", 0>>, <<"bge", end>>,
                             <<"ld.stack", 2>>, <<"ld.stack", 1>>, <<"ld.arrelem", 0>>>>),
                     SetVariable(It.name),
                     <<"block", It.body>>,
                     Emits(<<<<"label", continue>>, Dup, <<"ld.lit", "1">>, <<"add", 0>>,
                             <<"st.stack", 1>>, <<"jmp", start>>, <<"label", end>>,
                             <<"pop", 3>>>>)>>)
    /\ uniqueid' = uniqueid + 1
    /\ UNCHANGED <<exp_states, symbols>>

\* Faulty variant: the scope of the debugger is not left.
LeaveKeepScope == <<<<"locals.cleanup", 0>>, <<"args.cleanup", 0>>, <<"ret", 0>>>>

\* What return emits behind its value.
Leave ==
    <<<<"locals.cleanup", 0>>, <<"args.cleanup", 0>>>>
    \o Debugs(<<<<"debug.leavescope", 0>>>>) \o <<<<"ret", 0>>>>

\* generate_return: without a value the register stays as it is.
ReturnStmt ==
    /\ Statement("return")
    /\ Do(<<>>, (IF It.values = <<>> THEN <<>>
                 ELSE Calls(It.values) \o <<Emits(<<<<"st.reg", "rr">>>>)>>)
                \o <<Emits(Leave)>>)
    /\ Keep

-----------------------------------------------------------------------------
(* Functions.                                                               *)

\* The locals, in the order in which populate_symbol_table meets them.  Blocks
\* declare none here: their scopes are the subject of Symbols.
Declared(body) ==
    FoldLeft(LAMBDA ns, p : IF p.kind \in {"var", "for"} THEN Append(ns, p.name) ELSE ns, <<>>, body)

Entries(ns, type, first) ==
    [n \in ToSet(ns) |-> [type |-> type, index |-> first + CHOOSE i \in 0..(Len(ns) - 1) : ns[i + 1] = n]]

\* populate_symbol_table, for the parameters and the locals behind 'this'.
SymbolsOf(f) ==
    Entries(Declared(f.body), "LOCAL", 1)
    @@ Entries([i \in DOMAIN f.params |-> f.params[i].name], "PARAM", 0)
    @@ Symbols

Defaults(ps) ==
    FlattenSeq([i \in DOMAIN ps |->
        IF ps[i].values = <<>> THEN <<>>
        ELSE <<<<"default", [argnum |-> i - 1, value |-> ps[i].values[1]]>>>>])

\* Faulty variant: the default value replaces every argument that is not empty.
DefaultParamInverted ==
    /\ Item("default")
    /\ LET skip == <<"@skip", uniqueid>>
       IN Do(<<<<"ld.arg", It.argnum>>, <<"is.empty", 0>>, <<"brtrue", skip>>>>,
             <<<<"exp", It.value>>,
               Emits(<<<<"st.arg", It.argnum>>, <<"label", skip>>, Pop>>)>>)
    /\ uniqueid' = uniqueid + 1
    /\ UNCHANGED <<exp_states, symbols>>

\* generate_default_params, for one parameter.
DefaultParam ==
    /\ Item("default")
    /\ LET skip == <<"@skip", uniqueid>>
       IN Do(<<<<"ld.arg", It.argnum>>, <<"is.empty", 0>>, <<"brfalse", skip>>>>,
             <<<<"exp", It.value>>,
               Emits(<<<<"st.arg", It.argnum>>, <<"label", skip>>, Pop>>)>>)
    /\ uniqueid' = uniqueid + 1
    /\ UNCHANGED <<exp_states, symbols>>

End(f) == <<"@__end", f.name>>

\* What a function and a system call begin with.
Begin(f) ==
    <<<<"jmp", End(f)>>, <<"label", f.name>>>> \o Debugs(<<<<"debug.enterscope", f.name>>>>)
    \o <<<<"args.accept", Len(f.params)>>>>

\* generate_function.
Function ==
    /\ Statement("function")
    /\ Do(Begin(It) \o <<<<"locals.res", 1 + Len(Declared(It.body))>>,
                         <<"ld.reg", "r1">>, <<"st.local", 0>>>>,
          Defaults(It.params) \o Parts(It.body)
          \o <<Emits(<<<<"locals.cleanup", 0>>, <<"args.cleanup", 0>>, <<"ld.lit", "0">>,
                       <<"st.reg", "rr">>, <<"ret", 0>>, <<"label", End(It)>>>>),
               <<"leaveScope", 0>>>>)
    /\ symbols' = SymbolsOf(It)
    /\ UNCHANGED <<exp_states, uniqueid>>

\* generate_syscall: the parameters get no names.
Syscall ==
    /\ Statement("syscall")
    /\ Do(Begin(It),
          Defaults(It.params)
          \o <<Emits([i \in DOMAIN It.params |-> <<"ld.arg", i - 1>>]
                     \o <<<<"syscall.byname", It.alias>>, <<"pop", Len(It.params)>>,
                          <<"args.cleanup", 0>>>>
                     \o Debugs(<<<<"debug.leavescope", 0>>>>)
                     \o <<<<"ret", 0>>, <<"label", End(It)>>>>)>>)
    /\ Keep

\* leave_scope, with the cleanup of the locals.
LeaveFunction ==
    /\ Item("leaveScope")
    /\ Do(<<>>, <<>>)
    /\ symbols' = Symbols
    /\ UNCHANGED <<exp_states, uniqueid>>

-----------------------------------------------------------------------------
Main == [name |-> <<"main", 0>>, ret |-> 0, base |-> 0, args |-> <<>>, locals |-> <<>>]

ProgramInit ==
    /\ tree \in Programs
    /\ todo = Parts(tree)
    /\ exp_states = <<>>
    /\ uniqueid = 0
    /\ symbols = Symbols
    /\ error = FALSE
    /\ MachineInit(Main)

GenerateStmt ==
    \/ ExpressionStmt \/ Decl \/ If \/ Then \/ Block \/ For \/ ReturnStmt
    \/ Function \/ Syscall \/ DefaultParam \/ LeaveFunction

ProgramNext == Generate \/ GenerateStmt \/ Run

ProgramSpec == ProgramInit /\ [][ProgramNext]_vars /\ WF_vars(ProgramNext)
=============================================================================
