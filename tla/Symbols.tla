------------------------------- MODULE Symbols -------------------------------
(***************************************************************************)
(* The symbol table of libwickedc: populate_symbol_table of                *)
(* generator_variables.c, the scopes and lookups of generator_symbols.c,   *)
(* and the passes of generate, generate_class and generate_function that   *)
(* use them.                                                               *)
(*                                                                         *)
(* A program is its syntax tree written as a sequence of tokens; the       *)
(* position of a token is its source position.  The compiler walks it once *)
(* to collect the globals, once for the classes, once for the rest, and,   *)
(* whenever it enters a function, once more for the locals of that         *)
(* function.  Only what declares, uses or scopes a name is kept.           *)
(***************************************************************************)
EXTENDS Integers, Sequences, SequencesExt, FiniteSets, FiniteSetsExt

CONSTANTS
    Variables,   \* names of variables
    Callables,   \* names of functions, methods and classes
    ParamLists,  \* parameter lists of functions: sequences of variables
    Ops,         \* the kinds of tokens a program may use
    MaxTokens    \* bound: tokens of a program

ASSUME BoundsAssumption == MaxTokens \in Nat
ASSUME ParamsAssumption == ParamLists \subseteq Seq(Variables)

VARIABLES
    program,      \* the syntax tree
    phase,        \* the pass that is running
    at,           \* the token the pass has reached
    open,         \* the constructs around that token, outermost first
    scope,        \* state->scope, the components between the dots
    subscope,     \* the scope argument of populate_symbol_table
    table,        \* state->symbol_table
    num_globals,  \* variables counted by the pass over the globals
    num_locals,   \* variables of the function that is generated
    start,        \* where that function begins
    refs          \* what each token was resolved to

vars == <<program, phase, at, open, scope, subscope, table,
          num_globals, num_locals, start, refs>>

-----------------------------------------------------------------------------
(* Programs.  "use" reads a name and "set" assigns to it; "block" stands    *)
(* for the bodies of while and do; "for" declares its variable inside its   *)
(* body; a "use" directly in a class is the initial value of a field.       *)

Names == Variables \cup Callables

Token ==
    [op : {"use", "set"}, name : Names, params : {<<>>}]
    \cup [op : {"var", "for"}, name : Variables, params : {<<>>}]
    \cup [op : {"class"}, name : Callables, params : {<<>>}]
    \cup [op : {"function"}, name : Callables, params : ParamLists]
    \cup [op : {"block", "if", "else", "end"}, name : {""}, params : {<<>>}]

BlockOps == {"block", "for", "if", "else"}
CallableOps == {"function", "class"}

\* The constructs that are open after token t.
OpenAfter(o, t) ==
    CASE t.op = "end"  -> Front(o)
      [] t.op = "else" -> Append(Front(o), "else")
      [] t.op \in {"block", "for", "if", "function", "class"} -> Append(o, t.op)
      [] OTHER -> o

\* The grammar: functions stand in classes and at the top level, classes at the
\* top level only, and 'else' ends the first block of an if.
MayFollow(o, t) ==
    /\ t.op \in {"set", "var", "block", "for", "if"} => o = <<>> \/ Last(o) # "class"
    /\ t.op = "function" => o = <<>> \/ Last(o) = "class"
    /\ t.op = "class" => o = <<>>
    /\ t.op = "else" => o # <<>> /\ Last(o) = "if"
    /\ t.op = "end" => o # <<>>

AddToken(t) ==
    /\ phase = "parse"
    /\ Len(program) + 1 + Len(OpenAfter(open, t)) <= MaxTokens
    /\ program' = Append(program, t)
    /\ open' = OpenAfter(open, t)
    /\ UNCHANGED <<phase, at, scope, subscope, table, num_globals, num_locals, start, refs>>

FinishParse ==
    /\ phase = "parse"
    /\ open = <<>>
    /\ phase' = "globals"
    /\ UNCHANGED <<program, at, open, scope, subscope, table, num_globals, num_locals,
                   start, refs>>

-----------------------------------------------------------------------------
(* Scopes and the symbol table.                                             *)

\* The components of a scope: the position of a block, or the name of a
\* function or class.  A key is a scope and a name.
Block(i) == <<"^", i>>
Named(n) == <<"name", n>>

Types == {"global", "local", "param", "function", "class"}
Entry == [type : Types, index : Nat]

InCallable(o) == \E i \in DOMAIN o : o[i] \in CallableOps
InClass(o) == o # <<>> /\ o[1] = "class"

Running == phase \in {"globals", "classes", "locals", "code"} /\ at <= Len(program)

tok == program[at]

\* Faulty variant: the scope of the first block of an if stays open.
ScopeAfterKeepIf(s, t) ==
    CASE t.op = "end" -> Front(s)
      [] t.op \in BlockOps \ {"else"} -> Append(s, Block(at))
      [] OTHER -> s

\* The scope after token t, for populate_symbol_table and for generate_block:
\* the first block of an if does not surround the block after 'else'.
ScopeAfter(s, t) ==
    CASE t.op = "end"  -> Front(s)
      [] t.op = "else" -> Append(Front(s), Block(at))
      [] t.op \in BlockOps \ {"else"} -> Append(s, Block(at))
      [] OTHER -> s

\* Faulty variant: only the innermost scope and the globals are searched.
LookupInnermost(s, name) ==
    LET found == {n \in {0, Len(s)} : SubSeq(s, 1, n) \o <<Named(name)>> \in DOMAIN table}
    IN  IF found = {} THEN <<>> ELSE SubSeq(s, 1, Max(found)) \o <<Named(name)>>

\* get_symbol_from_ident and get_symbol_from_scopedIdent: the scope is cut off
\* at its last dot until the name is found.  The key found, or <<>>.
Lookup(s, name) ==
    LET found == {n \in 0..Len(s) : SubSeq(s, 1, n) \o <<Named(name)>> \in DOMAIN table}
    IN  IF found = {} THEN <<>> ELSE SubSeq(s, 1, Max(found)) \o <<Named(name)>>

\* Faulty variant: the prefix is compared without its dot.
KeysOfOrIn(s) == {k \in DOMAIN table : IsPrefix(s, k)}

\* The keys that leave_scope removes when a function ends.
KeysIn(s) == {k \in DOMAIN table : IsStrictPrefix(s, k)}

\* Faulty variant: nothing is removed.
WithoutNone(keys) == table

Without(keys) == [k \in DOMAIN table \ keys |-> table[k]]

\* exit(EXIT_FAILURE) after a message.
Fail ==
    /\ phase' = "failed"
    /\ UNCHANGED <<program, at, open, scope, subscope, table, num_globals, num_locals,
                   start, refs>>

Step ==
    /\ at' = at + 1
    /\ open' = OpenAfter(open, tok)
    /\ UNCHANGED <<program, phase>>

-----------------------------------------------------------------------------
(* populate_symbol_table.                                                   *)

\* The table with new entries, whose keys it does not have.
With(new) ==
    [k \in DOMAIN new \cup DOMAIN table |-> IF k \in DOMAIN new THEN new[k] ELSE table[k]]

\* The key of the variable that the current token declares; the variable of a
\* for loop belongs to its body.
VariableKey ==
    LET here == scope \o subscope
    IN  (IF tok.op = "for" THEN Append(here, Block(at)) ELSE here) \o <<Named(tok.name)>>

\* The body of a function or a class is no concern of the pass over the globals.
SkipBody ==
    /\ phase = "globals"
    /\ Running
    /\ InCallable(open)
    /\ Step
    /\ UNCHANGED <<scope, subscope, table, num_globals, num_locals, start, refs>>

DeclareCallable ==
    LET key == <<Named(tok.name)>>
    IN  /\ phase = "globals"
        /\ Running
        /\ ~ InCallable(open)
        /\ tok.op \in CallableOps
        /\ IF key \in DOMAIN table THEN Fail
           ELSE /\ table' = With([k \in {key} |-> [type |-> tok.op, index |-> 0]])
                /\ Step
                /\ UNCHANGED <<scope, subscope, num_globals, num_locals, start, refs>>

DeclareGlobal ==
    /\ phase = "globals"
    /\ Running
    /\ ~ InCallable(open)
    /\ tok.op \in {"var", "for"}
    /\ IF VariableKey \in DOMAIN table THEN Fail
       ELSE /\ table' = With([k \in {VariableKey} |-> [type |-> "global", index |-> num_globals]])
            /\ num_globals' = num_globals + 1
            /\ subscope' = ScopeAfter(subscope, tok)
            /\ Step
            /\ UNCHANGED <<scope, num_locals, start, refs>>

\* Faulty variant: the variable of a for loop is not counted.
DeclareLocalUncounted ==
    /\ phase = "locals"
    /\ Running
    /\ tok.op \in {"var", "for"}
    /\ IF VariableKey \in DOMAIN table THEN Fail
       ELSE /\ table' = With([k \in {VariableKey} |-> [type |-> "local", index |-> num_locals]])
            /\ num_locals' = IF tok.op = "for" THEN num_locals ELSE num_locals + 1
            /\ subscope' = ScopeAfter(subscope, tok)
            /\ Step
            /\ UNCHANGED <<scope, num_globals, start, refs>>

DeclareLocal ==
    /\ phase = "locals"
    /\ Running
    /\ tok.op \in {"var", "for"}
    /\ IF VariableKey \in DOMAIN table THEN Fail
       ELSE /\ table' = With([k \in {VariableKey} |-> [type |-> "local", index |-> num_locals]])
            /\ num_locals' = num_locals + 1
            /\ subscope' = ScopeAfter(subscope, tok)
            /\ Step
            /\ UNCHANGED <<scope, num_globals, start, refs>>

\* The function's own 'end' is reached when no block is open in it.
AtFunctionEnd == tok.op = "end" /\ Last(open) = "function"

\* Any other token only opens or closes a block.
PopulateOther ==
    /\ phase \in {"globals", "locals"}
    /\ Running
    /\ phase = "globals" => ~ InCallable(open)
    /\ phase = "locals" => ~ AtFunctionEnd
    /\ tok.op \notin {"var", "for"} \cup CallableOps
    /\ subscope' = ScopeAfter(subscope, tok)
    /\ Step
    /\ UNCHANGED <<scope, table, num_globals, num_locals, start, refs>>

-----------------------------------------------------------------------------
(* generate_function: the locals are collected before the body is generated.*)

\* The parameters, each with its number.
Params(s, params) ==
    [k \in {Append(s, Named(p)) : p \in ToSet(params)} |->
        [type |-> "param",
         index |-> (CHOOSE i \in DOMAIN params : Named(params[i]) = Last(k)) - 1]]

\* The pass over the classes generates what is in them, the last one the rest.
Generating ==
    /\ phase \in {"classes", "code"}
    /\ Running
    /\ (phase = "classes") = (InClass(open) \/ tok.op = "class")

EnterFunction ==
    LET inner == Append(scope, Named(tok.name))
        params == Params(inner, tok.params)
    IN  /\ Generating
        /\ tok.op = "function"
        /\ IF ~ IsInjective(tok.params) \/ DOMAIN params \cap DOMAIN table # {} THEN Fail
           ELSE /\ scope' = inner
                /\ subscope' = <<>>
                /\ table' = With(params)
                /\ num_locals' = IF tok.name = "string" THEN 2 ELSE 1
                /\ start' = at
                /\ phase' = "locals"
                /\ at' = at + 1
                /\ open' = OpenAfter(open, tok)
                /\ UNCHANGED <<program, num_globals, refs>>

\* A function named 'string' is a conversion method, which takes no parameters.
LocalsDone ==
    /\ phase = "locals"
    /\ Running
    /\ AtFunctionEnd
    /\ IF program[start].name = "string" /\ program[start].params # <<>> THEN Fail
       ELSE /\ at' = start + 1
            /\ phase' = IF InClass(open) THEN "classes" ELSE "code"
            /\ UNCHANGED <<program, open, scope, subscope, table, num_globals, num_locals,
                           start, refs>>

\* leave_scope with cleanup.
LeaveFunction ==
    /\ Generating
    /\ AtFunctionEnd
    /\ table' = Without(KeysIn(scope))
    /\ scope' = Front(scope)
    /\ Step
    /\ UNCHANGED <<subscope, num_globals, num_locals, start, refs>>

EnterClass ==
    /\ Generating
    /\ tok.op = "class"
    /\ scope' = Append(scope, Named(tok.name))
    /\ Step
    /\ UNCHANGED <<subscope, table, num_globals, num_locals, start, refs>>

-----------------------------------------------------------------------------
(* Statements.                                                              *)

Refer(key) == refs' = refs \cup {[at |-> at, entry |-> table[key]]}

\* Faulty variant: the entry is not tested for NULL.
UseNameUnchecked ==
    LET key == Lookup(scope, tok.name)
    IN  /\ Generating
        /\ tok.op = "use"
        /\ refs' = refs \cup
               {[at |-> at, entry |-> IF key = <<>> THEN [type |-> "NULL", index |-> 0]
                                      ELSE table[key]]}
        /\ Step
        /\ UNCHANGED <<scope, subscope, table, num_globals, num_locals, start>>

\* generate_ident of a value.
UseName ==
    LET key == Lookup(scope, tok.name)
    IN  /\ Generating
        /\ tok.op = "use"
        /\ IF key = <<>> THEN Fail
           ELSE /\ Refer(key)
                /\ Step
                /\ UNCHANGED <<scope, subscope, table, num_globals, num_locals, start>>

\* generate_ident of the target of an assignment: only variables have one.
SetName ==
    LET key == Lookup(scope, tok.name)
    IN  /\ Generating
        /\ tok.op = "set"
        /\ IF key = <<>> THEN Fail
           ELSE IF table[key].type \in CallableOps THEN Fail
           ELSE /\ Refer(key)
                /\ Step
                /\ UNCHANGED <<scope, subscope, table, num_globals, num_locals, start>>

\* generate_decl with a value, and generate_for, which looks its variable up in
\* the scope of the body it is about to generate.
BindVariable ==
    LET inner == ScopeAfter(scope, tok)
        key == Lookup(inner, tok.name)
    IN  /\ Generating
        /\ tok.op \in {"var", "for"}
        /\ IF key = <<>> THEN Fail
           ELSE /\ Refer(key)
                /\ scope' = inner
                /\ Step
                /\ UNCHANGED <<subscope, table, num_globals, num_locals, start>>

\* Blocks open and close their scope, and a class closes its own.
ScopeStmt ==
    /\ Generating
    /\ tok.op \in {"block", "if", "else"} \/ (tok.op = "end" /\ ~ AtFunctionEnd)
    /\ scope' = ScopeAfter(scope, tok)
    /\ Step
    /\ UNCHANGED <<subscope, table, num_globals, num_locals, start, refs>>

\* What belongs to the other pass.
SkipToken ==
    /\ phase \in {"classes", "code"}
    /\ Running
    /\ ~ Generating
    /\ Step
    /\ UNCHANGED <<scope, subscope, table, num_globals, num_locals, start, refs>>

\* Faulty variant: the passes start again.
NextPassAgain ==
    /\ phase \in {"globals", "classes", "code"}
    /\ at > Len(program)
    /\ at' = 1
    /\ phase' = IF phase = "classes" THEN "code" ELSE "classes"
    /\ UNCHANGED <<program, open, scope, subscope, table, num_globals, num_locals,
                   start, refs>>

NextPass ==
    /\ phase \in {"globals", "classes", "code"}
    /\ at > Len(program)
    /\ at' = 1
    /\ phase' = CASE phase = "globals" -> "classes"
                  [] phase = "classes" -> "code"
                  [] phase = "code"    -> "done"
    /\ UNCHANGED <<program, open, scope, subscope, table, num_globals, num_locals,
                   start, refs>>

Init ==
    /\ program = <<>>
    /\ phase = "parse"
    /\ at = 1
    /\ open = <<>>
    /\ scope = <<>>
    /\ subscope = <<>>
    /\ table = <<>>
    /\ num_globals = 0
    /\ num_locals = 0
    /\ start = 0
    /\ refs = {}

ParseStep ==
    \/ FinishParse
    \/ \E t \in {u \in Token : u.op \in Ops /\ MayFollow(open, u)} : AddToken(t)

Populate ==
    SkipBody \/ DeclareCallable \/ DeclareGlobal \/ DeclareLocal \/ PopulateOther

Generate ==
    \/ EnterFunction \/ LocalsDone \/ LeaveFunction \/ EnterClass
    \/ UseName \/ SetName \/ BindVariable \/ ScopeStmt \/ SkipToken

Next == ParseStep \/ Populate \/ Generate \/ NextPass

\* The compiler is one thread that runs until it is done.
Spec == Init /\ [][Next]_vars /\ WF_vars(Next)

-----------------------------------------------------------------------------
(* What the language means by a name, read off the program alone.           *)

Positions == DOMAIN program

\* How many constructs are open after each token.
Level ==
    LET level[i \in 0..Len(program)] ==
            IF i = 0 THEN 0
            ELSE level[i - 1] + (CASE program[i].op = "end" -> -1
                                   [] program[i].op \in (BlockOps \ {"else"}) \cup CallableOps -> 1
                                   [] OTHER -> 0)
    IN  level

\* Token i stands inside the construct that token j opens.
Surrounds(j, i) ==
    /\ program[j].op \in BlockOps \cup CallableOps
    /\ j < i
    /\ \A k \in (j + 1)..(i - 1) :
          /\ Level[k] >= Level[j]
          /\ program[k].op = "else" => Level[k] > Level[j]

\* The constructs around a token, 0 being the program.
Around(i) == {0} \cup {j \in Positions : Surrounds(j, i)}

IsVariable(i) == program[i].op \in {"var", "for"}

\* Where the construct j declares a name: by 'var' anywhere directly in it, as
\* the variable of the loop, as a parameter, or as a function or class.
Declarations(j, name) ==
    {i \in Positions : program[i].op = "var" /\ program[i].name = name /\ Max(Around(i)) = j}
    \cup {i \in {j} \ {0} : program[i].op = "for" /\ program[i].name = name}
    \cup {i \in {j} \ {0} : program[i].op = "function" /\ Contains(program[i].params, name)}
    \cup (IF j # 0 THEN {}
          ELSE {i \in Positions : /\ program[i].op \in CallableOps
                                  /\ program[i].name = name
                                  /\ Around(i) = {0}})

\* The constructs around i that declare a name.
Declaring(i, name) == {j \in Around(i) : Declarations(j, name) # {}}

\* The function a token belongs to, 0 if to none.
FunctionOf(i) == Max({0} \cup {j \in Around(i) \ {0} : program[j].op = "function"})

\* Variables are numbered in the order of the program, the globals from 0, the
\* locals of a function from 1, after 'this', or in a conversion method from 2.
VariableEntry(i) ==
    LET f == FunctionOf(i)
        earlier == {k \in 1..(i - 1) : IsVariable(k) /\ FunctionOf(k) = f}
        first == IF f = 0 THEN 0 ELSE IF program[f].name = "string" THEN 2 ELSE 1
    IN  [type |-> IF f = 0 THEN "global" ELSE "local", index |-> first + Cardinality(earlier)]

\* What a name means at token i.
Meaning(i, name) ==
    LET j == IF program[i].op = "for" THEN i ELSE Max(Declaring(i, name))
        d == CHOOSE k \in Declarations(j, name) : TRUE
    IN  IF IsVariable(d) THEN VariableEntry(d)
        ELSE IF j = 0 THEN [type |-> program[d].op, index |-> 0]
        ELSE [type |-> "param",
              index |-> (CHOOSE n \in DOMAIN program[d].params : program[d].params[n] = name) - 1]

\* A program the compiler is to accept.
WellScoped ==
    /\ \A j \in {0} \cup Positions, name \in Names : Cardinality(Declarations(j, name)) <= 1
    /\ \A i \in Positions :
          /\ program[i].op = "function" =>
                /\ IsInjective(program[i].params)
                /\ program[i].name = "string" => program[i].params = <<>>
          /\ program[i].op \in {"use", "set"} => Declaring(i, program[i].name) # {}
          /\ program[i].op = "set" => Meaning(i, program[i].name).type \notin CallableOps

-----------------------------------------------------------------------------
(* Properties.                                                              *)

Components == ({"^"} \X (1..MaxTokens)) \cup ({"name"} \X Names)

\* Every variable holds a value of its type.
TypeOK ==
    /\ program \in Seq(Token) /\ Len(program) <= MaxTokens
    /\ phase \in {"parse", "globals", "classes", "locals", "code", "done", "failed"}
    /\ at \in 1..(MaxTokens + 1)
    /\ open \in Seq(BlockOps \cup CallableOps)
    /\ scope \in Seq(Components) /\ subscope \in Seq(Components)
    /\ \A k \in DOMAIN table : k \in Seq(Components) /\ k # <<>> /\ table[k] \in Entry
    /\ num_globals \in Nat /\ num_locals \in Nat
    /\ start \in 0..MaxTokens
    /\ refs \subseteq [at : 1..MaxTokens, entry : Entry]

\* Every name that a compiled program uses or binds was resolved, once, to its
\* declaration in the nearest enclosing block, loop or function that has one, or
\* else to the global: shadowed, hoisted, and 'else' declarations included.
ResolvesLexically ==
    /\ phase \in {"done", "failed"} =>
          \A r \in refs : r.entry = Meaning(r.at, program[r.at].name)
    /\ phase = "done" =>
          {r.at : r \in refs} = {i \in Positions : program[i].op \in {"use", "set", "var", "for"}}

\* The compiler stops with an error exactly for the programs that declare a
\* name twice in one scope, use a name that is not declared around them, assign
\* to a function or class, or give a conversion method parameters; functions
\* that end leave nothing behind that a later one could collide with.
ErrorsAreExact ==
    /\ phase = "done" => WellScoped
    /\ phase = "failed" => ~ WellScoped

\* Two variables that are alive together have different places: the locals
\* among those that locals.res reserves, past the place of 'this', the globals
\* among the numbered cells.
SlotsAreDistinct ==
    \A k1, k2 \in DOMAIN table :
        LET e1 == table[k1]
            e2 == table[k2]
        IN  /\ e1.type = "local" => e1.index \in 1..(num_locals - 1)
            /\ e1.type = "global" => e1.index \in 0..(num_globals - 1)
            /\ (e1 = e2 /\ e1.type \notin CallableOps) => k1 = k2

\* Outside of functions the table holds globals only: leave_scope removed every
\* parameter and local of the functions that were generated.
LocalsAreForgotten ==
    (phase \in {"globals", "classes", "code", "done"} /\ ~ Contains(open, "function")) =>
        \A k \in DOMAIN table : table[k].type \notin {"local", "param"}

\* What is global stays what it is: neither the cleanup of a function nor a
\* later declaration touches it.
GlobalsArePermanent ==
    [][\A k \in DOMAIN table : table[k].type \notin {"local", "param"} =>
          k \in DOMAIN table' /\ table'[k] = table[k]]_vars

\* The passes end, with the program compiled or refused.
Terminates == <>(phase \in {"done", "failed"})

=============================================================================
