--------------------------- MODULE ExpressionGen ---------------------------
(***************************************************************************)
(* The expression generators: generator_expressions.c,                     *)
(* generator_arrays.c, generate_ident of generator_symbols.c and the       *)
(* expressions of generator_class.c.                                       *)
(*                                                                         *)
(* The generators call each other recursively over the syntax tree.  todo  *)
(* is what the active ones have still to do, the innermost first: each     *)
(* step takes its first item, one call of a generator or the next thing    *)
(* that one does after a call.  When nothing is left, the machine runs     *)
(* the code.                                                               *)
(*                                                                         *)
(* A tree is a record.  A precedence level with one child only calls the   *)
(* next level, so a tree names the levels that have more:                  *)
(*   comma(items)  assign(op, target, value)  cond(test, then, else)       *)
(*   range(low, high)  or(items)  and(items)  binary(prec, items, ops)     *)
(*   power(base, exponent)  unary(ops, operand)  chain(head, links)        *)
(* and a chain has a head: ident(name), lit(value), paren(exp),            *)
(* array(items), map(pairs), new(path, args), prototypeof(path) or super,  *)
(* and links: index(args), call(args), method(name, args), member(name).   *)
(***************************************************************************)
EXTENDS Machine

CONSTANTS
    Expressions, \* the expressions to compile
    Symbols      \* what the names of the program stand for: their symbol table entries

VARIABLES
    tree,       \* the expression
    todo,       \* what the generators have still to do
    exp_states, \* state->exp_state and those saved in generate_exp, innermost last
    uniqueid,   \* state->uniqueid
    symbols,    \* the entries that lookup finds from state->scope
    error       \* whether the program was refused

generator == <<tree, todo, exp_states, uniqueid, symbols, error>>
exec == <<pc, stack, reg, calls, scopes, log>>
vars == <<generator, machine>>

-----------------------------------------------------------------------------
(* The next item.                                                           *)

Item(kind) == todo # <<>> /\ Head(todo)[1] = kind
It == Head(todo)[2]

\* An item <<"gen", e>> calls the generator of the level of e.
Gen(kind) == Item("gen") /\ It.kind = kind

Flags == Last(exp_states)
Storing == Flags.is_lvalue /\ Flags.is_last_member

\* The rest of a generator: what it emits now, its calls, what it does later.
Do(now, items) ==
    /\ code' = code \o now
    /\ todo' = items \o Tail(todo)
    /\ UNCHANGED <<tree, error, exec>>

Keep == UNCHANGED <<exp_states, uniqueid, symbols>>

\* A message and exit(EXIT_FAILURE).
Refuse ==
    /\ error' = TRUE
    /\ todo' = <<>>
    /\ Keep
    /\ UNCHANGED <<tree, machine>>

Emits(is) == <<"emit", is>>
Calls(es) == [i \in DOMAIN es |-> <<"exp", es[i]>>]
Sets(flags) == <<"set", flags>>

Dup == <<"ld.stack", 0>>
Pop == <<"pop", 1>>

Emit ==
    /\ Item("emit")
    /\ Do(It, <<>>)
    /\ Keep

Set ==
    /\ Item("set")
    /\ exp_states' = [exp_states EXCEPT ![Len(exp_states)] = It @@ Flags]
    /\ Do(<<>>, <<>>)
    /\ UNCHANGED <<uniqueid, symbols>>

\* generate_exp: flags of its own, freed when it is done.
Exp ==
    /\ Item("exp")
    /\ exp_states' = Append(exp_states, [is_lvalue |-> FALSE, is_first_member |-> FALSE,
                                         is_last_member |-> FALSE])
    /\ Do(<<>>, <<<<"gen", It>>, <<"leave", 0>>>>)
    /\ UNCHANGED <<uniqueid, symbols>>

LeaveExp ==
    /\ Item("leave")
    /\ exp_states' = Front(exp_states)
    /\ Do(<<>>, <<>>)
    /\ UNCHANGED <<uniqueid, symbols>>

-----------------------------------------------------------------------------
(* Operators.  Each level knows its own; the grammar knows some more.       *)

Prec14 == ("*" :> "mul") @@ ("/" :> "div") @@ ("%" :> "mod")
Prec13 == ("+" :> "add") @@ ("-" :> "sub")
Prec12 == ("<<" :> "lsh") @@ (">>" :> "rsh")
Prec11 == ("<" :> "lt") @@ ("<=" :> "le") @@ (">" :> "gt") @@ (">=" :> "ge")
Prec10 == ("==" :> "eq.id") @@ ("!=" :> "ne.id") @@ ("~==" :> "eq") @@ ("!~==" :> "ne")
Prec09 == "&" :> "and"
Prec08 == "|" :> "or"
Prec07 == "|" :> "or"

Levels == (14 :> Prec14) @@ (13 :> Prec13) @@ (12 :> Prec12) @@ (11 :> Prec11)
          @@ (10 :> Prec10) @@ (9 :> Prec09) @@ (8 :> Prec08) @@ (7 :> Prec07)

Prec16 == ("!" :> "not") @@ ("~" :> "not.bitwise") @@ ("-" :> "neg")

\* The operation of a compound assignment, without its "=".
CompoundOp ==
    ("+" :> "add") @@ ("-" :> "sub") @@ ("**" :> "pow") @@ ("*" :> "mul")
    @@ ("/" :> "div") @@ ("%" :> "mod") @@ (">>" :> "rsh") @@ ("<<" :> "lsh")
    @@ ("&" :> "and") @@ ("^" :> "xor") @@ ("|" :> "or")

\* The tail of the loops over the operators of a level.
Operator ==
    /\ Item("operator")
    /\ IF It.op \in DOMAIN It.known
       THEN Do(<<<<It.known[It.op], 0>>>>, <<>>) /\ Keep
       ELSE Refuse

Apply(op, known) == <<"operator", [op |-> op, known |-> known]>>

\* generate_prec14 to generate_prec07.
BinaryLevel ==
    /\ Gen("binary")
    /\ Do(<<>>, <<<<"gen", It.items[1]>>>>
                \o FlattenSeq([i \in DOMAIN It.ops |->
                     <<<<"gen", It.items[i + 1]>>, Apply(It.ops[i], Levels[It.prec])>>]))
    /\ Keep

\* generate_prec15: the exponent is a whole expression.
Power ==
    /\ Gen("power")
    /\ Do(<<>>, <<<<"gen", It.base>>, <<"exp", It.exponent>>, Emits(<<<<"pow", 0>>>>)>>)
    /\ Keep

\* generate_prec16: the operators from the operand outwards.
UnaryLevel ==
    /\ Gen("unary")
    /\ Do(<<>>, <<<<"gen", It.operand>>>>
                \o [i \in DOMAIN It.ops |-> Apply(Reverse(It.ops)[i], Prec16)])
    /\ Keep

-----------------------------------------------------------------------------
(* generate_prec06 and generate_prec05.  The number of the label is taken   *)
(* after the first operand is generated.                                    *)

ShortCircuits == ("and" :> "brfalse") @@ ("or" :> "brtrue")

ShortCircuit ==
    /\ Item("gen") /\ It.kind \in DOMAIN ShortCircuits
    /\ Do(<<>>, <<<<"gen", It.items[1]>>, <<"others", It>>>>)
    /\ Keep

Others ==
    /\ Item("others")
    /\ LET end == <<"end" \o It.kind, uniqueid>>
       IN Do(<<>>, FlattenSeq([i \in 1..(Len(It.items) - 1) |->
                     <<Emits(<<Dup, <<ShortCircuits[It.kind], end>>, Pop>>),
                       <<"gen", It.items[i + 1]>>>>])
                   \o <<Emits(<<<<"label", end>>>>)>>)
    /\ uniqueid' = uniqueid + 1
    /\ UNCHANGED <<exp_states, symbols>>

\* generate_prec04: there may be more than one range, but only the first is read.
RangeLevel ==
    /\ Gen("range")
    /\ Do(<<>>, <<<<"gen", It.items[1]>>, <<"gen", It.items[2]>>,
                  Emits(<<<<"arr.range", 0>>>>)>>)
    /\ Keep

\* generate_prec04b.
Conditional ==
    /\ Gen("cond")
    /\ Do(<<>>, <<<<"gen", It.test>>, <<"arms", It>>>>)
    /\ Keep

Arms ==
    /\ Item("arms")
    /\ LET else == <<"@else", uniqueid>>
           endif == <<"@endif", uniqueid>>
       IN Do(<<<<"brfalse", else>>>>,
             <<<<"exp", It.then>>, Emits(<<<<"jmp", endif>>, <<"label", else>>>>),
               <<"exp", It.else>>, Emits(<<<<"label", endif>>>>)>>)
    /\ uniqueid' = uniqueid + 1
    /\ UNCHANGED <<exp_states, symbols>>

\* generate_prec03: of a compound assignment, the target is generated twice,
\* first to load its value, then to store the new one.
Assign ==
    /\ Gen("assign")
    /\ Do(<<>>, (IF It.op = "=" THEN <<<<"exp", It.value>>>>
                 ELSE <<<<"gen", It.target>>, <<"exp", It.value>>,
                        Emits(<<<<CompoundOp[It.op], 0>>>>)>>)
                \o <<Sets([is_lvalue |-> TRUE]), <<"gen", It.target>>,
                     Sets([is_lvalue |-> FALSE])>>)
    /\ Keep

\* generate_prec01: all but the last value are dropped.
Comma ==
    /\ Gen("comma")
    /\ Do(<<>>, FlattenSeq([i \in DOMAIN It.items |->
                  IF i < Len(It.items)
                  THEN <<<<"gen", It.items[i]>>, Emits(<<Pop>>)>>
                  ELSE <<<<"gen", It.items[i]>>>>]))
    /\ Keep

-----------------------------------------------------------------------------
(* Member chains.                                                           *)

\* generate_prec17.
Chain ==
    /\ Gen("chain")
    /\ Do(<<>>, <<Sets([is_first_member |-> TRUE, is_last_member |-> FALSE]),
                  <<"prec18", It>>>>)
    /\ Keep

\* The links of one generate_prec18: everything behind a member belongs to the
\* generate_prec18 of that member.
Members(links) == {i \in DOMAIN links : links[i].kind = "member"}
OwnLinks(links) ==
    IF Members(links) = {} THEN Len(links)
    ELSE CHOOSE i \in Members(links) : \A j \in Members(links) : i <= j

\* Faulty variant: any index is marked as the last member.
MarksLastAny(c, i) == c.links[i].kind \in {"index", "call"}

\* A method call is never marked as the last member.
MarksLast(c, i) == i = OwnLinks(c.links) /\ c.links[i].kind \in {"index", "call"}

LinkItems(c, i) ==
    (IF MarksLast(c, i) THEN <<Sets([is_last_member |-> TRUE])>> ELSE <<>>)
    \o <<IF c.links[i].kind = "member"
         THEN <<"prec18", [head |-> [kind |-> "ident", name |-> c.links[i].name],
                           links |-> SubSeq(c.links, i + 1, Len(c.links))]>>
         ELSE <<c.links[i].kind, c.links[i]>>>>

\* generate_prec18.
Prec18 ==
    /\ Item("prec18")
    /\ Do(<<>>, (IF It.links = <<>> THEN <<Sets([is_last_member |-> TRUE])>> ELSE <<>>)
                \o <<<<"head", It.head>>, Sets([is_first_member |-> FALSE])>>
                \o FlattenSeq([i \in 1..OwnLinks(It.links) |-> LinkItems(It, i)]))
    /\ Keep

HeadIs(kind) == Item("head") /\ It.kind = kind

\* 'super': the prototype of this, and once more for an instance.
Super ==
    /\ HeadIs("super")
    /\ Do(<<<<"ld.local", 0>>, Dup, <<"has.mapitem", "@is_instance">>,
            <<"brfalse", <<"@skip", uniqueid>>>>, <<"map.getprototype", 0>>,
            <<"label", <<"@skip", uniqueid>>>>, <<"map.getprototype", 0>>>>, <<>>)
    /\ uniqueid' = uniqueid + 1
    /\ UNCHANGED <<exp_states, symbols>>

\* The literals among the identifiers.
Constants == ("empty" :> "empty") @@ ("true" :> "true") @@ ("false" :> "false")

LoadOf(s) ==
    CASE s.type = "LOCAL" -> <<<<"ld.local", s.index>>>>
      [] s.type = "PARAM" -> <<<<"ld.arg", s.index>>>>
      [] s.type = "FUNCTION" -> <<<<"ld.ref", s.index>>>>
      [] s.type = "FIELD" -> <<<<"ld.local", 0>>, <<"ld.mapitem", s.index>>>>
      [] s.type \in {"GLOBAL", "CLASS", "ENUM", "MODULE"} -> <<<<"ld.deref", s.index>>>>

\* A function, class, enum or module is not an lvalue.
StoreOf ==
    [LOCAL |-> "st.local", PARAM |-> "st.arg", GLOBAL |-> "st.ref", FIELD |-> "st.mapitem"]

\* generate_ident, for the name n: what it emits, or nothing when it refuses.
IdentCode(n) ==
    CASE n = "this" -> IF Storing THEN <<>> ELSE <<<<"ld.local", 0>>>>
      [] n \in DOMAIN Constants -> <<<<"ld.lit", Constants[n]>>>>
      [] n \notin DOMAIN Constants \cup {"this"} /\ ~Flags.is_first_member ->
            IF Storing
            THEN <<<<"ld.stack", 1>>, <<"st.reg", "r2">>, <<"st.mapitem", n>>,
                   <<"ld.reg", "r2">>>>
            ELSE <<<<"ld.mapitem", n>>>>
      [] n \notin DOMAIN Constants \cup {"this"} /\ Flags.is_first_member ->
            IF n \notin DOMAIN symbols THEN <<>>
            ELSE IF ~Storing THEN LoadOf(symbols[n])
            ELSE IF symbols[n].type \notin DOMAIN StoreOf THEN <<>>
            ELSE <<Dup>>
                 \o (IF symbols[n].type = "FIELD" THEN <<<<"ld.local", 0>>>> ELSE <<>>)
                 \o <<<<StoreOf[symbols[n].type], symbols[n].index>>>>

Ident ==
    /\ HeadIs("ident")
    /\ IF IdentCode(It.name) = <<>> THEN Refuse
       ELSE Do(IdentCode(It.name), <<>>) /\ Keep

\* generate_arrIndex, where the value is below the array.
IndexStore ==
    /\ Item("index") /\ Storing
    /\ IF Len(It.args) = 2 THEN Refuse
       ELSE /\ Do(IF It.args = <<>> THEN <<Dup, <<"arr.len", 0>>>> ELSE <<>>,
                  Calls(It.args)
                  \o <<Emits(<<<<"ld.stack", 2>>, <<"st.reg", "r0">>,
                               <<"st.arrelem", 0>>, <<"ld.reg", "r0">>>>)>>)
            /\ Keep

IndexLoad ==
    /\ Item("index") /\ ~Storing
    /\ IF It.args = <<>> THEN Refuse
       ELSE /\ Do(<<>>, Calls(It.args)
                        \o <<Emits(<<<<IF Len(It.args) = 2 THEN "arr.slice"
                                       ELSE "ld.arrelem", 0>>>>)>>)
            /\ Keep

\* generate_funCall.
FunCall ==
    /\ Item("call")
    /\ IF Storing THEN Refuse
       ELSE /\ Do(<<>>, Calls(It.args)
                  \o <<Emits(<<<<"ld.lit", "empty">>, <<"st.reg", "r1">>,
                               <<"ld.stack", Len(It.args)>>, <<"call.pop", Len(It.args)>>,
                               Pop, <<"ld.reg", "rr">>>>)>>)
            /\ Keep

\* Faulty variant: the object is looked for among the arguments.
CallMemberOffByOne(n) ==
    <<<<"ld.stack", n>>, <<"st.reg", "r1">>, <<"ld.stack", n>>, <<"call.pop", n>>>>

\* The object and the address of the function below n arguments.
CallMember(n) ==
    <<<<"ld.stack", n + 1>>, <<"st.reg", "r1">>, <<"ld.stack", n>>, <<"call.pop", n>>>>

\* generate_methodCall.
MethodCall ==
    /\ Item("method")
    /\ IF Storing THEN Refuse
       ELSE IF It.name = "string" THEN Do(<<<<"conv.str", 0>>>>, <<>>) /\ Keep
       ELSE /\ Do(<<Dup, <<"ld.mapitem", It.name>>>>,
                  Calls(It.args)
                  \o <<Emits(CallMember(Len(It.args)) \o <<Pop, Pop, <<"ld.reg", "rr">>>>)>>)
            /\ Keep

-----------------------------------------------------------------------------
(* generate_factor.                                                         *)

Lit ==
    /\ HeadIs("lit")
    /\ Do(<<<<"ld.lit", It.value>>>>, <<>>)
    /\ Keep

Paren ==
    /\ HeadIs("paren")
    /\ Do(<<>>, <<<<"exp", It.exp>>>>)
    /\ Keep

\* generate_arrayInit.
ArrayInit ==
    /\ HeadIs("array")
    /\ Do(<<>>, Calls(It.items) \o <<Emits(<<<<"ld.arr", Len(It.items)>>>>)>>)
    /\ Keep

\* generate_mapInit: the value, the map again, the key.
MapInit ==
    /\ HeadIs("map")
    /\ Do(<<<<"ld.map", 0>>>>,
          FlattenSeq([i \in DOMAIN It.pairs |->
            <<<<"exp", It.pairs[i].value>>, Emits(<<<<"ld.stack", 1>>>>),
              <<"exp", It.pairs[i].key>>, Emits(<<<<"st.mapitem.pop", 0>>>>)>>]))
    /\ Keep

\* The class or module that a path of names leads to.
Path(names) ==
    <<<<"head", [kind |-> "ident", name |-> names[1]]>>,
      Emits([i \in 1..(Len(names) - 1) |-> <<"ld.mapitem", names[i + 1]>>])>>

\* generate_new.
New ==
    /\ HeadIs("new")
    /\ IF Storing THEN Refuse
       ELSE /\ Do(<<>>, Path(It.path)
                  \o <<Emits(<<<<"ld.mapitem", "@alloc">>, <<"call.pop", 0>>,
                               <<"ld.reg", "rr">>, Dup, <<"ld.mapitem", "new">>>>),
                       <<"newCall", It.args>>>>)
            /\ Keep

\* The rest of it, with generate_newCall: without a method 'new' all is skipped.
NewCall ==
    /\ Item("newCall")
    /\ LET skip == <<"@skip", uniqueid>>
       IN Do(<<<<"is.empty", 0>>, <<"brtrue", skip>>>>,
             Calls(It) \o <<Emits(CallMember(Len(It)) \o <<<<"label", skip>>, Pop>>)>>)
    /\ uniqueid' = uniqueid + 1
    /\ UNCHANGED <<exp_states, symbols>>

\* generate_prototypeof.
BoxingTypes == {"string", "int", "uint", "array", "float", "map"}

PrototypeOf ==
    /\ HeadIs("prototypeof")
    /\ IF Storing THEN Refuse
       ELSE /\ IF Len(It.path) = 1 /\ It.path[1] \in BoxingTypes
               THEN Do(<<<<"ld.boxingproto", It.path[1]>>>>, <<>>)
               ELSE Do(<<>>, Path(It.path))
            /\ Keep

-----------------------------------------------------------------------------
\* The frame of the method that the expression stands in.
Enclosing ==
    [name |-> "main", ret |-> 0, base |-> 0,
     args |-> <<<<"lit", "p">>>>, locals |-> <<<<"lit", "this">>, <<"lit", "l">>>>]

Init ==
    /\ tree \in Expressions
    /\ todo = <<<<"exp", tree>>>>
    /\ exp_states = <<>>
    /\ uniqueid = 0
    /\ symbols = Symbols
    /\ error = FALSE
    /\ MachineInit(Enclosing)

Generate ==
    \/ Emit \/ Set \/ Exp \/ LeaveExp
    \/ Operator \/ BinaryLevel \/ Power \/ UnaryLevel \/ ShortCircuit \/ Others
    \/ RangeLevel \/ Conditional \/ Arms \/ Assign \/ Comma
    \/ Chain \/ Prec18 \/ Super \/ Ident \/ IndexStore \/ IndexLoad \/ FunCall \/ MethodCall
    \/ Lit \/ Paren \/ ArrayInit \/ MapInit \/ New \/ NewCall \/ PrototypeOf

Generated == todo = <<>> /\ ~error

Run ==
    /\ Generated
    /\ MachineNext
    /\ UNCHANGED generator

Next == Generate \/ Run

Spec == Init /\ [][Next]_vars /\ WF_vars(Next)

Done == Generated /\ pc > Len(code)
=============================================================================
