------------------------------ MODULE Meaning ------------------------------
(***************************************************************************)
(* What expressions and programs of the language mean, and that the code  *)
(* which ExpressionGen and FunctionGen generate for them does just that.   *)
(*                                                                         *)
(* The meaning is defined over the tree: operands are evaluated from left  *)
(* to right, the value of an assignment before the target it is stored     *)
(* into.  It knows neither the operand stack nor registers, labels or      *)
(* flags.  A state of the evaluation is a record s: what was done (log),   *)
(* the variables of the function (args, locals, and names, what each name  *)
(* stands for), the value just computed (val) and whether the function has *)
(* returned it (returned).                                                 *)
(***************************************************************************)
EXTENDS FunctionGen

\* The operation that an operator of the grammar stands for, by precedence.
Operation ==
    (14 :> ("*" :> "mul" @@ "/" :> "div" @@ "%" :> "mod"))
    @@ (13 :> ("+" :> "add" @@ "-" :> "sub"))
    @@ (12 :> ("<<" :> "lsh" @@ ">>" :> "rsh"))
    @@ (11 :> ("<" :> "lt" @@ "<=" :> "le" @@ ">" :> "gt" @@ ">=" :> "ge"))
    @@ (10 :> ("==" :> "eq.id" @@ "!=" :> "ne.id" @@ "~==" :> "eq" @@ "!~==" :> "ne"))
    @@ (9 :> ("&" :> "and"))
    @@ (8 :> ("^" :> "xor"))
    @@ (7 :> ("|" :> "or"))

PowerLevel == 15 :> ("**" :> "pow")
Negation == ("!" :> "not") @@ ("~" :> "not.bitwise") @@ ("-" :> "neg")

\* op= stands for the operation of op.
OperationOf(op) ==
    LET all == Operation @@ PowerLevel
    IN  all[CHOOSE p \in DOMAIN all : op \in DOMAIN all[p]][op]

-----------------------------------------------------------------------------
(* Steps of the evaluation.                                                 *)

Anything == <<"lit", "anything">>

Gives(s, v) == [s EXCEPT !.val = v]

\* Something that is done without a result, and with one.
Does(s, opcode, operand, values) ==
    [s EXCEPT !.log = Append(@, <<opcode, operand, values>>)]
DoesGive(s, opcode, operand, values) ==
    Gives(Does(s, opcode, operand, values), <<"at", Len(s.log) + 1>>)

\* Whether the value just computed counts as true: where that is not known, as
\* the machine found when it came here.
Test(s) ==
    LET k == Len(s.log) + 1
        truth == IF k \in DOMAIN log /\ log[k][1] = "test" THEN log[k][2] ELSE FALSE
    IN  IF s.val[1] = "at"
        THEN [true |-> truth, s |-> Does(s, "test", truth, <<s.val>>)]
        ELSE [true |-> s.val \notin {Empty, <<"lit", "false">>}, s |-> s]

LoadName(s, n) ==
    IF n = "this" THEN Gives(s, s.locals[1])
    ELSE IF n \in DOMAIN Constants THEN Gives(s, <<"lit", n>>)
    ELSE LET e == s.names[n]
         IN CASE e.type = "LOCAL" -> Gives(s, s.locals[e.index + 1])
              [] e.type = "PARAM" -> Gives(s, s.args[e.index + 1])
              [] e.type = "FUNCTION" -> Gives(s, <<"ref", e.index>>)
              [] OTHER -> DoesGive(s, "ld.deref", e.index, <<>>)

StoreName(s, n) ==
    LET e == s.names[n]
    IN CASE e.type = "LOCAL" -> [s EXCEPT !.locals[e.index + 1] = s.val]
         [] e.type = "PARAM" -> [s EXCEPT !.args[e.index + 1] = s.val]
         [] e.type = "GLOBAL" -> Does(s, "st.ref", e.index, <<s.val>>)

\* The item of the value just computed: a method of the program, or unknown.
ItemOf(s, n) ==
    LET i == DoesGive(s, "ld.mapitem", n, <<s.val>>)
    IN  IF n \in DOMAIN Methods THEN Gives(i, <<"ref", Methods[n]>>) ELSE i

\* Whether the value just computed is empty.
TestEmpty(s) ==
    IF s.val[1] = "at" THEN Test(DoesGive(s, "is.empty", 0, <<s.val>>))
    ELSE [true |-> s.val = Empty, s |-> s]

-----------------------------------------------------------------------------
RECURSIVE Value(_, _), Values(_, _, _), Conjunction(_, _, _), Pairs(_, _, _), Operations(_, _, _, _, _)
RECURSIVE HeadValue(_, _), Follow(_, _), Items(_, _)
RECURSIVE WithDefaults(_, _, _), Invoke(_, _, _, _), Exec(_, _), Repeat(_, _, _, _, _)

\* A call: of a function of the program, or of an unknown one.
CallsFunction(s, f, this, args) ==
    IF f[1] = "ref" THEN Invoke(s, f[2], this, args)
    ELSE DoesGive(s, "call", this, <<f>> \o args)

\* The values of the expressions es, behind those already in vs.
Values(es, s, vs) ==
    IF es = <<>> THEN [s |-> s, vals |-> vs]
    ELSE LET r == Value(es[1], s) IN Values(Tail(es), r, Append(vs, r.val))

\* and, or: the last value that was evaluated; going is the truth at which the
\* next one is.
Conjunction(es, s, going) ==
    LET r == Value(es[1], s)
        t == Test(r)
    IN  IF Len(es) = 1 THEN r
        ELSE IF t.true = going THEN Conjunction(Tail(es), t.s, going) ELSE t.s

\* Left-associative operators.
Operations(es, ops, prec, i, s) ==
    IF i > Len(ops) THEN s
    ELSE LET r == Value(es[i + 1], s)
         IN  Operations(es, ops, prec, i + 1,
                    DoesGive(r, Operation[prec][ops[i]], 0, <<s.val, r.val>>))

\* The entries of a new map.
Pairs(ps, s, map) ==
    IF ps = <<>> THEN Gives(s, map)
    ELSE LET v == Value(ps[1].value, s)
             k == Value(ps[1].key, v)
         IN  Pairs(Tail(ps), Does(k, "st.mapitem.pop", 0, <<v.val, map, k.val>>), map)

\* The items that the names lead to, from the value just computed.
Items(s, names) ==
    IF names = <<>> THEN s
    ELSE Items(ItemOf(s, names[1]), Tail(names))

\* An object is allocated, and initialized if it has a method for that.
NewValue(h, s) ==
    LET class == Items(LoadName(s, h.path[1]), Tail(h.path))
        f == ItemOf(class, "@alloc")
        object == CallsFunction(f, f.val, Anything, <<>>)
        new == ItemOf(object, "new")
        t == TestEmpty(new)
        a == Values(h.args, t.s, <<>>)
    IN  IF t.true THEN Gives(t.s, object.val)
        ELSE Gives(CallsFunction(a.s, new.val, object.val, a.vals), object.val)

SuperValue(s) ==
    LET this == s.locals[1]
        t == Test(DoesGive(s, "has.mapitem", "@is_instance", <<this>>))
        class == IF t.true THEN DoesGive(t.s, "map.getprototype", 0, <<this>>)
                 ELSE Gives(t.s, this)
    IN  DoesGive(class, "map.getprototype", 0, <<class.val>>)

HeadValue(h, s) ==
    CASE h.kind = "ident" -> LoadName(s, h.name)
      [] h.kind = "lit" -> Gives(s, <<"lit", h.value>>)
      [] h.kind = "paren" -> Value(h.exp, s)
      [] h.kind = "array" ->
            LET a == Values(h.items, s, <<>>) IN DoesGive(a.s, "ld.arr", Len(h.items), a.vals)
      [] h.kind = "map" ->
            LET m == DoesGive(s, "ld.map", 0, <<>>) IN Pairs(h.pairs, m, m.val)
      [] h.kind = "new" -> NewValue(h, s)
      [] h.kind = "prototypeof" ->
            IF Len(h.path) = 1 /\ h.path[1] \in BoxingTypes
            THEN DoesGive(s, "ld.boxingproto", h.path[1], <<>>)
            ELSE Items(LoadName(s, h.path[1]), Tail(h.path))
      [] h.kind = "super" -> SuperValue(s)

\* The value of the links, from the value just computed.
Follow(links, s) ==
    IF links = <<>> THEN s
    ELSE LET l == links[1]
             a == Values(l.args, s, <<>>)
             f == ItemOf(s, l.name)
             b == Values(l.args, f, <<>>)
             next == CASE l.kind = "member" -> f
                       [] l.kind = "index" ->
                            DoesGive(a.s, IF Len(l.args) = 2 THEN "arr.slice" ELSE "ld.arrelem",
                                      0, <<s.val>> \o a.vals)
                       [] l.kind = "call" -> CallsFunction(a.s, s.val, Empty, a.vals)
                       [] l.kind = "method" ->
                            IF l.name = "string" THEN DoesGive(s, "conv.str", 0, <<s.val>>)
                            ELSE CallsFunction(b.s, f.val, s.val, b.vals)
         IN  Follow(Tail(links), next)

\* The value just computed is stored into the last link of the target, of an
\* object that all in front of it is evaluated to; it stays the value.
Store(target, s) ==
    LET object == Follow(Front(target.links), HeadValue(target.head, s))
        l == Last(target.links)
        i == IF l.args = <<>> THEN DoesGive(object, "arr.len", 0, <<object.val>>)
             ELSE Value(l.args[1], object)
    IN  IF target.links = <<>> THEN StoreName(s, target.head.name)
        ELSE IF l.kind = "index"
             THEN Gives(Does(i, "st.arrelem", 0, <<s.val, object.val, i.val>>), s.val)
             ELSE Gives(Does(object, "st.mapitem", l.name, <<s.val, object.val>>), s.val)

Value(e, s) ==
    CASE e.kind = "chain" -> Follow(e.links, HeadValue(e.head, s))
      [] e.kind = "assign" ->
            LET old == Value(e.target, s)
                new == Value(e.value, old)
            IN  Store(e.target, IF e.op = "=" THEN Value(e.value, s)
                                ELSE DoesGive(new, OperationOf(e.op), 0, <<old.val, new.val>>))
      [] e.kind = "and" -> Conjunction(e.items, s, TRUE)
      [] e.kind = "or" -> Conjunction(e.items, s, FALSE)
      [] e.kind = "cond" ->
            LET t == Test(Value(e.test, s)) IN Value(IF t.true THEN e.then ELSE e.else, t.s)
      [] e.kind = "binary" -> Operations(e.items, e.ops, e.prec, 1, Value(e.items[1], s))
      [] e.kind = "range" ->
            LET r == Values(e.items, s, <<>>) IN DoesGive(r.s, "arr.range", 0, r.vals)
      [] e.kind = "power" ->
            LET r == Values(<<e.base, e.exponent>>, s, <<>>) IN DoesGive(r.s, "pow", 0, r.vals)
      [] e.kind = "unary" ->
            LET r == Value(e.operand, s)
            IN  FoldRight(LAMBDA op, t : DoesGive(t, Negation[op], 0, <<t.val>>), e.ops, r)
      [] e.kind = "comma" -> LET r == Values(e.items, s, <<>>) IN Gives(r.s, Last(r.vals))

-----------------------------------------------------------------------------
(* Statements and functions.                                                *)

FunctionNamed(f) == CHOOSE p \in ToSet(tree) : p.kind \in {"function", "syscall"} /\ p.name = f

\* Each parameter that was given no argument, or an empty one, has its default
\* value, which may be computed from the parameters and from what was done before.
WithDefaults(ps, i, s) ==
    IF i > Len(ps) THEN s
    ELSE LET t == TestEmpty(Gives(s, s.args[i]))
             v == Value(ps[i].values[1], t.s)
         IN  IF ps[i].values = <<>> THEN WithDefaults(ps, i + 1, s)
             ELSE WithDefaults(ps, i + 1, IF t.true THEN [v EXCEPT !.args[i] = v.val] ELSE t.s)

\* A function runs on variables of its own and leaves those of its caller alone.
\* Its value is what it returned, 0 if it came to its end, and anything if it
\* returned without one.
Invoke(s, f, this, args) ==
    LET p == FunctionNamed(f)
        given == [i \in DOMAIN p.params |-> IF i \in DOMAIN args THEN args[i] ELSE Empty]
        called == [s EXCEPT !.args = given, !.returned = FALSE,
                            !.locals = <<this>> \o IF p.kind = "syscall" THEN <<>>
                                                   ELSE [n \in DOMAIN Declared(p.body) |-> Empty],
                            !.names = IF p.kind = "syscall" THEN Symbols ELSE SymbolsOf(p)]
        ready == WithDefaults(p.params, 1, called)
        end == IF p.kind = "syscall" THEN DoesGive(ready, "syscall", p.alias, ready.args)
               ELSE LET e == Exec(p.body, ready)
                    IN  IF e.returned THEN e ELSE Gives(e, <<"lit", "0">>)
    IN  [end EXCEPT !.args = s.args, !.locals = s.locals, !.names = s.names, !.returned = FALSE]

\* The loop over the elements of array a from index i on.
Repeat(loop, a, n, i, s) ==
    LET t == Test(DoesGive(s, "cmp", 0, <<i, n>>))
        element == DoesGive(t.s, "ld.arrelem", 0, <<a, i>>)
        body == Exec(loop.body, StoreName(element, loop.name))
        next == DoesGive(body, "add", 0, <<i, <<"lit", "1">>>>)
    IN  IF ~ t.true THEN t.s
        ELSE IF body.returned THEN body
        ELSE Repeat(loop, a, n, next.val, next)

ExecPart(p, s) ==
    CASE p.kind \in {"function", "syscall"} -> s
      [] p.kind = "exp" -> Value(p.exp, s)
      [] p.kind = "var" -> IF p.values = <<>> THEN s ELSE StoreName(Value(p.values[1], s), p.name)
      [] p.kind = "return" -> IF p.values = <<>> THEN [s EXCEPT !.returned = TRUE, !.val = Anything]
                              ELSE [Value(p.values[1], s) EXCEPT !.returned = TRUE]
      [] p.kind = "if" ->
            LET t == Test(Value(p.test, s)) IN Exec(IF t.true THEN p.then ELSE p.else, t.s)
      [] p.kind = "for" ->
            LET a == Value(p.list, s)
                n == DoesGive(a, "arr.len", 0, <<a.val>>)
            IN  Repeat(p, a.val, n.val, <<"lit", "0">>, n)

Exec(ps, s) ==
    IF ps = <<>> \/ s.returned THEN s ELSE Exec(Tail(ps), ExecPart(ps[1], s))

-----------------------------------------------------------------------------
(* Which expressions the compiler is to accept.                             *)

RECURSIVE Accepted(_), AcceptedHead(_)

\* What may be assigned to: a variable, an item or an element.
IsTarget(c) ==
    /\ c.kind = "chain"
    /\ IF c.links = <<>>
       THEN /\ c.head.kind = "ident"
            /\ c.head.name \in DOMAIN Symbols
            /\ Symbols[c.head.name].type \in {"LOCAL", "PARAM", "GLOBAL"}
       ELSE /\ Last(c.links).kind \in {"index", "member"}
            /\ Last(c.links).kind = "index" => Len(Last(c.links).args) <= 1

\* An empty index makes sense only for an element that is about to be stored.
AcceptedLinks(links, assigned) ==
    \A i \in DOMAIN links :
        /\ \A a \in DOMAIN links[i].args : Accepted(links[i].args[a])
        /\ links[i].kind = "index" /\ links[i].args = <<>> => assigned /\ i = Len(links)

AcceptedHead(h) ==
    CASE h.kind = "ident" -> h.name \in DOMAIN Symbols \cup DOMAIN Constants \cup {"this"}
      [] h.kind = "paren" -> Accepted(h.exp)
      [] h.kind = "array" -> \A i \in DOMAIN h.items : Accepted(h.items[i])
      [] h.kind = "map" -> \A i \in DOMAIN h.pairs : Accepted(h.pairs[i].key) /\ Accepted(h.pairs[i].value)
      [] h.kind = "new" -> /\ h.path[1] \in DOMAIN Symbols
                           /\ \A i \in DOMAIN h.args : Accepted(h.args[i])
      [] h.kind = "prototypeof" -> \/ Len(h.path) = 1 /\ h.path[1] \in BoxingTypes
                                   \/ h.path[1] \in DOMAIN Symbols
      [] OTHER -> TRUE

Accepted(e) ==
    CASE e.kind = "chain" -> AcceptedHead(e.head) /\ AcceptedLinks(e.links, FALSE)
      [] e.kind = "assign" -> /\ IsTarget(e.target)
                              /\ AcceptedHead(e.target.head)
                              /\ AcceptedLinks(e.target.links, e.op = "=")
                              /\ Accepted(e.value)
      [] e.kind = "cond" -> Accepted(e.test) /\ Accepted(e.then) /\ Accepted(e.else)
      [] e.kind = "binary" -> /\ \A i \in DOMAIN e.ops : e.ops[i] \in DOMAIN Operation[e.prec]
                              /\ \A i \in DOMAIN e.items : Accepted(e.items[i])
      [] e.kind = "power" -> Accepted(e.base) /\ Accepted(e.exponent)
      [] e.kind = "unary" -> /\ \A i \in DOMAIN e.ops : e.ops[i] \in DOMAIN Negation
                             /\ Accepted(e.operand)
      [] OTHER -> \A i \in DOMAIN e.items : Accepted(e.items[i])

-----------------------------------------------------------------------------
(* Properties.                                                              *)

\* The allocator of a class ignores the register that it is called with.
SameEvent(expected, actual) ==
    \/ expected = actual
    \/ /\ expected[1] = "call" /\ expected[2] = Anything
       /\ actual[1] = "call" /\ expected[3] = actual[3]

Did(m) ==
    /\ Len(log) = Len(m.log)
    /\ \A k \in DOMAIN log : SameEvent(m.log[k], log[k])

Beginning(frame) ==
    [log |-> <<>>, args |-> frame.args, locals |-> frame.locals, names |-> Symbols,
     val |-> Empty, returned |-> FALSE]

\* The machine came to the end of the code of an expression, and did what the
\* expression means: it loaded, stored, called, tested and computed the same
\* things with the same values in the same order, each call was given its object
\* and its arguments, and one operand is left, the value.
DidWhatIsMeant ==
    Done /\ LET m == Value(tree, Beginning(Enclosing))
            IN  /\ Did(m)
                /\ stack = <<m.val>>
                /\ <<Frame.args, Frame.locals>> = <<m.args, m.locals>>

\* The compiler refuses an assignment to what cannot be assigned, an empty
\* index that is not stored to, an unknown operator and an undefined name, at
\* any depth of the expression, and nothing else.
RefusesExactly == (error => ~Accepted(tree)) /\ (Generated => Accepted(tree))

\* The machine came to the end of a program and did what its functions and
\* statements mean: each call was given its arguments, defaults for those that
\* are missing, and its object; it left the operands, the variables and the object
\* of its caller as they were, also out of the middle of a loop or an argument;
\* and its value is the one it returned, not that of a call in between.
ProgramDidWhatIsMeant ==
    /\ Done
    /\ Did(Exec(tree, Beginning(Main)))
    /\ stack = <<>>
    /\ calls = <<Main>>

\* Wherever a function comes to its end it has returned.
EndsReturned(p) ==
    p.kind = "function" => p.body # <<>> /\ Last(p.body).kind = "return"

\* generator_functions.c: as long as functions end with a return, the debugger's
\* scopes are the active functions, at everything that is done in them.
ScopesFollowCalls ==
    /\ \A i \in DOMAIN tree : EndsReturned(tree[i])
    /\ Generated /\ Running
    /\ Instr[1] \in Computes
    => scopes = [i \in 1..(Len(calls) - 1) |-> calls[i + 1].name]

=============================================================================
