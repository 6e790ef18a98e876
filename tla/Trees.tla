-------------------------------- MODULE Trees --------------------------------
(* Names for the trees of small expressions and statements.                  *)
EXTENDS Sequences

Chn(head, links) == [kind |-> "chain", head |-> head, links |-> links]
Name(n) == [kind |-> "ident", name |-> n]
Var(n) == Chn(Name(n), <<>>)
One == Chn([kind |-> "lit", value |-> "1"], <<>>)
In(h) == Chn(h, <<>>)
Par(e) == In([kind |-> "paren", exp |-> e])
Index(args) == [kind |-> "index", args |-> args]
Fun(args) == [kind |-> "call", args |-> args]
Method(n, args) == [kind |-> "method", name |-> n, args |-> args]
Member == [kind |-> "member", name |-> "k", args |-> <<>>]
Let(op, t, v) == [kind |-> "assign", op |-> op, target |-> t, value |-> v]
Bin(prec, ops, items) == [kind |-> "binary", prec |-> prec, ops |-> ops, items |-> items]
Not(ops, e) == [kind |-> "unary", ops |-> ops, operand |-> e]
IfThen(c, a, b) == [kind |-> "cond", test |-> c, then |-> a, else |-> b]
List(kind, items) == [kind |-> kind, items |-> items]
NewC(args) == [kind |-> "new", path |-> <<"C">>, args |-> args]
Proto(path) == [kind |-> "prototypeof", path |-> path]

ExpStmt(e) == [kind |-> "exp", exp |-> e]
VarStmt(n, values) == [kind |-> "var", name |-> n, values |-> values]
ForStmt(n, list, body) == [kind |-> "for", name |-> n, list |-> list, body |-> body]
IfStmt(c, a, b) == [kind |-> "if", test |-> c, then |-> a, else |-> b]
Returns(values) == [kind |-> "return", values |-> values]
Param(n, values) == [name |-> n, values |-> values]
FunctionOf(n, params, body) == [kind |-> "function", name |-> n, params |-> params, body |-> body]
SyscallOf(n, alias, params) == [kind |-> "syscall", name |-> n, alias |-> alias, params |-> params]
=============================================================================
