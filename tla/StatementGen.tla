---------------------------- MODULE StatementGen ----------------------------
(***************************************************************************)
(* The statement generators of libwickedc: generator_statements.c,         *)
(* generator_while.c, generator_if.c and generator_functions.c, with the   *)
(* scope and label stacks of generator_symbols.c they share.               *)
(*                                                                         *)
(* The generators walk the syntax tree recursively.  Their activation      *)
(* records are the variable frames; a program is chosen on the fly, one    *)
(* statement per step, so the behaviours of Spec are the runs of the       *)
(* generator over every program within the bounds.  The assembly text is   *)
(* reduced to what control flow can tell apart: how many instructions were *)
(* emitted, where each label is defined and from where each one is jumped  *)
(* to, and how deep the operand stack is at each of those places.          *)
(***************************************************************************)
EXTENDS Integers, Sequences, SequencesExt, FiniteSets

CONSTANTS
    Functions,  \* names of functions and of system calls
    Exps,       \* the shapes of expressions a program may use
    MaxPos,     \* bound: statements, else branches and defaults of a program
    MaxNesting  \* bound: depth of nesting

\* Shapes of an expression by the labels their code needs.
ExpShapes == {"plain", "and", "or", "ternary", "new", "super"}

ASSUME ExpsAssumption == Exps \subseteq ExpShapes
ASSUME BoundsAssumption == MaxPos \in Nat /\ MaxNesting \in Nat
\* A function name is never the number of a generated label.
ASSUME FunctionsAssumption == Functions \cap Nat = {}

VARIABLES
    frames,           \* the generators now active, outermost first
    scope,            \* state->scope, the components between the dots
    continue_labels,  \* state->continue_labels
    break_labels,     \* state->break_labels
    uniqueid,         \* state->uniqueid
    output,           \* state->output, reduced to labels and jumps
    pos               \* source position of the next statement

vars == <<frames, scope, continue_labels, break_labels, uniqueid, output, pos>>

-----------------------------------------------------------------------------
(* Labels.  sprintf("startwhile_%d", id) is the pair <<"startwhile", id>>;  *)
(* a function f has its entry label and the label @f__end.                  *)

NumberedKinds == {"startwhile", "endwhile", "@startdo", "@while", "@enddo",
                  "startfor", "continue", "endfor", "@else", "@endif", "@end",
                  "@skip", "endand", "endor"}
NamedKinds == {"entry", "@__end"}

NoLabel == <<"NULL", 0>>
Labels == (NumberedKinds \X Nat) \cup (NamedKinds \X Functions)

LoopKinds == {"while", "do", "for"}
StatementKinds == LoopKinds \cup {"if", "else"}
CallableKinds == {"function", "syscall"}

\* The end labels that the generator of a loop registers for break, and the
\* labels it registers for continue.
BreakLabel(kind, id) ==
    CASE kind = "while" -> <<"endwhile", id>>
      [] kind = "do"    -> <<"@enddo", id>>
      [] kind = "for"   -> <<"endfor", id>>
      [] OTHER          -> NoLabel

ContinueLabel(kind, id) ==
    CASE kind = "while" -> <<"startwhile", id>>
      [] kind = "do"    -> <<"@while", id>>
      [] kind = "for"   -> <<"continue", id>>
      [] OTHER          -> NoLabel

\* A frame: which generator, the number of its labels (the name for a
\* function), the number of its generate_block, and what its body still takes:
\* default values of parameters, "lines" until a terminator, exactly "one"
\* statement, or nothing any more.
Frame ==
    [kind : StatementKinds, id : Nat, block : Nat, body : {"lines", "one", "full"}]
    \cup [kind : CallableKinds, id : Functions, block : {0}, body : {"params", "lines"}]

-----------------------------------------------------------------------------
(* append_output.  Instructions count as one each, whatever they are; depth *)
(* is the number of operands the code emitted so far leaves on the stack.   *)

Output == [addr : Nat, depth : Int,
           labels : SUBSET [label : Labels, addr : Nat, depth : Int],
           jumps : SUBSET [target : Labels, addr : Nat, depth : Int]]

\* Straight-line code that changes the depth by d.
Code(o, d) ==
    [addr |-> o.addr + 1, depth |-> o.depth + d, labels |-> o.labels, jumps |-> o.jumps]

Define(o, l) ==
    [addr |-> o.addr, depth |-> o.depth, jumps |-> o.jumps,
     labels |-> o.labels \cup {[label |-> l, addr |-> o.addr, depth |-> o.depth]}]

Jump(o, l) ==
    [addr |-> o.addr + 1, depth |-> o.depth, labels |-> o.labels,
     jumps |-> o.jumps \cup {[target |-> l, addr |-> o.addr, depth |-> o.depth]}]

\* brtrue and brfalse consume the operand they test.
Branch(o, l) ==
    [addr |-> o.addr + 1, depth |-> o.depth - 1, labels |-> o.labels,
     jumps |-> o.jumps \cup {[target |-> l, addr |-> o.addr, depth |-> o.depth - 1]}]

\* The depth at a place that only jumps reach.
AtDepth(o, d) == [addr |-> o.addr, depth |-> d, labels |-> o.labels, jumps |-> o.jumps]

\* prec06 and prec05: one short-circuit label for the whole chain.
ShortCircuit(o, end) == Define(Code(Branch(Code(o, 2), end), 0), end)

\* prec04b: the else arm starts from the depth at the branch.
Ternary(o, id) ==
    LET o1 == Branch(Code(o, 1), <<"@else", id>>)
        o2 == Jump(Code(o1, 1), <<"@endif", id>>)
        o3 == Define(AtDepth(o2, o.depth), <<"@else", id>>)
    IN  Define(Code(o3, 1), <<"@endif", id>>)

\* generate_new: the initializer call is skipped when there is no 'new'.
NewObject(o, id) ==
    LET o1 == Branch(Code(o, 3), <<"@skip", id>>)
        o2 == Define(Code(o1, 0), <<"@skip", id>>)
    IN  Define(Code(o2, -1), <<"@end", id>>)

\* prec18: the prototype of this, and once more unless this is a class.
Super(o, id) == Code(ShortCircuit(o, <<"@skip", id>>), 0)

\* generate_exp leaves one value on the stack.
GenerateExp(o, e, id) ==
    CASE e = "plain"   -> Code(o, 1)
      [] e = "and"     -> ShortCircuit(o, <<"endand", id>>)
      [] e = "or"      -> ShortCircuit(o, <<"endor", id>>)
      [] e = "ternary" -> Ternary(o, id)
      [] e = "new"     -> NewObject(o, id)
      [] e = "super"   -> Super(o, id)

\* Every shape but the plain one takes one number from uniqueid.
IdsOf(e) == IF e = "plain" THEN 0 ELSE 1

-----------------------------------------------------------------------------
(* The scope and label stacks, generator_symbols.c.                         *)

\* enter_scope and enter_scope_with_pos.
EnterScope(name, continue_label, break_label) ==
    /\ scope' = Append(scope, name)
    /\ continue_labels' = Append(continue_labels, continue_label)
    /\ break_labels' = Append(break_labels, break_label)

\* leave_scope: both label stacks are popped and the last component is cut off.
LeaveScope ==
    /\ scope' = Front(scope)
    /\ continue_labels' = Front(continue_labels)
    /\ break_labels' = Front(break_labels)

KeepScope == UNCHANGED <<scope, continue_labels, break_labels>>

\* Faulty variant: only the last entry is looked at.
InnermostNoSearch(labels) == IF labels = <<>> THEN NoLabel ELSE Last(labels)

\* The search of generate_continue and generate_break: the last label that is
\* not NULL, or NULL.
Innermost(labels) ==
    LET set == {i \in DOMAIN labels : labels[i] # NoLabel}
    IN  IF set = {} THEN NoLabel
        ELSE labels[CHOOSE i \in set : \A j \in set : j <= i]

-----------------------------------------------------------------------------
(* Where the next statement may stand.                                      *)

Top == Last(frames)

\* Compound statements go wherever the innermost body still takes a statement.
TakesStatement ==
    /\ pos < MaxPos
    /\ frames # <<>> => Top.body \in {"lines", "one"}

\* The frames after a statement was begun in the innermost body.
Counted(fs) ==
    IF fs # <<>> /\ Last(fs).body = "one"
    THEN [fs EXCEPT ![Len(fs)].body = "full"]
    ELSE fs

NextPos == pos' = pos + 1

Simple ==
    /\ TakesStatement
    /\ frames' = Counted(frames)
    /\ KeepScope
    /\ NextPos

\* The body of a compound statement is a generator of its own; its scope is
\* named after the position of the body.
OpenBody(kind, id, block, body) ==
    /\ TakesStatement
    /\ Len(frames) < MaxNesting
    /\ frames' = Append(Counted(frames),
                        [kind |-> kind, id |-> id, block |-> block, body |-> body])
    /\ EnterScope(<<"^", pos>>, ContinueLabel(kind, id), BreakLabel(kind, id))
    /\ NextPos

\* A body ends at its terminator, or after its only statement.
CloseBody(kind) ==
    /\ frames # <<>>
    /\ Top.kind = kind
    /\ Top.body \in {"lines", "full"}
    /\ frames' = Front(frames)
    /\ LeaveScope
    /\ UNCHANGED pos

\* The end of generate_block: only a body closed by 'end' gets its end label.
EndBlock(o) ==
    IF Top.body = "lines" THEN Define(o, <<"@end", Top.block>>) ELSE o

-----------------------------------------------------------------------------
(* Simple statements, generate_stmt.                                        *)

\* An expression statement, and a 'var' with an initial value: the value is
\* popped, or stored.
ExpressionStmt(e) ==
    /\ Simple
    /\ output' = Code(GenerateExp(output, e, uniqueid), -1)
    /\ uniqueid' = uniqueid + IdsOf(e)

\* A 'var' with no initial value, or a comment.
SilentStmt ==
    /\ Simple
    /\ UNCHANGED <<output, uniqueid>>

\* Faulty variant: the label is not tested for NULL.
JumpStmtUnchecked(label) ==
    /\ Simple
    /\ output' = Jump(output, label)
    /\ UNCHANGED uniqueid

\* generate_continue and generate_break emit nothing outside a loop.
JumpStmt(label) ==
    /\ Simple
    /\ output' = IF label = NoLabel THEN output ELSE Jump(output, label)
    /\ UNCHANGED uniqueid

ContinueStmt == JumpStmt(Innermost(continue_labels))

BreakStmt == JumpStmt(Innermost(break_labels))

\* generate_return: the value goes to the return register.
ReturnStmt(e) ==
    /\ Simple
    /\ output' = Code(Code(GenerateExp(output, e, uniqueid), -1), 0)
    /\ uniqueid' = uniqueid + IdsOf(e)

\* generate_return of a 'return' with no expression.
ReturnNothing ==
    /\ Simple
    /\ output' = Code(output, 0)
    /\ UNCHANGED uniqueid

-----------------------------------------------------------------------------
(* Loops, generator_while.c.                                                *)

\* Faulty variant: the block does not take its number from uniqueid.
OpenWhileSharedId(e, body) ==
    LET o1 == Define(output, <<"startwhile", uniqueid>>)
        o2 == GenerateExp(o1, e, uniqueid + 1)
        block == uniqueid + 1 + IdsOf(e)
    IN  /\ OpenBody("while", uniqueid, block, body)
        /\ output' = Branch(o2, <<"endwhile", uniqueid>>)
        /\ uniqueid' = block

OpenWhile(e, body) ==
    LET o1 == Define(output, <<"startwhile", uniqueid>>)
        o2 == GenerateExp(o1, e, uniqueid + 1)
        block == uniqueid + 1 + IdsOf(e)
    IN  /\ OpenBody("while", uniqueid, block, body)
        /\ output' = Branch(o2, <<"endwhile", uniqueid>>)
        /\ uniqueid' = block + 1

CloseWhile ==
    /\ CloseBody("while")
    /\ output' = Define(Jump(EndBlock(output), <<"startwhile", Top.id>>),
                        <<"endwhile", Top.id>>)
    /\ UNCHANGED uniqueid

\* The array, its length and the index stay on the stack during the loop.
OpenFor(e, body) ==
    LET o1 == Code(GenerateExp(output, e, uniqueid + 1), 2)
        o2 == Code(Define(o1, <<"startfor", uniqueid>>), 1)
        block == uniqueid + 1 + IdsOf(e)
    IN  /\ OpenBody("for", uniqueid, block, body)
        /\ output' = Code(Branch(o2, <<"endfor", uniqueid>>), 0)
        /\ uniqueid' = block + 1

\* Faulty variant: the end label stands after the stack was cleaned up.
CloseForLateLabel ==
    LET o1 == Code(Define(EndBlock(output), <<"continue", Top.id>>), 0)
        o2 == Code(Jump(o1, <<"startfor", Top.id>>), -3)
    IN  /\ CloseBody("for")
        /\ output' = Define(o2, <<"endfor", Top.id>>)
        /\ UNCHANGED uniqueid

\* Faulty variant: the length of the array is not counted in the cleanup.
CloseForShortCleanup ==
    LET o1 == Code(Define(EndBlock(output), <<"continue", Top.id>>), 0)
        o2 == Define(Jump(o1, <<"startfor", Top.id>>), <<"endfor", Top.id>>)
    IN  /\ CloseBody("for")
        /\ output' = Code(o2, -2)
        /\ UNCHANGED uniqueid

CloseFor ==
    LET o1 == Code(Define(EndBlock(output), <<"continue", Top.id>>), 0)
        o2 == Define(Jump(o1, <<"startfor", Top.id>>), <<"endfor", Top.id>>)
    IN  /\ CloseBody("for")
        /\ output' = Code(o2, -3)
        /\ UNCHANGED uniqueid

\* generate_do walks the body itself: it takes no number for a block.
OpenDo(body) ==
    /\ OpenBody("do", uniqueid, 0, body)
    /\ output' = Define(output, <<"@startdo", uniqueid>>)
    /\ uniqueid' = uniqueid + 1

CloseDoWhile(e) ==
    LET o1 == Define(output, <<"@while", Top.id>>)
        o2 == GenerateExp(o1, e, uniqueid)
    IN  /\ CloseBody("do")
        /\ output' = Branch(o2, <<"@startdo", Top.id>>)
        /\ uniqueid' = uniqueid + IdsOf(e)

\* A body closed by 'end' or 'loop' with no 'while' after it.
CloseDo ==
    /\ CloseBody("do")
    /\ output' = Define(output, <<"@enddo", Top.id>>)
    /\ UNCHANGED uniqueid

-----------------------------------------------------------------------------
(* Conditionals, generator_if.c.                                            *)

\* Faulty variant: the number of the labels is not used up.
OpenIfReusedId(e, body) ==
    LET id == uniqueid + IdsOf(e)
    IN  /\ OpenBody("if", id, 0, body)
        /\ output' = Branch(GenerateExp(output, e, uniqueid), <<"@else", id>>)
        /\ uniqueid' = id

OpenIf(e, body) ==
    LET id == uniqueid + IdsOf(e)
    IN  /\ OpenBody("if", id, 0, body)
        /\ output' = Branch(GenerateExp(output, e, uniqueid), <<"@else", id>>)
        /\ uniqueid' = id + 1

\* 'else' ends the first body of a multi-line if: its scope is left and
\* generate_block enters the scope of the else block, which starts here.
Else(body) ==
    LET o1 == Jump(output, <<"@endif", Top.id>>)
    IN  /\ frames # <<>>
        /\ Top.kind = "if"
        /\ Top.body = "lines"
        /\ pos < MaxPos
        /\ frames' = [frames EXCEPT ![Len(frames)] =
                         [kind |-> "else", id |-> Top.id, block |-> uniqueid, body |-> body]]
        /\ scope' = Append(Front(scope), <<"^", pos>>)
        /\ UNCHANGED <<continue_labels, break_labels>>
        /\ output' = Define(o1, <<"@else", Top.id>>)
        /\ uniqueid' = uniqueid + 1
        /\ NextPos

\* Faulty variant: the else label is emitted at 'end' only.
CloseIfAtEndOnly ==
    LET o1 == IF Top.body = "lines" THEN Define(output, <<"@else", Top.id>>) ELSE output
    IN  /\ CloseBody("if")
        /\ output' = Define(o1, <<"@endif", Top.id>>)
        /\ UNCHANGED uniqueid

\* Without an else, the else label is emitted at 'end' and, again, after the
\* body; an inline body has no 'end'.
CloseIf ==
    LET o1 == IF Top.body = "lines" THEN Define(output, <<"@else", Top.id>>) ELSE output
        o2 == Define(o1, <<"@else", Top.id>>)
    IN  /\ CloseBody("if")
        /\ output' = Define(o2, <<"@endif", Top.id>>)
        /\ UNCHANGED uniqueid

\* The end of the else block; generate_if enters its own scope once more, only
\* to leave it.
CloseElse ==
    /\ CloseBody("else")
    /\ output' = Define(EndBlock(output), <<"@endif", Top.id>>)
    /\ UNCHANGED uniqueid

-----------------------------------------------------------------------------
(* Functions and system calls, generator_functions.c.  They stand at the    *)
(* top level only.  generate_class calls generate_function with a prefix    *)
(* that makes the names of methods different from those of functions.       *)

\* A second definition of a name ends the compilation in populate_symbol_table.
Undefined(f) == \A d \in output.labels : d.label # <<"entry", f>>

OpenCallable(kind, f) ==
    /\ frames = <<>>
    /\ pos < MaxPos
    /\ Undefined(f)
    /\ frames' = <<[kind |-> kind, id |-> f, block |-> 0, body |-> "params"]>>
    /\ EnterScope(<<"function", f>>, NoLabel, NoLabel)
    /\ output' = Code(Define(Jump(output, <<"@__end", f>>), <<"entry", f>>), 0)
    /\ NextPos
    /\ UNCHANGED uniqueid

OpenFunction(f) == OpenCallable("function", f)
OpenSyscall(f) == OpenCallable("syscall", f)

\* The argument is tested; if it is empty, the default value is stored in it.
GenerateDefault(o, e, skip, id) ==
    LET o1 == GenerateExp(Branch(Code(o, 2), skip), e, id)
    IN  Code(Define(Code(o1, -1), skip), -1)

AtParam ==
    /\ frames # <<>>
    /\ Top.body = "params"
    /\ pos < MaxPos
    /\ NextPos
    /\ UNCHANGED <<frames, scope, continue_labels, break_labels>>

\* Faulty variant: the number of the skip label is not used up.
DefaultParamSharedId(e) ==
    /\ AtParam
    /\ output' = GenerateDefault(output, e, <<"@skip", uniqueid>>, uniqueid)
    /\ uniqueid' = uniqueid + IdsOf(e)

\* One round of generate_default_params for a parameter with a default value.
DefaultParam(e) ==
    /\ AtParam
    /\ output' = GenerateDefault(output, e, <<"@skip", uniqueid>>, uniqueid + 1)
    /\ uniqueid' = uniqueid + 1 + IdsOf(e)

\* The parameters are done; the statements of the body follow.
BeginFunctionBody ==
    /\ frames # <<>>
    /\ Top.kind = "function"
    /\ Top.body = "params"
    /\ frames' = [frames EXCEPT ![Len(frames)].body = "lines"]
    /\ UNCHANGED <<scope, continue_labels, break_labels, uniqueid, output, pos>>

\* The function returns, whatever its last statement was.
CloseFunction ==
    /\ CloseBody("function")
    /\ output' = Define(Code(output, 0), <<"@__end", Top.id>>)
    /\ UNCHANGED uniqueid

\* generate_syscall: the call itself and the return.
CloseSyscall ==
    /\ frames # <<>>
    /\ Top.kind = "syscall"
    /\ frames' = Front(frames)
    /\ LeaveScope
    /\ output' = Define(Code(output, 0), <<"@__end", Top.id>>)
    /\ UNCHANGED <<uniqueid, pos>>

-----------------------------------------------------------------------------

Init ==
    /\ frames = <<>>
    /\ scope = <<>>
    /\ continue_labels = <<>>
    /\ break_labels = <<>>
    /\ uniqueid = 0
    /\ output = [addr |-> 0, depth |-> 0, labels |-> {}, jumps |-> {}]
    /\ pos = 0

SimpleStmt ==
    \/ \E e \in Exps : ExpressionStmt(e) \/ ReturnStmt(e)
    \/ SilentStmt
    \/ ContinueStmt
    \/ BreakStmt
    \/ ReturnNothing

LoopStmt ==
    \/ \E e \in Exps, body \in {"lines", "one"} : OpenWhile(e, body) \/ OpenFor(e, body)
    \/ \E body \in {"lines", "one"} : OpenDo(body)
    \/ CloseWhile
    \/ CloseFor
    \/ \E e \in Exps : CloseDoWhile(e)
    \/ CloseDo

IfStmt ==
    \/ \E e \in Exps, body \in {"lines", "one"} : OpenIf(e, body)
    \/ \E body \in {"lines", "one"} : Else(body)
    \/ CloseIf
    \/ CloseElse

Callable ==
    \/ \E f \in Functions : OpenFunction(f) \/ OpenSyscall(f)
    \/ \E e \in Exps : DefaultParam(e)
    \/ BeginFunctionBody
    \/ CloseFunction
    \/ CloseSyscall

Next == SimpleStmt \/ LoopStmt \/ IfStmt \/ Callable

Spec == Init /\ [][Next]_vars

-----------------------------------------------------------------------------
(* Properties.                                                              *)

ScopeNames == ({"^"} \X Nat) \cup ({"function"} \X Functions)

\* Every variable holds a value of its type, and the label and scope stacks
\* of the generator have one entry per active generator.
TypeOK ==
    /\ frames \in Seq(Frame)
    /\ scope \in Seq(ScopeNames)
    /\ continue_labels \in Seq(Labels \cup {NoLabel})
    /\ break_labels \in Seq(Labels \cup {NoLabel})
    /\ uniqueid \in Nat
    /\ output \in Output
    /\ pos \in Nat

\* The innermost loop among the active generators, 0 if there is none.
InnermostLoop ==
    LET loops == {i \in DOMAIN frames : frames[i].kind \in LoopKinds}
    IN  IF loops = {} THEN 0 ELSE CHOOSE i \in loops : \A j \in loops : j <= i

\* break leaves, and continue repeats, the innermost loop around the statement
\* (generate_break and generate_continue): conditionals in between do not
\* capture them, and a loop that was closed or that surrounds a nearer loop
\* is never the target.
JumpsTargetInnermostLoop ==
    IF InnermostLoop = 0
    THEN Innermost(break_labels) = NoLabel /\ Innermost(continue_labels) = NoLabel
    ELSE LET loop == frames[InnermostLoop]
         IN  /\ Innermost(break_labels) = BreakLabel(loop.kind, loop.id)
             /\ Innermost(continue_labels) = ContinueLabel(loop.kind, loop.id)

\* A label names one place: it is never emitted at two addresses, by whatever
\* generators take numbers from uniqueid.  (generate_if emits an else label
\* twice, at the same address.)
LabelsAreUnique ==
    \A d1, d2 \in output.labels : d1.label = d2.label => d1 = d2

\* Code reached over a jump finds the operand stack as deep as the code that
\* falls into the label leaves it: a break or continue out of nested loops,
\* conditionals and for loops never leaves operands behind or takes some away.
JumpsKeepDepth ==
    \A j \in output.jumps, d \in output.labels :
        j.target = d.label => j.depth = d.depth

\* Between two statements the operand stack holds the three operands of every
\* for loop that is open, and nothing else.
StatementsAreBalanced ==
    output.depth = 3 * Cardinality({i \in DOMAIN frames : frames[i].kind = "for"})

\* The only backward jumps are those that repeat a loop: every loop exit, else
\* branch, and skipped value is a forward jump.
BackwardJumpsRepeatLoops ==
    \A j \in output.jumps, d \in output.labels :
        (j.target = d.label /\ d.addr <= j.addr) =>
            d.label[1] \in {"startwhile", "startfor", "@startdo"}

LabelAt(l) == (CHOOSE d \in output.labels : d.label = l).addr

\* The addresses of the body of a function that is complete.
BodyOf(f) ==
    LabelAt(<<"entry", f>>) .. (LabelAt(<<"@__end", f>>) - 1)

Complete(f) == \E d \in output.labels : d.label = <<"@__end", f>>

\* Control never jumps into the body of a function or out of it: a function is
\* entered by a call and left by a return.
JumpsStayInFunction ==
    \A f \in Functions : Complete(f) =>
        \A j \in output.jumps, d \in output.labels :
            (j.target = d.label /\ d.label # <<"entry", f>>) =>
                (j.addr \in BodyOf(f) <=> d.addr \in BodyOf(f))

Resolved(j) == \E d \in output.labels : d.label = j.target

\* A complete program defines every label it jumps to, but for the two labels
\* of generate_do that depend on whether the loop has a 'while' clause.
JumpsAreResolved ==
    frames = <<>> =>
        \A j \in output.jumps : j.target[1] \notin {"@while", "@enddo"} => Resolved(j)

\* test/frontend.cpp assembles everything the compiler produces and expects
\* the assembler to succeed: a complete program jumps to no undefined label.
AllJumpsAreResolved ==
    frames = <<>> => \A j \in output.jumps : Resolved(j)

=============================================================================
