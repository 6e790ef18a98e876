------------------------------ MODULE Machine ------------------------------
(***************************************************************************)
(* The virtual machine that runs the emitted assembly, as far as the       *)
(* generators rely on it.  The machine is not part of the repository: each *)
(* opcode is modelled from how the generators use it.                      *)
(*                                                                         *)
(* An instruction is a pair <<opcode, operand>>.  Values are symbolic:     *)
(* <<"lit", x>> a literal, <<"ref", f>> the address of function f,         *)
(* <<"bool", b>> an answer, <<"at", k>> what the k-th event produced.  An  *)
(* event is a triple <<opcode, operand, values consumed>> and log is the   *)
(* sequence of all events: two runs with the same log did the same things  *)
(* to the same values in the same order.                                   *)
(***************************************************************************)
EXTENDS Integers, Sequences, SequencesExt, TLC

CONSTANTS
    MaxTests, \* bound: how often an unknown value may count as true
    Methods   \* the functions of the program that items of these names hold

VARIABLES
    code,   \* the assembled program
    pc,     \* the next instruction
    stack,  \* operands, the last on top
    reg,    \* the registers
    calls,  \* frames of the active functions, innermost last
    scopes, \* the debugger's stack of scopes
    log     \* what has been done so far

machine == <<code, pc, stack, reg, calls, scopes, log>>

Registers == {"r0", "r1", "r2", "rr"}

Empty == <<"lit", "empty">>
\* What a function that was called may leave in a register.
Unknown == <<"lit", "unknown">>

MachineInit(frame) ==
    /\ code = <<>>
    /\ pc = 1
    /\ stack = <<>>
    /\ reg = [r \in Registers |-> Unknown]
    /\ calls = <<frame>>
    /\ scopes = <<>>
    /\ log = <<>>

-----------------------------------------------------------------------------
(* What an instruction takes from the stack, or needs to find there.        *)

Binary == {"add", "sub", "mul", "div", "mod", "pow", "lsh", "rsh", "and", "or",
           "xor", "lt", "le", "gt", "ge", "eq", "ne", "eq.id", "ne.id",
           "arr.range", "cmp", "ld.arrelem"}
Unary == {"not", "not.bitwise", "neg", "conv.str", "arr.len",
          "map.getprototype", "ld.mapitem", "has.mapitem"}
Stores == {"st.ref", "st.mapitem", "st.arrelem", "st.mapitem.pop"}
Computes == Binary \cup Unary \cup Stores
            \cup {"arr.slice", "ld.deref", "ld.boxingproto", "ld.map", "ld.arr"}

Takes(i) ==
    CASE i[1] \in Binary \cup {"st.mapitem"} -> 2
      [] i[1] \in Unary \cup {"st.ref", "st.reg", "st.local", "st.arg",
                              "is.empty", "brtrue", "brfalse", "bge"} -> 1
      [] i[1] \in {"arr.slice", "st.arrelem", "st.mapitem.pop"} -> 3
      [] i[1] \in {"ld.arr", "pop"} -> i[2]
      [] i[1] \in {"ld.stack", "st.stack", "call.pop"} -> i[2] + 1
      [] OTHER -> 0

Depth == Len(stack)
Frame == Last(calls)
Instr == code[pc]
Running == pc \in DOMAIN code

\* A function reaches only the operands it pushed itself.
Reaches(n) == Depth - n >= Frame.base

Top(k) == stack[Depth - k]
Drop(n) == SubSeq(stack, 1, Depth - n)
Above(n) == SubSeq(stack, Depth - n + 1, Depth)

\* What the event that is being logged produces.
Product(opcode, operand) ==
    IF opcode = "ld.mapitem" /\ operand \in DOMAIN Methods THEN <<"ref", Methods[operand]>>
    ELSE <<"at", Len(log')>>

Step(opcodes) ==
    /\ Running
    /\ Instr[1] \in opcodes
    /\ Reaches(Takes(Instr))
    /\ UNCHANGED code

Advance == pc' = pc + 1
Push(v) == stack' = Append(stack, v)
SetFrame(f) == calls' = [calls EXCEPT ![Len(calls)] = f]
Event(opcode, operand, values) == log' = Append(log, <<opcode, operand, values>>)

-----------------------------------------------------------------------------
(* Operands, registers and memory.                                          *)

Compute ==
    /\ Step(Computes)
    /\ Event(Instr[1], Instr[2], Above(Takes(Instr)))
    /\ stack' = Drop(Takes(Instr))
                \o IF Instr[1] \in Stores THEN <<>> ELSE <<Product(Instr[1], Instr[2])>>
    /\ Advance
    /\ UNCHANGED <<reg, calls, scopes>>

Literal ==
    /\ Step({"ld.lit", "ld.ref"})
    /\ Push(<<IF Instr[1] = "ld.lit" THEN "lit" ELSE "ref", Instr[2]>>)
    /\ Advance
    /\ UNCHANGED <<reg, calls, scopes, log>>

\* ld.stack -k; dup is ld.stack 0.
LoadStack ==
    /\ Step({"ld.stack"})
    /\ Push(Top(Instr[2]))
    /\ Advance
    /\ UNCHANGED <<reg, calls, scopes, log>>

\* st.stack -k stores the top k places below itself.
StoreStack ==
    /\ Step({"st.stack"})
    /\ stack' = Front([stack EXCEPT ![Depth - Instr[2]] = Top(0)])
    /\ Advance
    /\ UNCHANGED <<reg, calls, scopes, log>>

\* pop, and ajs -n.
Discard ==
    /\ Step({"pop"})
    /\ stack' = Drop(Instr[2])
    /\ Advance
    /\ UNCHANGED <<reg, calls, scopes, log>>

\* is.empty keeps its operand and pushes an answer, known for what is no event.
IsEmpty ==
    /\ Step({"is.empty"})
    /\ IF Top(0)[1] = "at"
       THEN /\ Event("is.empty", 0, <<Top(0)>>)
            /\ Push(<<"at", Len(log')>>)
       ELSE /\ Push(<<"bool", Top(0) = Empty>>)
            /\ UNCHANGED log
    /\ Advance
    /\ UNCHANGED <<reg, calls, scopes>>

StoreRegister ==
    /\ Step({"st.reg"})
    /\ reg' = [reg EXCEPT ![Instr[2]] = Top(0)]
    /\ stack' = Drop(1)
    /\ Advance
    /\ UNCHANGED <<calls, scopes, log>>

LoadRegister ==
    /\ Step({"ld.reg"})
    /\ Push(reg[Instr[2]])
    /\ Advance
    /\ UNCHANGED <<reg, calls, scopes, log>>

LoadVariable ==
    /\ Step({"ld.local", "ld.arg"})
    /\ Push((IF Instr[1] = "ld.local" THEN Frame.locals ELSE Frame.args)[Instr[2] + 1])
    /\ Advance
    /\ UNCHANGED <<reg, calls, scopes, log>>

StoreVariable ==
    /\ Step({"st.local", "st.arg"})
    /\ SetFrame(IF Instr[1] = "st.local"
                THEN [Frame EXCEPT !.locals[Instr[2] + 1] = Top(0)]
                ELSE [Frame EXCEPT !.args[Instr[2] + 1] = Top(0)])
    /\ stack' = Drop(1)
    /\ Advance
    /\ UNCHANGED <<reg, scopes, log>>

-----------------------------------------------------------------------------
(* Control.                                                                 *)

Address(label) == CHOOSE a \in DOMAIN code : code[a] = <<"label", label>>

Label ==
    /\ Step({"label"})
    /\ Advance
    /\ UNCHANGED <<stack, reg, calls, scopes, log>>

Jump ==
    /\ Step({"jmp"})
    /\ pc' = Address(Instr[2])
    /\ UNCHANGED <<stack, reg, calls, scopes, log>>

\* What a value counts as: unknown values may go either way.
Truths(v) ==
    CASE v[1] = "bool" -> {v[2]}
      [] v[1] = "at" -> IF Len(SelectSeq(log, LAMBDA e : e[1] = "test")) < MaxTests
                        THEN BOOLEAN ELSE {FALSE}
      [] OTHER -> {v \notin {Empty, <<"lit", "false">>}}

\* brfalse and brtrue; bge is taken when the comparison says that a loop is over.
Branch ==
    /\ Step({"brtrue", "brfalse", "bge"})
    /\ \E truth \in Truths(Top(0)) :
          /\ IF Top(0)[1] = "at" THEN Event("test", truth, <<Top(0)>>) ELSE UNCHANGED log
          /\ IF truth = (Instr[1] = "brtrue") THEN pc' = Address(Instr[2]) ELSE Advance
    /\ stack' = Drop(1)
    /\ UNCHANGED <<reg, calls, scopes>>

-----------------------------------------------------------------------------
(* Calls.  call.pop n takes the address and, below it, n arguments.         *)

Arguments == Front(Above(Instr[2] + 1))

\* A function of the program gets a frame.
Call ==
    /\ Step({"call.pop"})
    /\ Top(0)[1] = "ref"
    /\ calls' = Append(calls, [name |-> Top(0)[2], ret |-> pc + 1,
                               base |-> Depth - Instr[2] - 1,
                               args |-> Arguments, locals |-> <<>>])
    /\ pc' = Address(Top(0)[2])
    /\ stack' = Drop(Instr[2] + 1)
    /\ UNCHANGED <<reg, scopes, log>>

\* Any other function does what it likes with the registers.
CallUnknown ==
    /\ Step({"call.pop"})
    /\ Top(0)[1] # "ref"
    /\ Event("call", reg["r1"], <<Top(0)>> \o Arguments)
    /\ reg' = [r \in Registers |-> IF r = "rr" THEN <<"at", Len(log')>> ELSE Unknown]
    /\ stack' = Drop(Instr[2] + 1)
    /\ Advance
    /\ UNCHANGED <<calls, scopes>>

\* A system call finds its arguments on the stack and leaves them there.
SystemCall ==
    /\ Step({"syscall.byname"})
    /\ Event("syscall", Instr[2], SubSeq(stack, Frame.base + 1, Depth))
    /\ reg' = [r \in Registers |-> IF r = "rr" THEN <<"at", Len(log')>> ELSE Unknown]
    /\ Advance
    /\ UNCHANGED <<stack, calls, scopes>>

Accept ==
    /\ Step({"args.accept"})
    /\ SetFrame([Frame EXCEPT !.args = [i \in 1..Instr[2] |->
                    IF i \in DOMAIN Frame.args THEN Frame.args[i] ELSE Empty]])
    /\ Advance
    /\ UNCHANGED <<stack, reg, scopes, log>>

Reserve ==
    /\ Step({"locals.res"})
    /\ SetFrame([Frame EXCEPT !.locals = [i \in 1..Instr[2] |-> Empty]])
    /\ Advance
    /\ UNCHANGED <<stack, reg, scopes, log>>

\* locals.cleanup drops whatever operands stand above the locals.
Cleanup ==
    /\ Step({"locals.cleanup", "args.cleanup"})
    /\ IF Instr[1] = "locals.cleanup"
       THEN /\ SetFrame([Frame EXCEPT !.locals = <<>>])
            /\ stack' = SubSeq(stack, 1, Frame.base)
       ELSE /\ SetFrame([Frame EXCEPT !.args = <<>>])
            /\ UNCHANGED stack
    /\ Advance
    /\ UNCHANGED <<reg, scopes, log>>

\* The return address must be what the function finds on top.
CanReturn == Frame.locals = <<>> /\ Frame.args = <<>> /\ Depth = Frame.base

Return ==
    /\ Step({"ret"})
    /\ CanReturn
    /\ pc' = Frame.ret
    /\ calls' = Front(calls)
    /\ UNCHANGED <<stack, reg, scopes, log>>

EnterScope ==
    /\ Step({"debug.enterscope"})
    /\ scopes' = Append(scopes, Instr[2])
    /\ Advance
    /\ UNCHANGED <<stack, reg, calls, log>>

LeaveScope ==
    /\ Step({"debug.leavescope"})
    /\ scopes # <<>>
    /\ scopes' = Front(scopes)
    /\ Advance
    /\ UNCHANGED <<stack, reg, calls, log>>

MachineNext ==
    \/ Compute \/ Literal \/ LoadStack \/ StoreStack \/ Discard \/ IsEmpty
    \/ StoreRegister \/ LoadRegister \/ LoadVariable \/ StoreVariable
    \/ Label \/ Jump \/ Branch
    \/ Call \/ CallUnknown \/ SystemCall \/ Accept \/ Reserve \/ Cleanup \/ Return
    \/ EnterScope \/ LeaveScope

=============================================================================
