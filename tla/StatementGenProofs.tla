------------------------- MODULE StatementGenProofs -------------------------
(***************************************************************************)
(* Proofs about StatementGen, for every set of function names, every set   *)
(* of expression shapes and every bound: types, that the stacks match the  *)
(* active generators, that labels are unique, and where jumps lead.        *)
(***************************************************************************)
EXTENDS StatementGen, ProofLemmas, FiniteSetTheorems

-----------------------------------------------------------------------------
(* Types.                                                                   *)

\* The emitters of append_output build an Output from an Output.
LEMMA CodeType ==
    ASSUME NEW o \in Output, NEW d \in Int
    PROVE  Code(o, d) \in Output /\ AtDepth(o, d) \in Output
BY DEF Code, AtDepth, Output

LEMMA EmitType ==
    ASSUME NEW o \in Output, NEW l \in Labels
    PROVE  /\ Define(o, l) \in Output
           /\ Jump(o, l) \in Output
           /\ Branch(o, l) \in Output
<1>1. Define(o, l) \in Output
  BY DEF Define, Output
<1>2. Jump(o, l) \in Output
  BY DEF Jump, Output
<1>3. Branch(o, l) \in Output
  BY DEF Branch, Output
<1> QED
  BY <1>1, <1>2, <1>3

\* A number and a kind make a label.
LEMMA NumberedLabel ==
    ASSUME NEW kind \in NumberedKinds, NEW id \in Nat
    PROVE  <<kind, id>> \in Labels
BY DEF Labels

\* So does the code of an expression.
LEMMA ExpType ==
    ASSUME NEW o \in Output, NEW e \in Exps, NEW id \in Nat
    PROVE  GenerateExp(o, e, id) \in Output
<1>0. e \in ExpShapes
  BY ExpsAssumption
<1>1. ASSUME NEW l \in Labels
      PROVE  ShortCircuit(o, l) \in Output
  BY CodeType, EmitType DEF ShortCircuit
<1>2. Ternary(o, id) \in Output
  <2> DEFINE o1 == Branch(Code(o, 1), <<"@else", id>>)
             o2 == Jump(Code(o1, 1), <<"@endif", id>>)
             o3 == Define(AtDepth(o2, o.depth), <<"@else", id>>)
  <2>1. <<"@else", id>> \in Labels /\ <<"@endif", id>> \in Labels
    BY NumberedLabel DEF NumberedKinds
  <2>2. o1 \in Output
    BY <2>1, CodeType, EmitType
  <2>3. o2 \in Output
    <3> HIDE DEF o1
    <3> QED BY <2>1, <2>2, CodeType, EmitType
  <2>4. o3 \in Output
    <3> HIDE DEF o2
    <3>1. o.depth \in Int
      BY DEF Output
    <3> QED BY <2>1, <2>3, <3>1, CodeType, EmitType
  <2>5. Define(Code(o3, 1), <<"@endif", id>>) \in Output
    <3> HIDE DEF o3
    <3> QED BY <2>1, <2>4, CodeType, EmitType
  <2> QED
    BY <2>5 DEF Ternary
<1>3. NewObject(o, id) \in Output
  <2> DEFINE o1 == Branch(Code(o, 3), <<"@skip", id>>)
             o2 == Define(Code(o1, 0), <<"@skip", id>>)
  <2>1. <<"@skip", id>> \in Labels /\ <<"@end", id>> \in Labels
    BY NumberedLabel DEF NumberedKinds
  <2>2. o1 \in Output
    BY <2>1, CodeType, EmitType
  <2>3. o2 \in Output
    <3> HIDE DEF o1
    <3> QED BY <2>1, <2>2, CodeType, EmitType
  <2>4. Define(Code(o2, -1), <<"@end", id>>) \in Output
    <3> HIDE DEF o2
    <3> QED BY <2>1, <2>3, CodeType, EmitType
  <2> QED
    BY <2>4 DEF NewObject
<1>4. <<"endand", id>> \in Labels /\ <<"endor", id>> \in Labels /\ <<"@skip", id>> \in Labels
  BY NumberedLabel DEF NumberedKinds
<1>5. Code(o, 1) \in Output
  BY CodeType
<1>6. Super(o, id) \in Output
  BY <1>1, <1>4, CodeType DEF Super
<1> QED
  BY <1>0, <1>1, <1>2, <1>3, <1>4, <1>5, <1>6 DEF ExpShapes, GenerateExp

LEMMA DefaultType ==
    ASSUME NEW o \in Output, NEW e \in Exps, NEW skip \in Labels, NEW id \in Nat
    PROVE  GenerateDefault(o, e, skip, id) \in Output
<1> DEFINE o1 == Branch(Code(o, 2), skip)
           o2 == GenerateExp(o1, e, id)
<1>1. o1 \in Output
  BY CodeType, EmitType
<1> HIDE DEF o1
<1>2. o2 \in Output
  BY <1>1, ExpType
<1> HIDE DEF o2
<1>3. Code(Define(Code(o2, -1), skip), -1) \in Output
  BY <1>2, CodeType, EmitType
<1> QED
  BY <1>3 DEF GenerateDefault, o2, o1

-----------------------------------------------------------------------------
(* The stacks.                                                              *)

\* The scope and label stacks have one entry per frame, and the label entries
\* are the ones that the generator of the frame registered.
StacksMatch ==
    /\ Len(scope) = Len(frames)
    /\ Len(continue_labels) = Len(frames)
    /\ Len(break_labels) = Len(frames)
    /\ \A i \in 1..Len(frames) :
          /\ continue_labels[i] = ContinueLabel(frames[i].kind, frames[i].id)
          /\ break_labels[i] = BreakLabel(frames[i].kind, frames[i].id)

StackInv ==
    /\ frames \in Seq(Frame)
    /\ scope \in Seq(ScopeNames)
    /\ continue_labels \in Seq(Labels \cup {NoLabel})
    /\ break_labels \in Seq(Labels \cup {NoLabel})
    /\ pos \in Nat
    /\ StacksMatch

LEMMA LastProperties ==
    ASSUME NEW S, NEW s \in Seq(S), s # <<>>
    PROVE  Last(s) = s[Len(s)] /\ Last(s) \in S
BY DEF Last

\* Marking a body as full changes neither the kind nor the number of a frame.
LEMMA CountedProperties ==
    ASSUME NEW fs \in Seq(Frame)
    PROVE  /\ Counted(fs) \in Seq(Frame)
           /\ Len(Counted(fs)) = Len(fs)
           /\ \A i \in 1..Len(fs) :
                 /\ Counted(fs)[i].kind = fs[i].kind
                 /\ Counted(fs)[i].id = fs[i].id
                 /\ Counted(fs)[i].block = fs[i].block
<1>1. CASE fs # <<>> /\ Last(fs).body = "one"
  <2> DEFINE fr == fs[Len(fs)]
             full == [fr EXCEPT !.body = "full"]
  <2>1. Len(fs) \in 1..Len(fs) /\ fr \in Frame /\ fr.body = "one"
    BY <1>1, LastProperties
  <2>2. full \in Frame /\ full.kind = fr.kind /\ full.id = fr.id /\ full.block = fr.block
    BY <2>1 DEF Frame
  <2>3. Counted(fs) = [fs EXCEPT ![Len(fs)] = full]
    BY <1>1 DEF Counted
  <2> HIDE DEF full
  <2> QED
    BY <2>1, <2>2, <2>3
<1>2. CASE ~(fs # <<>> /\ Last(fs).body = "one")
  BY <1>2 DEF Counted
<1> QED
  BY <1>1, <1>2

LEMMA SimpleKeepsStacks ==
    StackInv /\ Simple => StackInv'
<1> SUFFICES ASSUME StackInv, Simple PROVE StackInv'
  OBVIOUS
<1>1. /\ frames' \in Seq(Frame)
      /\ Len(frames') = Len(frames)
      /\ \A i \in 1..Len(frames) :
            frames'[i].kind = frames[i].kind /\ frames'[i].id = frames[i].id
  BY CountedProperties DEF StackInv, Simple
<1> QED
  BY <1>1 DEF StackInv, StacksMatch, Simple, KeepScope, NextPos

LEMMA LoopLabelType ==
    ASSUME NEW kind \in StatementKinds, NEW id \in Nat
    PROVE  /\ ContinueLabel(kind, id) \in Labels \cup {NoLabel}
           /\ BreakLabel(kind, id) \in Labels \cup {NoLabel}
BY NumberedLabel
   DEF ContinueLabel, BreakLabel, StatementKinds, LoopKinds, NumberedKinds

LEMMA OpenBodyKeepsStacks ==
    ASSUME StackInv,
           NEW kind \in StatementKinds, NEW id \in Nat, NEW block \in Nat,
           NEW body \in {"lines", "one"},
           OpenBody(kind, id, block, body)
    PROVE  StackInv'
<1> DEFINE fr == [kind |-> kind, id |-> id, block |-> block, body |-> body]
           fs == Counted(frames)
<1>1. fr \in Frame
  BY DEF Frame
<1>2. /\ fs \in Seq(Frame)
      /\ Len(fs) = Len(frames)
      /\ \A i \in 1..Len(frames) :
            fs[i].kind = frames[i].kind /\ fs[i].id = frames[i].id
  BY CountedProperties DEF StackInv
<1>3. frames' = Append(fs, fr) /\ fr.kind = kind /\ fr.id = id
  BY DEF OpenBody
<1>4. <<"^", pos>> \in ScopeNames
  BY DEF StackInv, ScopeNames
<1>5. /\ scope' = Append(scope, <<"^", pos>>)
      /\ continue_labels' = Append(continue_labels, ContinueLabel(kind, id))
      /\ break_labels' = Append(break_labels, BreakLabel(kind, id))
      /\ pos' = pos + 1
  BY DEF OpenBody, EnterScope, NextPos
<1>6. /\ ContinueLabel(kind, id) \in Labels \cup {NoLabel}
      /\ BreakLabel(kind, id) \in Labels \cup {NoLabel}
  BY LoopLabelType
<1> HIDE DEF fr, fs
<1>7. /\ frames' \in Seq(Frame)
      /\ scope' \in Seq(ScopeNames)
      /\ continue_labels' \in Seq(Labels \cup {NoLabel})
      /\ break_labels' \in Seq(Labels \cup {NoLabel})
      /\ pos' \in Nat
  BY <1>1, <1>2, <1>3, <1>4, <1>5, <1>6 DEF StackInv
<1>8. StacksMatch'
  <2>1. /\ Len(frames') = Len(frames) + 1
        /\ Len(scope') = Len(scope) + 1
        /\ Len(continue_labels') = Len(continue_labels) + 1
        /\ Len(break_labels') = Len(break_labels) + 1
    BY <1>2, <1>3, <1>5 DEF StackInv
  <2>2. ASSUME NEW i \in 1..Len(frames)
        PROVE  /\ frames'[i] = fs[i]
               /\ continue_labels'[i] = continue_labels[i]
               /\ break_labels'[i] = break_labels[i]
    BY <1>2, <1>3, <1>5 DEF StackInv, StacksMatch
  <2>3. /\ frames'[Len(frames) + 1] = fr
        /\ continue_labels'[Len(frames) + 1] = ContinueLabel(kind, id)
        /\ break_labels'[Len(frames) + 1] = BreakLabel(kind, id)
    BY <1>2, <1>3, <1>5 DEF StackInv, StacksMatch
  <2>4. Len(frames) \in Nat
    BY DEF StackInv
  <2>5. \A i \in 1..(Len(frames) + 1) : i \in 1..Len(frames) \/ i = Len(frames) + 1
    BY <2>4
  <2>6. ASSUME NEW i \in 1..Len(frames)
        PROVE  /\ continue_labels'[i] = ContinueLabel(frames'[i].kind, frames'[i].id)
               /\ break_labels'[i] = BreakLabel(frames'[i].kind, frames'[i].id)
    BY <1>2, <2>2 DEF StackInv, StacksMatch
  <2>7. Len(scope) = Len(frames) /\ Len(continue_labels) = Len(frames) /\ Len(break_labels) = Len(frames)
    BY DEF StackInv, StacksMatch
  <2> QED
    BY <1>3, <2>1, <2>3, <2>5, <2>6, <2>7 DEF StacksMatch
<1> QED
  BY <1>7, <1>8 DEF StackInv

\* Closing any generator removes the last entry of every stack.
LEMMA PopKeepsStacks ==
    ASSUME StackInv, frames # <<>>, frames' = Front(frames), LeaveScope, UNCHANGED pos
    PROVE  StackInv'
<1>1. /\ scope # <<>> /\ continue_labels # <<>> /\ break_labels # <<>>
      /\ Len(frames) \in Nat \ {0}
  BY DEF StackInv, StacksMatch
<1>2. /\ frames' \in Seq(Frame)
      /\ Len(frames') = Len(frames) - 1
      /\ \A i \in 1..(Len(frames) - 1) : frames'[i] = frames[i]
  BY FrontProperties DEF StackInv
<1>3. /\ scope' \in Seq(ScopeNames)
      /\ Len(scope') = Len(scope) - 1
  BY <1>1, FrontProperties DEF StackInv, LeaveScope
<1>4. /\ continue_labels' \in Seq(Labels \cup {NoLabel})
      /\ Len(continue_labels') = Len(continue_labels) - 1
      /\ \A i \in 1..(Len(frames) - 1) : continue_labels'[i] = continue_labels[i]
  BY <1>1, FrontProperties DEF StackInv, StacksMatch, LeaveScope
<1>5. /\ break_labels' \in Seq(Labels \cup {NoLabel})
      /\ Len(break_labels') = Len(break_labels) - 1
      /\ \A i \in 1..(Len(frames) - 1) : break_labels'[i] = break_labels[i]
  BY <1>1, FrontProperties DEF StackInv, StacksMatch, LeaveScope
<1> QED
  BY <1>1, <1>2, <1>3, <1>4, <1>5 DEF StackInv, StacksMatch

\* Replacing the innermost frame by one that registers the same labels.
LEMMA ReplaceKeepsStacks ==
    ASSUME StackInv, frames # <<>>,
           NEW fr \in Frame,
           ContinueLabel(fr.kind, fr.id) = ContinueLabel(Top.kind, Top.id),
           BreakLabel(fr.kind, fr.id) = BreakLabel(Top.kind, Top.id),
           frames' = [frames EXCEPT ![Len(frames)] = fr],
           Len(scope') = Len(scope), scope' \in Seq(ScopeNames),
           UNCHANGED <<continue_labels, break_labels>>,
           pos' \in Nat
    PROVE  StackInv'
<1>1. Top = frames[Len(frames)] /\ Len(frames) \in 1..Len(frames)
  BY LastProperties DEF StackInv, Top
<1>2. frames' \in Seq(Frame) /\ Len(frames') = Len(frames)
  BY DEF StackInv
<1>3. \A i \in 1..Len(frames) : frames'[i] = IF i = Len(frames) THEN fr ELSE frames[i]
  BY DEF StackInv
<1> QED
  BY <1>1, <1>2, <1>3 DEF StackInv, StacksMatch

LEMMA ElseKeepsStacks ==
    ASSUME StackInv, uniqueid \in Nat, NEW body \in {"lines", "one"}, Else(body)
    PROVE  StackInv'
<1> DEFINE fr == [kind |-> "else", id |-> Top.id, block |-> uniqueid, body |-> body]
<1>1. frames # <<>> /\ Top.kind = "if" /\ frames' = [frames EXCEPT ![Len(frames)] = fr]
  BY DEF Else
<1>2. Top \in Frame
  BY <1>1, LastProperties DEF StackInv, Top
<1>3. fr \in Frame /\ fr.kind = "else" /\ fr.id = Top.id
  BY <1>1, <1>2 DEF Frame, StatementKinds, CallableKinds, LoopKinds
<1>4. /\ ContinueLabel(fr.kind, fr.id) = ContinueLabel(Top.kind, Top.id)
      /\ BreakLabel(fr.kind, fr.id) = BreakLabel(Top.kind, Top.id)
  BY <1>1, <1>3 DEF ContinueLabel, BreakLabel
<1>5. <<"^", pos>> \in ScopeNames
  BY DEF StackInv, ScopeNames
<1>6. scope # <<>> /\ Len(scope) \in Nat
  BY <1>1 DEF StackInv, StacksMatch
<1>7. scope' = Append(Front(scope), <<"^", pos>>)
  BY DEF Else
<1>8. Front(scope) \in Seq(ScopeNames) /\ Len(Front(scope)) = Len(scope) - 1
  BY <1>6, FrontProperties DEF StackInv
<1>9. scope' \in Seq(ScopeNames) /\ Len(scope') = Len(scope)
  BY <1>5, <1>6, <1>7, <1>8
<1>10. UNCHANGED <<continue_labels, break_labels>> /\ pos' \in Nat
  BY DEF Else, NextPos, StackInv
<1> HIDE DEF fr
<1> QED
  BY <1>1, <1>3, <1>4, <1>9, <1>10, ReplaceKeepsStacks

LEMMA OpenCallableKeepsStacks ==
    ASSUME StackInv, NEW kind \in CallableKinds, NEW f \in Functions, OpenCallable(kind, f)
    PROVE  StackInv'
<1> DEFINE fr == [kind |-> kind, id |-> f, block |-> 0, body |-> "params"]
<1>1. fr \in Frame /\ fr.kind = kind /\ fr.id = f
  BY DEF Frame
<1>2. frames' = <<fr>>
  BY DEF OpenCallable
<1>3. /\ ContinueLabel(kind, f) = NoLabel
      /\ BreakLabel(kind, f) = NoLabel
  BY DEF ContinueLabel, BreakLabel, CallableKinds
<1>4. scope = <<>> /\ continue_labels = <<>> /\ break_labels = <<>>
  BY DEF StackInv, StacksMatch, OpenCallable
<1>5. /\ scope' = <<<<"function", f>>>>
      /\ continue_labels' = <<NoLabel>>
      /\ break_labels' = <<NoLabel>>
      /\ pos' \in Nat
  BY <1>4 DEF OpenCallable, EnterScope, NextPos, StackInv
<1>6. <<"function", f>> \in ScopeNames
  BY DEF ScopeNames
<1> HIDE DEF fr
<1> QED
  BY <1>1, <1>2, <1>3, <1>5, <1>6 DEF StackInv, StacksMatch

LEMMA BeginFunctionBodyKeepsStacks ==
    ASSUME StackInv, BeginFunctionBody
    PROVE  StackInv'
<1> DEFINE fr == [Top EXCEPT !.body = "lines"]
<1>1. /\ frames # <<>> /\ Top = frames[Len(frames)] /\ Top \in Frame
      /\ Top.kind = "function"
  BY LastProperties DEF StackInv, BeginFunctionBody, Top
<1>2. fr \in Frame /\ fr.kind = Top.kind /\ fr.id = Top.id
  BY <1>1 DEF Frame, CallableKinds, StatementKinds, LoopKinds
<1>3. frames' = [frames EXCEPT ![Len(frames)] = fr]
  BY <1>1 DEF BeginFunctionBody
<1>4. /\ scope' = scope /\ pos' = pos
      /\ UNCHANGED <<continue_labels, break_labels>>
  BY DEF BeginFunctionBody
<1> HIDE DEF fr
<1> QED
  BY <1>1, <1>2, <1>3, <1>4, ReplaceKeepsStacks DEF StackInv

-----------------------------------------------------------------------------
(* Type correctness.                                                        *)

TypeInv == StackInv /\ uniqueid \in Nat /\ output \in Output

LEMMA IdsOfType == \A e \in Exps : IdsOf(e) \in {0, 1}
BY DEF IdsOf

LEMMA TopType ==
    ASSUME StackInv, frames # <<>>
    PROVE  /\ Top \in Frame
           /\ Top.kind \in StatementKinds => Top.id \in Nat /\ Top.block \in Nat
           /\ Top.kind \in CallableKinds => Top.id \in Functions
BY LastProperties
   DEF StackInv, Top, Frame, StatementKinds, LoopKinds, CallableKinds

LEMMA EndBlockType ==
    ASSUME NEW o \in Output, StackInv, frames # <<>>, Top.kind \in StatementKinds
    PROVE  EndBlock(o) \in Output
BY TopType, EmitType, NumberedLabel DEF EndBlock, NumberedKinds

LEMMA InnermostType ==
    ASSUME NEW labels \in Seq(Labels \cup {NoLabel})
    PROVE  Innermost(labels) \in Labels \cup {NoLabel}
<1> DEFINE set == {i \in DOMAIN labels : labels[i] # NoLabel}
<1>1. CASE set = {}
  BY <1>1 DEF Innermost
<1>2. CASE set # {}
  <2>1. PICK n \in set : \A j \in set : j <= n
    <3>1. set \subseteq 1..Len(labels) /\ Len(labels) \in Nat
      OBVIOUS
    <3> HIDE DEF set
    <3> QED BY <1>2, <3>1, GreatestElement
  <2> QED
    BY <1>2, <2>1 DEF Innermost
<1> QED
  BY <1>1, <1>2

LEMMA SimpleStmtType ==
    ASSUME TypeInv, SimpleStmt
    PROVE  TypeInv'
<1>1. ASSUME NEW e \in Exps, ExpressionStmt(e) \/ ReturnStmt(e)
      PROVE  TypeInv'
  <2>1. Simple
    BY <1>1 DEF ExpressionStmt, ReturnStmt
  <2>2. GenerateExp(output, e, uniqueid) \in Output
    BY ExpType DEF TypeInv
  <2>3. Code(GenerateExp(output, e, uniqueid), -1) \in Output
    BY <2>2, CodeType
  <2>4. output' \in Output
    BY <1>1, <2>3, CodeType DEF ExpressionStmt, ReturnStmt
  <2>5. uniqueid' \in Nat
    BY <1>1, IdsOfType DEF TypeInv, ExpressionStmt, ReturnStmt
  <2> QED
    BY <2>1, <2>4, <2>5, SimpleKeepsStacks DEF TypeInv
<1>2. ASSUME NEW l \in Labels \cup {NoLabel}, JumpStmt(l)
      PROVE  TypeInv'
  BY <1>2, SimpleKeepsStacks, EmitType DEF TypeInv, JumpStmt
<1>3. CASE SilentStmt
  BY <1>3, SimpleKeepsStacks DEF TypeInv, SilentStmt
<1>4. CASE ContinueStmt
  BY <1>2, <1>4, InnermostType DEF ContinueStmt, TypeInv, StackInv
<1>5. CASE BreakStmt
  BY <1>2, <1>5, InnermostType DEF BreakStmt, TypeInv, StackInv
<1>6. CASE ReturnNothing
  BY <1>6, SimpleKeepsStacks, CodeType DEF TypeInv, ReturnNothing
<1> QED
  BY <1>1, <1>3, <1>4, <1>5, <1>6 DEF SimpleStmt

LEMMA LoopStmtType ==
    ASSUME TypeInv, LoopStmt
    PROVE  TypeInv'
<1>0. /\ StackInv /\ uniqueid \in Nat /\ output \in Output
      /\ \A kind \in NumberedKinds, n \in Nat : <<kind, n>> \in Labels
  BY NumberedLabel DEF TypeInv
<1>1. ASSUME NEW e \in Exps, NEW body \in {"lines", "one"}, OpenWhile(e, body)
      PROVE  TypeInv'
  <2> DEFINE o1 == Define(output, <<"startwhile", uniqueid>>)
             o2 == GenerateExp(o1, e, uniqueid + 1)
             block == uniqueid + 1 + IdsOf(e)
  <2>1. o1 \in Output
    BY <1>0, EmitType DEF NumberedKinds
  <2>2. o2 \in Output
    <3> HIDE DEF o1
    <3> QED BY <1>0, <2>1, ExpType
  <2>3. Branch(o2, <<"endwhile", uniqueid>>) \in Output
    <3> HIDE DEF o2
    <3> QED BY <1>0, <2>2, EmitType DEF NumberedKinds
  <2>4. block \in Nat /\ block + 1 \in Nat
    BY <1>0, IdsOfType
  <2>5. /\ OpenBody("while", uniqueid, block, body)
        /\ output' = Branch(o2, <<"endwhile", uniqueid>>)
        /\ uniqueid' = block + 1
    BY <1>1 DEF OpenWhile
  <2>6. StackInv'
    <3> HIDE DEF block
    <3> QED BY <1>0, <2>4, <2>5, OpenBodyKeepsStacks DEF StatementKinds, LoopKinds
  <2> QED
    BY <2>3, <2>4, <2>5, <2>6 DEF TypeInv
<1>2. ASSUME NEW e \in Exps, NEW body \in {"lines", "one"}, OpenFor(e, body)
      PROVE  TypeInv'
  <2> DEFINE o1 == Code(GenerateExp(output, e, uniqueid + 1), 2)
             o2 == Code(Define(o1, <<"startfor", uniqueid>>), 1)
             block == uniqueid + 1 + IdsOf(e)
  <2>1. o1 \in Output
    BY <1>0, ExpType, CodeType
  <2>2. o2 \in Output
    <3> HIDE DEF o1
    <3> QED BY <1>0, <2>1, EmitType, CodeType DEF NumberedKinds
  <2>3. Code(Branch(o2, <<"endfor", uniqueid>>), 0) \in Output
    <3> HIDE DEF o2
    <3> QED BY <1>0, <2>2, EmitType, CodeType DEF NumberedKinds
  <2>4. block \in Nat /\ block + 1 \in Nat
    BY <1>0, IdsOfType
  <2>5. /\ OpenBody("for", uniqueid, block, body)
        /\ output' = Code(Branch(o2, <<"endfor", uniqueid>>), 0)
        /\ uniqueid' = block + 1
    BY <1>2 DEF OpenFor
  <2>6. StackInv'
    <3> HIDE DEF block
    <3> QED BY <1>0, <2>4, <2>5, OpenBodyKeepsStacks DEF StatementKinds, LoopKinds
  <2> QED
    BY <2>3, <2>4, <2>5, <2>6 DEF TypeInv
<1>3. ASSUME NEW body \in {"lines", "one"}, OpenDo(body)
      PROVE  TypeInv'
  BY <1>0, <1>3, OpenBodyKeepsStacks, EmitType
     DEF TypeInv, OpenDo, StatementKinds, LoopKinds, NumberedKinds
<1>4. ASSUME NEW kind \in LoopKinds, CloseBody(kind)
      PROVE  /\ StackInv'
             /\ Top.id \in Nat
             /\ EndBlock(output) \in Output
  <2>1. frames # <<>> /\ Top.kind \in StatementKinds
    BY <1>4 DEF CloseBody, StatementKinds
  <2>2. StackInv'
    BY <1>0, <1>4, <2>1, PopKeepsStacks DEF CloseBody
  <2> QED
    BY <1>0, <2>1, <2>2, TopType, EndBlockType
<1>5. CASE CloseWhile
  <2> DEFINE o1 == Jump(EndBlock(output), <<"startwhile", Top.id>>)
  <2>1. CloseBody("while") /\ UNCHANGED uniqueid
        /\ output' = Define(o1, <<"endwhile", Top.id>>)
    BY <1>5 DEF CloseWhile
  <2>2. StackInv' /\ Top.id \in Nat /\ EndBlock(output) \in Output
    BY <1>4, <2>1 DEF LoopKinds
  <2>3. o1 \in Output
    BY <1>0, <2>2, EmitType DEF NumberedKinds
  <2>4. output' \in Output
    <3> HIDE DEF o1
    <3> QED BY <1>0, <2>1, <2>2, <2>3, EmitType DEF NumberedKinds
  <2> QED
    BY <1>0, <2>1, <2>2, <2>4 DEF TypeInv
<1>6. CASE CloseFor
  <2> DEFINE o1 == Code(Define(EndBlock(output), <<"continue", Top.id>>), 0)
             o2 == Define(Jump(o1, <<"startfor", Top.id>>), <<"endfor", Top.id>>)
  <2>1. CloseBody("for") /\ UNCHANGED uniqueid /\ output' = Code(o2, -3)
    BY <1>6 DEF CloseFor
  <2>2. StackInv' /\ Top.id \in Nat /\ EndBlock(output) \in Output
    BY <1>4, <2>1 DEF LoopKinds
  <2>3. o1 \in Output
    BY <1>0, <2>2, EmitType, CodeType DEF NumberedKinds
  <2>4. o2 \in Output
    <3> HIDE DEF o1
    <3>1. Jump(o1, <<"startfor", Top.id>>) \in Output
      BY <1>0, <2>2, <2>3, EmitType DEF NumberedKinds
    <3> QED BY <1>0, <2>2, <3>1, EmitType DEF NumberedKinds
  <2>5. output' \in Output
    <3> HIDE DEF o2
    <3> QED BY <2>1, <2>4, CodeType
  <2> QED
    BY <1>0, <2>1, <2>2, <2>5 DEF TypeInv
<1>7. ASSUME NEW e \in Exps, CloseDoWhile(e)
      PROVE  TypeInv'
  <2> DEFINE o1 == Define(output, <<"@while", Top.id>>)
             o2 == GenerateExp(o1, e, uniqueid)
  <2>1. /\ CloseBody("do")
        /\ output' = Branch(o2, <<"@startdo", Top.id>>)
        /\ uniqueid' = uniqueid + IdsOf(e)
    BY <1>7 DEF CloseDoWhile
  <2>2. StackInv' /\ Top.id \in Nat
    BY <1>4, <2>1 DEF LoopKinds
  <2>3. o1 \in Output
    BY <1>0, <2>2, EmitType DEF NumberedKinds
  <2>4. o2 \in Output
    <3> HIDE DEF o1
    <3> QED BY <1>0, <2>3, ExpType
  <2>5. output' \in Output
    <3> HIDE DEF o2
    <3> QED BY <1>0, <2>1, <2>2, <2>4, EmitType DEF NumberedKinds
  <2> QED
    BY <1>0, <2>1, <2>2, <2>5, IdsOfType DEF TypeInv
<1>8. CASE CloseDo
  BY <1>0, <1>4, <1>8, EmitType DEF TypeInv, CloseDo, LoopKinds, NumberedKinds
<1> QED
  BY <1>1, <1>2, <1>3, <1>5, <1>6, <1>7, <1>8 DEF LoopStmt

LEMMA IfStmtType ==
    ASSUME TypeInv, IfStmt
    PROVE  TypeInv'
<1>0. /\ StackInv /\ uniqueid \in Nat /\ output \in Output
      /\ \A kind \in NumberedKinds, n \in Nat : <<kind, n>> \in Labels
  BY NumberedLabel DEF TypeInv
<1>1. ASSUME NEW e \in Exps, NEW body \in {"lines", "one"}, OpenIf(e, body)
      PROVE  TypeInv'
  <2> DEFINE id == uniqueid + IdsOf(e)
             o1 == GenerateExp(output, e, uniqueid)
  <2>1. /\ OpenBody("if", id, 0, body)
        /\ output' = Branch(o1, <<"@else", id>>)
        /\ uniqueid' = id + 1
    BY <1>1 DEF OpenIf
  <2>2. id \in Nat /\ id + 1 \in Nat
    BY <1>0, IdsOfType
  <2>3. o1 \in Output
    BY <1>0, ExpType
  <2> HIDE DEF id, o1
  <2>4. StackInv'
    BY <1>0, <2>1, <2>2, OpenBodyKeepsStacks DEF StatementKinds
  <2>5. output' \in Output
    BY <1>0, <2>1, <2>2, <2>3, EmitType DEF NumberedKinds
  <2> QED
    BY <2>1, <2>2, <2>4, <2>5 DEF TypeInv
<1>2. ASSUME NEW body \in {"lines", "one"}, Else(body)
      PROVE  TypeInv'
  <2>1. StackInv'
    BY <1>0, <1>2, ElseKeepsStacks
  <2>2. Top.id \in Nat
    BY <1>0, <1>2, TopType DEF Else, StatementKinds
  <2>3. Jump(output, <<"@endif", Top.id>>) \in Output
    BY <1>0, <2>2, EmitType DEF NumberedKinds
  <2>4. output' \in Output /\ uniqueid' \in Nat
    BY <1>0, <1>2, <2>2, <2>3, EmitType DEF Else, NumberedKinds
  <2> QED
    BY <2>1, <2>4 DEF TypeInv
<1>3. ASSUME NEW kind \in {"if", "else"}, CloseBody(kind)
      PROVE  /\ StackInv'
             /\ Top.id \in Nat
             /\ EndBlock(output) \in Output
  <2>1. frames # <<>> /\ Top.kind \in StatementKinds
    BY <1>3 DEF CloseBody, StatementKinds
  <2>2. StackInv'
    BY <1>0, <1>3, <2>1, PopKeepsStacks DEF CloseBody
  <2> QED
    BY <1>0, <2>1, <2>2, TopType, EndBlockType
<1>4. CASE CloseIf
  <2> DEFINE o1 == IF Top.body = "lines" THEN Define(output, <<"@else", Top.id>>)
                   ELSE output
             o2 == Define(o1, <<"@else", Top.id>>)
  <2>1. /\ CloseBody("if") /\ UNCHANGED uniqueid
        /\ output' = Define(o2, <<"@endif", Top.id>>)
    BY <1>4 DEF CloseIf
  <2>2. StackInv' /\ Top.id \in Nat
    BY <1>3, <2>1
  <2>3. o1 \in Output
    BY <1>0, <2>2, EmitType DEF NumberedKinds
  <2>4. o2 \in Output
    <3> HIDE DEF o1
    <3> QED BY <1>0, <2>2, <2>3, EmitType DEF NumberedKinds
  <2>5. output' \in Output
    <3> HIDE DEF o2
    <3> QED BY <1>0, <2>1, <2>2, <2>4, EmitType DEF NumberedKinds
  <2> QED
    BY <1>0, <2>1, <2>2, <2>5 DEF TypeInv
<1>5. CASE CloseElse
  BY <1>0, <1>3, <1>5, EmitType DEF TypeInv, CloseElse, NumberedKinds
<1> QED
  BY <1>1, <1>2, <1>4, <1>5 DEF IfStmt

LEMMA CallableType ==
    ASSUME TypeInv, Callable
    PROVE  TypeInv'
<1>0. /\ StackInv /\ uniqueid \in Nat /\ output \in Output
      /\ \A kind \in NumberedKinds, n \in Nat : <<kind, n>> \in Labels
      /\ \A kind \in NamedKinds, f \in Functions : <<kind, f>> \in Labels
  BY NumberedLabel DEF TypeInv, Labels
<1>1. ASSUME NEW f \in Functions, NEW kind \in CallableKinds, OpenCallable(kind, f)
      PROVE  TypeInv'
  <2>1. Jump(output, <<"@__end", f>>) \in Output
    BY <1>0, EmitType DEF NamedKinds
  <2>2. Define(Jump(output, <<"@__end", f>>), <<"entry", f>>) \in Output
    BY <1>0, <2>1, EmitType DEF NamedKinds
  <2>3. output' \in Output
    BY <1>1, <2>2, CodeType DEF OpenCallable
  <2>4. StackInv'
    BY <1>0, <1>1, OpenCallableKeepsStacks
  <2> QED
    BY <1>0, <1>1, <2>3, <2>4 DEF TypeInv, OpenCallable
<1>2. ASSUME NEW e \in Exps, DefaultParam(e)
      PROVE  TypeInv'
  <2>1. <<"@skip", uniqueid>> \in Labels
    BY <1>0, NumberedLabel DEF NumberedKinds
  <2>2. output' \in Output
    BY <1>0, <1>2, <2>1, DefaultType DEF DefaultParam
  <2>3. StackInv'
    BY <1>0, <1>2 DEF DefaultParam, AtParam, StackInv, StacksMatch, NextPos
  <2>4. uniqueid' \in Nat
    BY <1>0, <1>2, IdsOfType DEF DefaultParam
  <2> QED
    BY <2>2, <2>3, <2>4 DEF TypeInv
<1>3. CASE BeginFunctionBody
  BY <1>0, <1>3, BeginFunctionBodyKeepsStacks DEF TypeInv, BeginFunctionBody
<1>4. CASE CloseFunction \/ CloseSyscall
  <2>1. frames # <<>> /\ Top.kind \in CallableKinds
    BY <1>4 DEF CloseFunction, CloseSyscall, CloseBody, CallableKinds
  <2>2. StackInv'
    BY <1>0, <1>4, <2>1, PopKeepsStacks DEF CloseFunction, CloseSyscall, CloseBody
  <2>3. Top.id \in Functions
    BY <1>0, <2>1, TopType
  <2>4. output' = Define(Code(output, 0), <<"@__end", Top.id>>)
    BY <1>4 DEF CloseFunction, CloseSyscall
  <2>5. Code(output, 0) \in Output
    BY <1>0, CodeType
  <2>6. output' \in Output
    BY <1>0, <2>3, <2>4, <2>5, EmitType DEF NamedKinds
  <2> QED
    BY <1>0, <1>4, <2>2, <2>6 DEF TypeInv, CloseFunction, CloseSyscall
<1> QED
  BY <1>1, <1>2, <1>3, <1>4
     DEF Callable, OpenFunction, OpenSyscall, CallableKinds

LEMMA TypeInvHolds == Spec => []TypeInv
<1>1. Init => TypeInv
  BY DEF Init, TypeInv, StackInv, StacksMatch, Output
<1>2. TypeInv /\ [Next]_vars => TypeInv'
  <2> SUFFICES ASSUME TypeInv, [Next]_vars PROVE TypeInv'
    OBVIOUS
  <2>1. CASE UNCHANGED vars
    BY <2>1 DEF vars, TypeInv, StackInv, StacksMatch
  <2> QED
    BY <2>1, SimpleStmtType, LoopStmtType, IfStmtType, CallableType DEF Next
<1> QED
  BY <1>1, <1>2, PTL DEF Spec

\* TypeOK holds of every behaviour of the generator.
THEOREM TypeCorrect == Spec => []TypeOK
<1>1. TypeInv => TypeOK
  BY DEF TypeInv, StackInv, TypeOK
<1> QED
  BY <1>1, TypeInvHolds, PTL

-----------------------------------------------------------------------------
(* break and continue.                                                      *)

\* What Innermost returns, by the position of the last label.
LEMMA InnermostAt ==
    ASSUME NEW labels \in Seq(Labels \cup {NoLabel}), NEW n \in 1..Len(labels),
           labels[n] # NoLabel,
           \A j \in 1..Len(labels) : labels[j] # NoLabel => j <= n
    PROVE  Innermost(labels) = labels[n]
<1> DEFINE set == {i \in DOMAIN labels : labels[i] # NoLabel}
<1>1. n \in set /\ \A j \in set : j <= n
  OBVIOUS
<1>2. \A m \in set : (\A j \in set : j <= m) => m = n
  BY <1>1
<1>3. (CHOOSE m \in set : \A j \in set : j <= m) = n
  <2> HIDE DEF set
  <2> QED BY <1>1, <1>2
<1> QED
  BY <1>1, <1>3 DEF Innermost

\* A loop registers two labels, and no other generator registers any.
LEMMA LoopsRegisterLabels ==
    ASSUME NEW fr \in Frame
    PROVE  /\ fr.kind \in LoopKinds <=> BreakLabel(fr.kind, fr.id) # NoLabel
           /\ fr.kind \in LoopKinds <=> ContinueLabel(fr.kind, fr.id) # NoLabel
BY DEF Frame, StatementKinds, CallableKinds, LoopKinds, BreakLabel, ContinueLabel, NoLabel

\* JumpsTargetInnermostLoop holds of every behaviour: wherever a break or a
\* continue stands, the label that generate_break or generate_continue finds on
\* its stack belongs to the innermost loop around it.
THEOREM BreakAndContinueAreCorrect == Spec => []JumpsTargetInnermostLoop
<1>1. TypeInv => JumpsTargetInnermostLoop
  <2> SUFFICES ASSUME TypeInv PROVE JumpsTargetInnermostLoop
    OBVIOUS
  <2> DEFINE loops == {i \in DOMAIN frames : frames[i].kind \in LoopKinds}
  <2>1. /\ Len(frames) \in Nat /\ DOMAIN frames = 1..Len(frames)
        /\ \A i \in 1..Len(frames) : frames[i] \in Frame
        /\ continue_labels \in Seq(Labels \cup {NoLabel})
        /\ break_labels \in Seq(Labels \cup {NoLabel})
        /\ Len(continue_labels) = Len(frames) /\ Len(break_labels) = Len(frames)
    BY DEF TypeInv, StackInv, StacksMatch
  <2>2. \A i \in 1..Len(frames) :
           /\ continue_labels[i] = ContinueLabel(frames[i].kind, frames[i].id)
           /\ break_labels[i] = BreakLabel(frames[i].kind, frames[i].id)
           /\ frames[i].kind \in LoopKinds <=> break_labels[i] # NoLabel
           /\ frames[i].kind \in LoopKinds <=> continue_labels[i] # NoLabel
    BY <2>1, LoopsRegisterLabels DEF TypeInv, StackInv, StacksMatch
  <2>3. CASE loops = {}
    <3>1. InnermostLoop = 0
      BY <2>3 DEF InnermostLoop
    <3>2. \A i \in 1..Len(frames) : break_labels[i] = NoLabel /\ continue_labels[i] = NoLabel
      BY <2>1, <2>2, <2>3
    <3>3. Innermost(break_labels) = NoLabel /\ Innermost(continue_labels) = NoLabel
      BY <2>1, <3>2 DEF Innermost
    <3> QED
      BY <3>1, <3>3 DEF JumpsTargetInnermostLoop
  <2>4. CASE loops # {}
    <3>1. PICK n \in loops : \A j \in loops : j <= n
      <4>1. loops \subseteq 1..Len(frames)
        BY <2>1
      <4> HIDE DEF loops
      <4> QED BY <2>1, <2>4, <4>1, GreatestElement
    <3>2. \A m \in loops : (\A j \in loops : j <= m) => m = n
      BY <2>1, <3>1
    <3>3. InnermostLoop = n
      BY <2>4, <3>1, <3>2 DEF InnermostLoop
    <3>4. n \in 1..Len(frames) /\ frames[n].kind \in LoopKinds /\ n # 0
      BY <2>1, <3>1
    <3>5. Innermost(break_labels) = break_labels[n]
      BY <2>1, <2>2, <3>1, <3>4, InnermostAt
    <3>6. Innermost(continue_labels) = continue_labels[n]
      BY <2>1, <2>2, <3>1, <3>4, InnermostAt
    <3> QED
      BY <2>2, <3>3, <3>4, <3>5, <3>6 DEF JumpsTargetInnermostLoop
  <2> QED
    BY <2>3, <2>4
<1> QED
  BY <1>1, TypeInvHolds, PTL

-----------------------------------------------------------------------------
(* Labels.  LabelsAreUnique is not inductive: that a generator may define   *)
(* its end label depends on no other one having taken the same number       *)
(* meanwhile.  The invariant below says which labels the active generators  *)
(* will still define, and that all of them are new, different, and numbered *)
(* below uniqueid.                                                          *)

\* The labels that o defines.
Names(o) == {d.label : d \in o.labels}

Unique(o) == \A d1, d2 \in o.labels : d1.label = d2.label => d1 = d2

\* A label with a number below n; a label of a number from n on.
Below(l, n) == l[1] \in NumberedKinds => l[2] \in 0..(n - 1)
From(l, n) == l[1] \in NumberedKinds /\ l[2] \in Nat /\ l[2] >= n

\* The labels that a generator defines when its body is complete.
Pending(fr) ==
    CASE fr.kind = "while" -> {<<"endwhile", fr.id>>, <<"@end", fr.block>>}
      [] fr.kind = "for"   -> {<<"continue", fr.id>>, <<"endfor", fr.id>>, <<"@end", fr.block>>}
      [] fr.kind = "do"    -> {<<"@while", fr.id>>, <<"@enddo", fr.id>>}
      [] fr.kind = "if"    -> {<<"@else", fr.id>>, <<"@endif", fr.id>>}
      [] fr.kind = "else"  -> {<<"@endif", fr.id>>, <<"@end", fr.block>>}
      [] OTHER             -> {<<"@__end", fr.id>>}

\* The pending labels of the generators fs are new to o and pairwise different.
PendingInv(fs, o, n) ==
    /\ \A i \in 1..Len(fs) : \A l \in Pending(fs[i]) : l \notin Names(o) /\ Below(l, n)
    /\ \A i, j \in 1..Len(fs) : i # j => Pending(fs[i]) \cap Pending(fs[j]) = {}

\* A function that is complete was begun.
EndsInv(o) ==
    \A f \in Functions : <<"@__end", f>> \in Names(o) => <<"entry", f>> \in Names(o)

\* The end label of a function that is being generated belongs to its entry.
OpenEntriesInv(fs, o) ==
    \A i \in 1..Len(fs) : fs[i].kind \in CallableKinds => <<"entry", fs[i].id>> \in Names(o)

LabelInv ==
    /\ Unique(output)
    /\ \A l \in Names(output) : Below(l, uniqueid)
    /\ PendingInv(frames, output, uniqueid)
    /\ EndsInv(output)
    /\ OpenEntriesInv(frames, output)

-----------------------------------------------------------------------------
(* What the emitters add.                                                   *)

\* p defines what o defines and the labels N, each of them once.
Adds(o, N, p) == Names(p) = Names(o) \cup N /\ (Unique(o) => Unique(p))

LEMMA AddsNothing ==
    ASSUME NEW o, NEW d, NEW l
    PROVE  /\ Adds(o, {}, o)
           /\ Adds(o, {}, Code(o, d))
           /\ Adds(o, {}, AtDepth(o, d))
           /\ Adds(o, {}, Jump(o, l))
           /\ Adds(o, {}, Branch(o, l))
BY DEF Adds, Names, Unique, Code, AtDepth, Jump, Branch

LEMMA AddsLabel ==
    ASSUME NEW o, NEW l, l \notin Names(o)
    PROVE  Adds(o, {l}, Define(o, l))
<1> DEFINE d == [label |-> l, addr |-> o.addr, depth |-> o.depth]
           p == Define(o, l)
<1>1. p.labels = o.labels \cup {d} /\ d.label = l
  BY DEF Define
<1> HIDE DEF d, p
<1>2. Names(p) = Names(o) \cup {l}
  BY <1>1 DEF Names
<1>3. \A c \in o.labels : c.label # l
  BY DEF Names
<1>4. Unique(o) => Unique(p)
  BY <1>1, <1>3 DEF Unique
<1> QED
  BY <1>2, <1>4 DEF Adds, p

LEMMA AddsBoth ==
    ASSUME NEW o, NEW N, NEW p, NEW M, NEW q, Adds(o, N, p), Adds(p, M, q)
    PROVE  Adds(o, N \cup M, q)
BY DEF Adds

\* The labels of an expression of shape e with the number id.
ExpLabels(e, id) ==
    CASE e = "and"     -> {<<"endand", id>>}
      [] e = "or"      -> {<<"endor", id>>}
      [] e = "ternary" -> {<<"@else", id>>, <<"@endif", id>>}
      [] e = "new"     -> {<<"@skip", id>>, <<"@end", id>>}
      [] e = "super"   -> {<<"@skip", id>>}
      [] OTHER         -> {}

LEMMA ExpAdds ==
    ASSUME NEW o, NEW e \in Exps, NEW id \in Nat,
           \A kind \in NumberedKinds : <<kind, id>> \notin Names(o)
    PROVE  Adds(o, ExpLabels(e, id), GenerateExp(o, e, id))
<1>0. e \in ExpShapes
  BY ExpsAssumption
<1>1. ASSUME NEW l, l \notin Names(o)
      PROVE  Adds(o, {l}, ShortCircuit(o, l))
  <2> DEFINE o1 == Code(o, 2)
             o2 == Branch(o1, l)
             o3 == Code(o2, 0)
  <2>1. Adds(o, {}, o1) /\ Adds(o1, {}, o2) /\ Adds(o2, {}, o3)
    BY AddsNothing
  <2> HIDE DEF o1, o2, o3
  <2>2. Names(o3) = Names(o)
    BY <2>1 DEF Adds
  <2>3. Adds(o3, {l}, Define(o3, l))
    BY <1>1, <2>2, AddsLabel
  <2>4. Adds(o, {l}, Define(o3, l))
    BY <2>1, <2>2, <2>3 DEF Adds
  <2> QED
    BY <2>4 DEF ShortCircuit, o1, o2, o3
<1>2. Adds(o, {<<"@else", id>>, <<"@endif", id>>}, Ternary(o, id))
  <2> DEFINE else == <<"@else", id>>
             endif == <<"@endif", id>>
             o1 == Branch(Code(o, 1), else)
             o2 == Jump(Code(o1, 1), endif)
             o3 == AtDepth(o2, o.depth)
             o4 == Define(o3, else)
             o5 == Code(o4, 1)
             o6 == Define(o5, endif)
  <2>1. else \notin Names(o) /\ endif \notin Names(o) /\ else # endif
    BY DEF NumberedKinds
  <2>2. Adds(o, {}, Code(o, 1)) /\ Adds(Code(o, 1), {}, o1)
    BY AddsNothing
  <2>3. Adds(o1, {}, Code(o1, 1)) /\ Adds(Code(o1, 1), {}, o2)
    BY AddsNothing
  <2>4. Adds(o2, {}, o3) /\ Adds(o4, {}, o5)
    BY AddsNothing
  <2>5. Adds(o, {}, o3)
    <3> HIDE DEF o1, o2, o3
    <3> QED BY <2>2, <2>3, <2>4 DEF Adds
  <2> HIDE DEF o3
  <2>6. Adds(o3, {else}, o4)
    BY <2>1, <2>5, AddsLabel DEF Adds
  <2> HIDE DEF o4
  <2>7. Adds(o, {else}, o5)
    <3> HIDE DEF o5
    <3> QED BY <2>4, <2>5, <2>6 DEF Adds
  <2> HIDE DEF o5
  <2>8. endif \notin Names(o5)
    BY <2>1, <2>7 DEF Adds
  <2>9. Adds(o5, {endif}, o6)
    BY <2>8, AddsLabel
  <2> HIDE DEF o6
  <2>10. Adds(o, {else} \cup {endif}, o6)
    BY <2>7, <2>9, AddsBoth
  <2>11. {else} \cup {endif} = {else, endif} /\ o6 = Ternary(o, id)
    BY DEF Ternary, o6, o5, o4, o3
  <2> QED
    BY <2>10, <2>11
<1>3. Adds(o, {<<"@skip", id>>, <<"@end", id>>}, NewObject(o, id))
  <2> DEFINE skip == <<"@skip", id>>
             end == <<"@end", id>>
             o1 == Branch(Code(o, 3), skip)
             o2 == Code(o1, 0)
             o3 == Define(o2, skip)
             o4 == Code(o3, -1)
             o5 == Define(o4, end)
  <2>1. skip \notin Names(o) /\ end \notin Names(o) /\ skip # end
    BY DEF NumberedKinds
  <2>2. Adds(o, {}, Code(o, 3)) /\ Adds(Code(o, 3), {}, o1)
    BY AddsNothing
  <2>3. Adds(o1, {}, o2) /\ Adds(o3, {}, o4)
    BY AddsNothing
  <2>4. Adds(o, {}, o2)
    <3> HIDE DEF o1, o2
    <3> QED BY <2>2, <2>3 DEF Adds
  <2> HIDE DEF o2
  <2>5. Adds(o2, {skip}, o3)
    BY <2>1, <2>4, AddsLabel DEF Adds
  <2> HIDE DEF o3
  <2>6. Adds(o, {skip}, o4)
    <3> HIDE DEF o4
    <3> QED BY <2>3, <2>4, <2>5 DEF Adds
  <2> HIDE DEF o4
  <2>7. end \notin Names(o4)
    BY <2>1, <2>6 DEF Adds
  <2>8. Adds(o4, {end}, o5)
    BY <2>7, AddsLabel
  <2> HIDE DEF o5
  <2>9. Adds(o, {skip} \cup {end}, o5)
    BY <2>6, <2>8, AddsBoth
  <2>10. {skip} \cup {end} = {skip, end} /\ o5 = NewObject(o, id)
    BY DEF NewObject, o5, o4, o3, o2
  <2> QED
    BY <2>9, <2>10
<1>4. Adds(o, {}, Code(o, 1))
  BY AddsNothing
<1>5. /\ <<"endand", id>> \notin Names(o)
      /\ <<"endor", id>> \notin Names(o)
      /\ <<"@skip", id>> \notin Names(o)
  BY DEF NumberedKinds
<1>6. /\ Adds(o, {<<"endand", id>>}, ShortCircuit(o, <<"endand", id>>))
      /\ Adds(o, {<<"endor", id>>}, ShortCircuit(o, <<"endor", id>>))
      /\ Adds(o, {<<"@skip", id>>}, ShortCircuit(o, <<"@skip", id>>))
  BY <1>1, <1>5
<1>7. Adds(o, {<<"@skip", id>>}, Super(o, id))
  <2> DEFINE q == ShortCircuit(o, <<"@skip", id>>)
  <2>1. Adds(q, {}, Code(q, 0)) /\ Adds(o, {<<"@skip", id>>}, q)
    BY <1>6, AddsNothing
  <2> HIDE DEF q
  <2>2. Adds(o, {<<"@skip", id>>}, Code(q, 0))
    BY <2>1 DEF Adds
  <2> QED
    BY <2>2 DEF Super, q
<1> QED
  BY <1>0, <1>2, <1>3, <1>4, <1>6, <1>7 DEF ExpShapes, GenerateExp, ExpLabels

\* All labels of an expression have the number id, and numbers are used up.
LEMMA ExpLabelNumbers ==
    ASSUME NEW e \in Exps, NEW id \in Nat
    PROVE  \A l \in ExpLabels(e, id) :
              /\ l[1] \in {"endand", "endor", "@else", "@endif", "@skip", "@end"}
              /\ l[1] \in NumberedKinds
              /\ l[2] = id
              /\ IdsOf(e) = 1
BY ExpsAssumption DEF ExpShapes, ExpLabels, IdsOf, NumberedKinds

-----------------------------------------------------------------------------
(* What the frames still have to define.                                    *)

\* A generator of a statement has numbered labels to define.
LEMMA PendingNumbers ==
    ASSUME NEW fr \in Frame, NEW l \in Pending(fr)
    PROVE  /\ fr.kind \in StatementKinds =>
                 l[1] \in NumberedKinds /\ l[2] \in {fr.id, fr.block}
           /\ fr.kind \in CallableKinds => l = <<"@__end", fr.id>>
BY DEF Pending, Frame, StatementKinds, LoopKinds, CallableKinds, NumberedKinds

LEMMA PendingSame ==
    ASSUME NEW fr, NEW gr, fr.kind = gr.kind, fr.id = gr.id, fr.block = gr.block
    PROVE  Pending(fr) = Pending(gr)
BY DEF Pending

\* Frames that stay, or are closed, while N is defined.
LEMMA KeepPending ==
    ASSUME NEW fs, NEW gs, NEW o, NEW p, NEW N, NEW n \in Nat, NEW m \in Nat, n <= m,
           Len(fs) \in Nat, Len(gs) \in Nat, Len(gs) <= Len(fs),
           PendingInv(fs, o, n),
           Names(p) = Names(o) \cup N,
           \A i \in 1..Len(gs) : Pending(gs[i]) \subseteq Pending(fs[i]),
           \A i \in 1..Len(gs) : Pending(fs[i]) \cap N = {}
    PROVE  PendingInv(gs, p, m)
<1>1. \A i \in 1..Len(gs) : i \in 1..Len(fs)
  OBVIOUS
<1>2. \A l : Below(l, n) => Below(l, m)
  BY DEF Below
<1> QED
  BY <1>1, <1>2 DEF PendingInv

\* A generator of a statement that begins takes new numbers.
LEMMA PushPending ==
    ASSUME NEW fs \in Seq(Frame), NEW hs \in Seq(Frame), NEW fr \in Frame,
           NEW o, NEW p, NEW N, NEW n \in Nat, NEW m \in Nat, n <= m,
           PendingInv(fs, o, n),
           \A l \in Names(o) : Below(l, n),
           Names(p) = Names(o) \cup N,
           Len(hs) = Len(fs),
           \A i \in 1..Len(fs) : Pending(hs[i]) \subseteq Pending(fs[i]),
           \A l \in N : From(l, n),
           \A l \in Pending(fr) : From(l, n) /\ Below(l, m) /\ l \notin N
    PROVE  PendingInv(Append(hs, fr), p, m)
<1> DEFINE gs == Append(hs, fr)
           k == Len(fs) + 1
<1>1. Len(fs) \in Nat /\ Len(gs) = k /\ \A i \in 1..k : i \in 1..Len(fs) \/ i = k
  OBVIOUS
<1>2. gs[k] = fr /\ \A i \in 1..Len(fs) : gs[i] = hs[i]
  OBVIOUS
<1>3. \A l : From(l, n) => ~ Below(l, n)
  BY DEF From, Below
<1>4. \A l : Below(l, n) => Below(l, m)
  BY DEF Below
<1> HIDE DEF gs, k
<1>5. ASSUME NEW i \in 1..Len(fs), NEW l \in Pending(gs[i])
      PROVE  l \notin Names(p) /\ Below(l, n) /\ l \notin Pending(fr)
  <2>1. l \in Pending(fs[i])
    BY <1>2
  <2>2. l \notin Names(o) /\ Below(l, n)
    BY <2>1 DEF PendingInv
  <2> QED
    BY <1>3, <2>2
<1>6. \A l \in Pending(fr) : l \notin Names(p) /\ Below(l, m)
  BY <1>3
<1>7. ASSUME NEW i \in 1..k, NEW j \in 1..k, i # j
      PROVE  Pending(gs[i]) \cap Pending(gs[j]) = {}
  <2>1. CASE i = k
    BY <1>1, <1>2, <1>5, <1>7, <2>1
  <2>2. CASE j = k
    BY <1>1, <1>2, <1>5, <1>7, <2>2
  <2>3. CASE i # k /\ j # k
    BY <1>1, <1>2, <1>7, <2>3 DEF PendingInv
  <2> QED
    BY <2>1, <2>2, <2>3
<1>8. \A i \in 1..k : \A l \in Pending(gs[i]) : l \notin Names(p) /\ Below(l, m)
  BY <1>1, <1>2, <1>4, <1>5, <1>6
<1>9. PendingInv(gs, p, m)
  BY <1>1, <1>7, <1>8 DEF PendingInv
<1> QED
  BY <1>9 DEF gs

\* What a step of a statement generator has to establish.
LEMMA StatementStep ==
    ASSUME LabelInv, uniqueid \in Nat, uniqueid' \in Nat, uniqueid <= uniqueid',
           NEW N, Adds(output, N, output'),
           \A l \in N : l[1] \in NumberedKinds /\ Below(l, uniqueid'),
           PendingInv(frames', output', uniqueid'),
           \A i \in 1..Len(frames') : frames'[i].kind \in CallableKinds =>
              \E k \in 1..Len(frames) :
                 frames[k].kind \in CallableKinds /\ frames[k].id = frames'[i].id
    PROVE  LabelInv'
<1>1. Unique(output')
  BY DEF LabelInv, Adds
<1>2. Names(output') = Names(output) \cup N
  BY DEF Adds
<1>3. \A l : Below(l, uniqueid) => Below(l, uniqueid')
  BY DEF Below
<1>4. \A l \in Names(output') : Below(l, uniqueid')
  BY <1>2, <1>3 DEF LabelInv
<1>5. \A f : <<"@__end", f>> \notin N
  BY DEF NumberedKinds
<1>6. EndsInv(output')
  BY <1>2, <1>5 DEF LabelInv, EndsInv
<1>7. OpenEntriesInv(frames', output')
  BY <1>2 DEF LabelInv, OpenEntriesInv
<1> QED
  BY <1>1, <1>4, <1>6, <1>7 DEF LabelInv, Names, Unique, PendingInv, EndsInv, OpenEntriesInv

LEMMA FromIsNew ==
    ASSUME LabelInv, uniqueid \in Nat, NEW l, From(l, uniqueid)
    PROVE  /\ l \notin Names(output)
           /\ \A i \in 1..Len(frames) : l \notin Pending(frames[i])
<1>1. ~ Below(l, uniqueid)
  BY DEF From, Below
<1> QED
  BY <1>1 DEF LabelInv, PendingInv

LEMMA SimpleLabels ==
    ASSUME TypeInv, LabelInv, Simple, uniqueid' \in Nat, uniqueid <= uniqueid',
           NEW N, Adds(output, N, output'),
           \A l \in N : From(l, uniqueid) /\ Below(l, uniqueid')
    PROVE  LabelInv'
<1>1. /\ uniqueid \in Nat /\ frames \in Seq(Frame) /\ Len(frames) \in Nat
      /\ frames' = Counted(frames)
  BY DEF TypeInv, StackInv, Simple
<1>2. /\ frames' \in Seq(Frame) /\ Len(frames') = Len(frames)
      /\ \A i \in 1..Len(frames) :
            /\ frames'[i].kind = frames[i].kind
            /\ frames'[i].id = frames[i].id
            /\ Pending(frames'[i]) = Pending(frames[i])
  BY <1>1, CountedProperties, PendingSame
<1>3. \A i \in 1..Len(frames) : Pending(frames[i]) \cap N = {}
  BY <1>1, FromIsNew
<1>4. PendingInv(frames', output', uniqueid')
  <2>1. PendingInv(frames, output, uniqueid) /\ Names(output') = Names(output) \cup N
    BY DEF LabelInv, Adds
  <2>2. Len(frames') \in Nat /\ Len(frames') <= Len(frames)
    BY <1>1, <1>2
  <2>3. \A i \in 1..Len(frames') : Pending(frames'[i]) \subseteq Pending(frames[i])
    BY <1>2
  <2>4. \A i \in 1..Len(frames') : Pending(frames[i]) \cap N = {}
    BY <1>2, <1>3
  <2> QED
    BY <1>1, <2>1, <2>2, <2>3, <2>4, KeepPending
<1>5. \A l \in N : l[1] \in NumberedKinds
  BY DEF From
<1> QED
  BY <1>1, <1>2, <1>4, <1>5, StatementStep

LEMMA OpenLabels ==
    ASSUME TypeInv, LabelInv, uniqueid' \in Nat, uniqueid <= uniqueid',
           NEW kind \in StatementKinds, NEW id \in Nat, NEW block \in Nat,
           NEW body \in {"lines", "one"},
           OpenBody(kind, id, block, body),
           NEW N, Adds(output, N, output'),
           \A l \in N : From(l, uniqueid) /\ Below(l, uniqueid'),
           \A l \in Pending([kind |-> kind, id |-> id, block |-> block, body |-> body]) :
              From(l, uniqueid) /\ Below(l, uniqueid') /\ l \notin N
    PROVE  LabelInv'
<1> DEFINE fr == [kind |-> kind, id |-> id, block |-> block, body |-> body]
           hs == Counted(frames)
<1>1. /\ uniqueid \in Nat /\ frames \in Seq(Frame) /\ Len(frames) \in Nat
      /\ frames' = Append(hs, fr)
      /\ fr \in Frame /\ fr.kind \notin CallableKinds
  BY DEF TypeInv, StackInv, OpenBody, Frame, StatementKinds, LoopKinds, CallableKinds
<1>2. /\ hs \in Seq(Frame) /\ Len(hs) = Len(frames)
      /\ \A i \in 1..Len(frames) :
            /\ hs[i].kind = frames[i].kind
            /\ hs[i].id = frames[i].id
            /\ Pending(hs[i]) = Pending(frames[i])
  BY <1>1, CountedProperties, PendingSame
<1>3. \A l \in Pending(fr) : From(l, uniqueid) /\ Below(l, uniqueid') /\ l \notin N
  OBVIOUS
<1> HIDE DEF fr, hs
<1>4. PendingInv(frames', output', uniqueid')
  BY <1>1, <1>2, <1>3, PushPending DEF LabelInv, Adds
<1>5. \A l \in N : l[1] \in NumberedKinds
  BY DEF From
<1>6. /\ Len(frames') = Len(frames) + 1
      /\ frames'[Len(frames) + 1] = fr
      /\ \A i \in 1..Len(frames) : frames'[i] = hs[i]
  BY <1>1, <1>2
<1>7. \A i \in 1..Len(frames') : i \in 1..Len(frames) \/ i = Len(frames) + 1
  BY <1>1, <1>6
<1>8. \A i \in 1..Len(frames') : frames'[i].kind \in CallableKinds =>
         \E k \in 1..Len(frames) :
            frames[k].kind \in CallableKinds /\ frames[k].id = frames'[i].id
  BY <1>1, <1>2, <1>6, <1>7
<1> QED
  BY <1>1, <1>4, <1>5, <1>8, StatementStep

LEMMA CloseLabels ==
    ASSUME TypeInv, LabelInv, uniqueid' \in Nat, uniqueid <= uniqueid',
           NEW kind \in StatementKinds, CloseBody(kind),
           NEW N, Adds(output, N, output'),
           \A l \in N : l \in Pending(Top) \/ (From(l, uniqueid) /\ Below(l, uniqueid'))
    PROVE  LabelInv'
<1>1. /\ uniqueid \in Nat /\ frames \in Seq(Frame) /\ frames # <<>>
      /\ frames' = Front(frames) /\ Top.kind \in StatementKinds
  BY DEF TypeInv, StackInv, CloseBody
<1>2. /\ Len(frames) \in Nat \ {0} /\ Top = frames[Len(frames)] /\ Top \in Frame
      /\ Len(frames') = Len(frames) - 1
      /\ \A i \in 1..(Len(frames) - 1) : frames'[i] = frames[i]
  BY <1>1, FrontProperties, LastProperties DEF Top
<1>3. \A i \in 1..Len(frames') : Pending(frames[i]) \cap N = {}
  <2> SUFFICES ASSUME NEW i \in 1..Len(frames'), NEW l \in N
               PROVE  l \notin Pending(frames[i])
    OBVIOUS
  <2>1. i \in 1..Len(frames) /\ i # Len(frames) /\ Len(frames) \in 1..Len(frames)
    BY <1>2
  <2>2. Pending(frames[i]) \cap Pending(Top) = {}
    BY <1>2, <2>1 DEF LabelInv, PendingInv
  <2> QED
    BY <1>1, <2>1, <2>2, FromIsNew
<1>4. PendingInv(frames', output', uniqueid')
  <2>1. Len(frames') \in Nat /\ Len(frames') <= Len(frames)
    BY <1>2
  <2>2. \A i \in 1..Len(frames') : Pending(frames'[i]) \subseteq Pending(frames[i])
    BY <1>2
  <2> QED
    BY <1>1, <1>2, <1>3, <2>1, <2>2, KeepPending DEF LabelInv, Adds
<1>5. \A l \in N : l[1] \in NumberedKinds /\ Below(l, uniqueid')
  <2>1. \A l \in Pending(Top) : l[1] \in NumberedKinds /\ Below(l, uniqueid)
    BY <1>1, <1>2, PendingNumbers DEF LabelInv, PendingInv
  <2>2. \A l : Below(l, uniqueid) => Below(l, uniqueid')
    BY <1>1 DEF Below
  <2> QED
    BY <2>1, <2>2 DEF From
<1>6. \A i \in 1..Len(frames') : frames'[i].kind \in CallableKinds =>
         \E k \in 1..Len(frames) :
            frames[k].kind \in CallableKinds /\ frames[k].id = frames'[i].id
  BY <1>2
<1> QED
  BY <1>1, <1>4, <1>5, <1>6, StatementStep

\* Numbered labels are compared by kind and number.
LEMMA NewNumber ==
    ASSUME NEW n \in Nat, NEW m \in Nat, NEW k \in Nat, n <= k, k < m,
           NEW kind \in NumberedKinds
    PROVE  From(<<kind, k>>, n) /\ Below(<<kind, k>>, m)
BY DEF From, Below

\* The labels of an expression take the next number.
LEMMA ExpLabelsAreNew ==
    ASSUME LabelInv, uniqueid \in Nat, NEW e \in Exps, NEW id \in Nat, uniqueid <= id
    PROVE  /\ \A kind \in NumberedKinds : <<kind, id>> \notin Names(output)
           /\ \A l \in ExpLabels(e, id) : From(l, uniqueid) /\ Below(l, id + IdsOf(e))
<1>1. ASSUME NEW kind \in NumberedKinds
      PROVE  <<kind, id>> \notin Names(output)
  <2>1. From(<<kind, id>>, uniqueid)
    BY DEF From
  <2> QED
    BY <2>1, FromIsNew
<1>2. \A l \in ExpLabels(e, id) : l[1] \in NumberedKinds /\ l[2] = id /\ IdsOf(e) = 1
  BY ExpLabelNumbers
<1>3. ASSUME NEW l \in ExpLabels(e, id)
      PROVE  From(l, uniqueid) /\ Below(l, id + IdsOf(e))
  BY <1>2 DEF From, Below
<1> QED
  BY <1>1, <1>3

-----------------------------------------------------------------------------
(* The actions.                                                             *)

LEMMA SimpleStmtLabels ==
    ASSUME TypeInv, LabelInv, SimpleStmt
    PROVE  LabelInv'
<1>0. uniqueid \in Nat
  BY DEF TypeInv
<1>1. ASSUME NEW e \in Exps, ExpressionStmt(e) \/ ReturnStmt(e)
      PROVE  LabelInv'
  <2> DEFINE o1 == GenerateExp(output, e, uniqueid)
             o2 == Code(o1, -1)
  <2>1. Adds(output, ExpLabels(e, uniqueid), o1)
    BY <1>0, ExpLabelsAreNew, ExpAdds
  <2>2. Adds(o1, {}, o2) /\ Adds(o2, {}, Code(o2, 0))
    BY AddsNothing
  <2>3. output' = o2 \/ output' = Code(o2, 0)
    BY <1>1 DEF ExpressionStmt, ReturnStmt
  <2>4. Adds(output, ExpLabels(e, uniqueid), output')
    <3> HIDE DEF o1, o2
    <3> QED BY <2>1, <2>2, <2>3 DEF Adds
  <2>5. Simple /\ uniqueid' = uniqueid + IdsOf(e)
    BY <1>1 DEF ExpressionStmt, ReturnStmt
  <2>6. uniqueid' \in Nat /\ uniqueid <= uniqueid'
    BY <1>0, <2>5, IdsOfType
  <2>7. \A l \in ExpLabels(e, uniqueid) : From(l, uniqueid) /\ Below(l, uniqueid')
    BY <1>0, <2>5, ExpLabelsAreNew
  <2> QED
    BY <2>4, <2>5, <2>6, <2>7, SimpleLabels
<1>2. ASSUME NEW l, JumpStmt(l)
      PROVE  LabelInv'
  <2>1. Adds(output, {}, output')
    BY <1>2, AddsNothing DEF JumpStmt
  <2> QED
    BY <1>0, <1>2, <2>1, SimpleLabels DEF JumpStmt
<1>3. CASE SilentStmt
  <2>1. Adds(output, {}, output')
    BY <1>3, AddsNothing DEF SilentStmt
  <2> QED
    BY <1>0, <1>3, <2>1, SimpleLabels DEF SilentStmt
<1>4. CASE ReturnNothing
  <2>1. Adds(output, {}, output')
    BY <1>4, AddsNothing DEF ReturnNothing
  <2> QED
    BY <1>0, <1>4, <2>1, SimpleLabels DEF ReturnNothing
<1> QED
  BY <1>1, <1>2, <1>3, <1>4 DEF SimpleStmt, ContinueStmt, BreakStmt

\* The numbers that a loop takes: its own, those of the expression, and the
\* one of its block.
LEMMA LoopNumbers ==
    ASSUME LabelInv, uniqueid \in Nat, NEW e \in Exps,
           NEW block, block = uniqueid + 1 + IdsOf(e)
    PROVE  /\ block \in Nat /\ block + 1 \in Nat /\ uniqueid <= block
           /\ \A kind \in NumberedKinds :
                 /\ From(<<kind, uniqueid>>, uniqueid) /\ Below(<<kind, uniqueid>>, block + 1)
                 /\ From(<<kind, block>>, uniqueid) /\ Below(<<kind, block>>, block + 1)
           /\ \A l \in ExpLabels(e, uniqueid + 1) :
                 /\ From(l, uniqueid) /\ Below(l, block + 1)
                 /\ l[1] \in {"endand", "endor", "@else", "@endif", "@skip", "@end"}
                 /\ l[2] # uniqueid /\ l[2] # block
<1>1. IdsOf(e) \in {0, 1}
  BY IdsOfType
<1>2. block \in Nat /\ block + 1 \in Nat /\ uniqueid <= block /\ uniqueid < block + 1
  BY <1>1
<1>3. \A l \in ExpLabels(e, uniqueid + 1) :
         /\ l[1] \in {"endand", "endor", "@else", "@endif", "@skip", "@end"}
         /\ l[1] \in NumberedKinds
         /\ l[2] = uniqueid + 1
         /\ IdsOf(e) = 1
  BY ExpLabelNumbers
<1>4. ASSUME NEW l \in ExpLabels(e, uniqueid + 1)
      PROVE  /\ From(l, uniqueid) /\ Below(l, block + 1)
             /\ l[2] # uniqueid /\ l[2] # block
  BY <1>2, <1>3 DEF From, Below
<1>5. \A kind \in NumberedKinds :
         /\ From(<<kind, uniqueid>>, uniqueid) /\ Below(<<kind, uniqueid>>, block + 1)
         /\ From(<<kind, block>>, uniqueid) /\ Below(<<kind, block>>, block + 1)
  BY <1>2 DEF From, Below
<1> QED
  BY <1>2, <1>3, <1>4, <1>5

LEMMA OpenWhileLabels ==
    ASSUME TypeInv, LabelInv, NEW e \in Exps, NEW body \in {"lines", "one"}, OpenWhile(e, body)
    PROVE  LabelInv'
<1> DEFINE start == <<"startwhile", uniqueid>>
           block == uniqueid + 1 + IdsOf(e)
           o1 == Define(output, start)
           o2 == GenerateExp(o1, e, uniqueid + 1)
           N == {start} \cup ExpLabels(e, uniqueid + 1)
           fr == [kind |-> "while", id |-> uniqueid, block |-> block, body |-> body]
<1>0. uniqueid \in Nat /\ start[1] \in NumberedKinds
  BY DEF TypeInv, NumberedKinds
<1>1. /\ OpenBody("while", uniqueid, block, body)
      /\ output' = Branch(o2, <<"endwhile", uniqueid>>)
      /\ uniqueid' = block + 1
  BY DEF OpenWhile
<1>2. /\ block \in Nat /\ block + 1 \in Nat /\ uniqueid <= block
      /\ \A kind \in NumberedKinds :
            /\ From(<<kind, uniqueid>>, uniqueid) /\ Below(<<kind, uniqueid>>, block + 1)
            /\ From(<<kind, block>>, uniqueid) /\ Below(<<kind, block>>, block + 1)
      /\ \A l \in ExpLabels(e, uniqueid + 1) :
            /\ From(l, uniqueid) /\ Below(l, block + 1)
            /\ l[1] \in {"endand", "endor", "@else", "@endif", "@skip", "@end"}
            /\ l[2] # uniqueid /\ l[2] # block
  BY <1>0, LoopNumbers
<1>3. start \notin Names(output)
  BY <1>0, <1>2, FromIsNew DEF NumberedKinds
<1>4. Adds(output, {start}, o1)
  BY <1>3, AddsLabel
<1>5. \A kind \in NumberedKinds : <<kind, uniqueid + 1>> \notin Names(o1)
  <2>1. \A kind \in NumberedKinds : <<kind, uniqueid + 1>> \notin Names(output)
    BY <1>0, ExpLabelsAreNew
  <2>2. \A kind : <<kind, uniqueid + 1>> # start
    BY <1>0
  <2> HIDE DEF start, o1
  <2> QED BY <1>4, <2>1, <2>2 DEF Adds
<1>6. Adds(o1, ExpLabels(e, uniqueid + 1), o2)
  <2> HIDE DEF o1
  <2> QED BY <1>0, <1>5, ExpAdds
<1>7. Adds(o2, {}, output')
  BY <1>1, AddsNothing
<1>8. Adds(output, N, output')
  <2> HIDE DEF start, o1, o2
  <2> QED BY <1>4, <1>6, <1>7 DEF Adds
<1>9. \A l \in N : From(l, uniqueid) /\ Below(l, block + 1)
  BY <1>2 DEF NumberedKinds
<1>10. Pending(fr) = {<<"endwhile", uniqueid>>, <<"@end", block>>}
  BY DEF Pending
<1>11. \A l \in Pending(fr) : From(l, uniqueid) /\ Below(l, block + 1)
  <2>1. "endwhile" \in NumberedKinds /\ "@end" \in NumberedKinds
    BY DEF NumberedKinds
  <2> HIDE DEF block, fr
  <2> QED BY <1>2, <1>10, <2>1
<1>12. \A l \in Pending(fr) : l \notin N
  <2>1. \A l \in N : l = start \/ (l[2] # uniqueid /\ l[2] # block)
    BY <1>2
  <2>2. \A l \in Pending(fr) : l[2] = uniqueid \/ l[2] = block
    BY <1>10
  <2>3. start \notin Pending(fr)
    BY <1>10
  <2> HIDE DEF start, block, fr, N
  <2> QED BY <2>1, <2>2, <2>3
<1>13. uniqueid' \in Nat /\ uniqueid <= uniqueid' /\ "while" \in StatementKinds
  BY <1>0, <1>1, <1>2 DEF StatementKinds, LoopKinds
<1>14. /\ \A l \in N : From(l, uniqueid) /\ Below(l, uniqueid')
       /\ \A l \in Pending(fr) : From(l, uniqueid) /\ Below(l, uniqueid') /\ l \notin N
  BY <1>1, <1>9, <1>11, <1>12
<1> HIDE DEF start, block, o1, o2, N
<1> QED
  BY <1>0, <1>1, <1>2, <1>8, <1>13, <1>14, OpenLabels

LEMMA OpenForLabels ==
    ASSUME TypeInv, LabelInv, NEW e \in Exps, NEW body \in {"lines", "one"}, OpenFor(e, body)
    PROVE  LabelInv'
<1> DEFINE start == <<"startfor", uniqueid>>
           block == uniqueid + 1 + IdsOf(e)
           o1 == GenerateExp(output, e, uniqueid + 1)
           o2 == Code(o1, 2)
           o3 == Define(o2, start)
           o4 == Code(o3, 1)
           o5 == Branch(o4, <<"endfor", uniqueid>>)
           N == {start} \cup ExpLabels(e, uniqueid + 1)
           fr == [kind |-> "for", id |-> uniqueid, block |-> block, body |-> body]
<1>0. uniqueid \in Nat
  BY DEF TypeInv
<1>1. /\ OpenBody("for", uniqueid, block, body)
      /\ output' = Code(o5, 0)
      /\ uniqueid' = block + 1
  BY DEF OpenFor
<1>2. /\ block \in Nat /\ block + 1 \in Nat /\ uniqueid <= block
      /\ \A kind \in NumberedKinds :
            /\ From(<<kind, uniqueid>>, uniqueid) /\ Below(<<kind, uniqueid>>, block + 1)
            /\ From(<<kind, block>>, uniqueid) /\ Below(<<kind, block>>, block + 1)
      /\ \A l \in ExpLabels(e, uniqueid + 1) :
            /\ From(l, uniqueid) /\ Below(l, block + 1)
            /\ l[1] \in {"endand", "endor", "@else", "@endif", "@skip", "@end"}
            /\ l[2] # uniqueid /\ l[2] # block
  BY <1>0, LoopNumbers
<1>3. start \notin Names(output)
  BY <1>0, <1>2, FromIsNew DEF NumberedKinds
<1>4. Adds(output, ExpLabels(e, uniqueid + 1), o1)
  BY <1>0, ExpLabelsAreNew, ExpAdds
<1>5. Adds(o1, {}, o2) /\ Adds(o3, {}, o4) /\ Adds(o4, {}, o5) /\ Adds(o5, {}, output')
  BY <1>1, AddsNothing
<1>6. start \notin Names(o2)
  <2>1. start \notin ExpLabels(e, uniqueid + 1)
    BY <1>2
  <2> HIDE DEF start, o1, o2
  <2> QED BY <1>3, <1>4, <1>5, <2>1 DEF Adds
<1>7. Adds(o2, {start}, o3)
  <2> HIDE DEF o2
  <2> QED BY <1>6, AddsLabel
<1>8. Adds(output, N, output')
  <2> HIDE DEF start, o1, o2, o3, o4, o5
  <2> QED BY <1>4, <1>5, <1>7 DEF Adds
<1>9. \A l \in N : From(l, uniqueid) /\ Below(l, block + 1)
  BY <1>2 DEF NumberedKinds
<1>10. Pending(fr) = {<<"continue", uniqueid>>, <<"endfor", uniqueid>>, <<"@end", block>>}
  BY DEF Pending
<1>11. \A l \in Pending(fr) : From(l, uniqueid) /\ Below(l, block + 1)
  <2>1. {"continue", "endfor", "@end"} \subseteq NumberedKinds
    BY DEF NumberedKinds
  <2> HIDE DEF block, fr
  <2> QED BY <1>2, <1>10, <2>1
<1>12. \A l \in Pending(fr) : l \notin N
  <2>1. \A l \in N : l = start \/ (l[2] # uniqueid /\ l[2] # block)
    BY <1>2
  <2>2. \A l \in Pending(fr) : l[2] = uniqueid \/ l[2] = block
    BY <1>10
  <2>3. start \notin Pending(fr)
    BY <1>10
  <2> HIDE DEF start, block, fr, N
  <2> QED BY <2>1, <2>2, <2>3
<1>13. uniqueid' \in Nat /\ uniqueid <= uniqueid' /\ "for" \in StatementKinds
  BY <1>0, <1>1, <1>2 DEF StatementKinds, LoopKinds
<1>14. /\ \A l \in N : From(l, uniqueid) /\ Below(l, uniqueid')
       /\ \A l \in Pending(fr) : From(l, uniqueid) /\ Below(l, uniqueid') /\ l \notin N
  BY <1>1, <1>9, <1>11, <1>12
<1> HIDE DEF start, block, o1, o2, o3, o4, o5, N
<1> QED
  BY <1>0, <1>1, <1>2, <1>8, <1>13, <1>14, OpenLabels

LEMMA OpenDoLabels ==
    ASSUME TypeInv, LabelInv, NEW body \in {"lines", "one"}, OpenDo(body)
    PROVE  LabelInv'
<1> DEFINE start == <<"@startdo", uniqueid>>
           fr == [kind |-> "do", id |-> uniqueid, block |-> 0, body |-> body]
<1>0. uniqueid \in Nat /\ uniqueid + 1 \in Nat /\ uniqueid < uniqueid + 1
  BY DEF TypeInv
<1>1. /\ OpenBody("do", uniqueid, 0, body)
      /\ output' = Define(output, start)
      /\ uniqueid' = uniqueid + 1
  BY DEF OpenDo
<1>2. \A kind \in NumberedKinds :
         From(<<kind, uniqueid>>, uniqueid) /\ Below(<<kind, uniqueid>>, uniqueid + 1)
  BY <1>0 DEF From, Below
<1>3. start \notin Names(output)
  BY <1>0, <1>2, FromIsNew DEF NumberedKinds
<1>4. Adds(output, {start}, output')
  BY <1>1, <1>3, AddsLabel
<1>5. Pending(fr) = {<<"@while", uniqueid>>, <<"@enddo", uniqueid>>}
  BY DEF Pending
<1>6. {"@startdo", "@while", "@enddo"} \subseteq NumberedKinds
  BY DEF NumberedKinds
<1>7. \A l \in {start} : From(l, uniqueid) /\ Below(l, uniqueid')
  BY <1>1, <1>2, <1>6
<1>8. \A l \in Pending(fr) : From(l, uniqueid) /\ Below(l, uniqueid') /\ l \notin {start}
  <2>1. start \notin Pending(fr)
    BY <1>5
  <2> HIDE DEF fr
  <2> QED BY <1>1, <1>2, <1>5, <1>6, <2>1
<1>9. uniqueid' \in Nat /\ uniqueid <= uniqueid' /\ "do" \in StatementKinds
  BY <1>0, <1>1 DEF StatementKinds, LoopKinds
<1> HIDE DEF start
<1> QED
  BY <1>0, <1>1, <1>4, <1>7, <1>8, <1>9, OpenLabels

LEMMA OpenIfLabels ==
    ASSUME TypeInv, LabelInv, NEW e \in Exps, NEW body \in {"lines", "one"}, OpenIf(e, body)
    PROVE  LabelInv'
<1> DEFINE id == uniqueid + IdsOf(e)
           o1 == GenerateExp(output, e, uniqueid)
           N == ExpLabels(e, uniqueid)
           fr == [kind |-> "if", id |-> id, block |-> 0, body |-> body]
<1>0. uniqueid \in Nat
  BY DEF TypeInv
<1>1. /\ OpenBody("if", id, 0, body)
      /\ output' = Branch(o1, <<"@else", id>>)
      /\ uniqueid' = id + 1
  BY DEF OpenIf
<1>2. id \in Nat /\ id + 1 \in Nat /\ uniqueid <= id /\ id < id + 1
  BY <1>0, IdsOfType
<1>3. Adds(output, N, o1)
  BY <1>0, ExpLabelsAreNew, ExpAdds
<1>4. Adds(o1, {}, output')
  BY <1>1, AddsNothing
<1>5. Adds(output, N, output')
  <2> HIDE DEF o1, N
  <2> QED BY <1>3, <1>4 DEF Adds
<1>6. \A l \in N : From(l, uniqueid) /\ Below(l, uniqueid') /\ l[2] # id
  <2>1. \A l \in N : From(l, uniqueid) /\ Below(l, id)
    BY <1>0, ExpLabelsAreNew
  <2>2. \A l \in N : l[2] = uniqueid /\ IdsOf(e) = 1
    BY <1>0, ExpLabelNumbers
  <2>3. \A l : Below(l, id) => Below(l, id + 1)
    BY <1>2 DEF Below
  <2>4. IdsOf(e) = 1 => uniqueid # id
    BY <1>0
  <2> HIDE DEF id, N
  <2> QED BY <1>1, <2>1, <2>2, <2>3, <2>4
<1>7. Pending(fr) = {<<"@else", id>>, <<"@endif", id>>}
  BY DEF Pending
<1>8. \A kind \in NumberedKinds :
         From(<<kind, id>>, uniqueid) /\ Below(<<kind, id>>, uniqueid')
  BY <1>0, <1>1, <1>2 DEF From, Below
<1>9. \A l \in Pending(fr) : From(l, uniqueid) /\ Below(l, uniqueid') /\ l \notin N
  <2>1. "@else" \in NumberedKinds /\ "@endif" \in NumberedKinds
    BY DEF NumberedKinds
  <2> HIDE DEF id, fr, N
  <2> QED BY <1>6, <1>7, <1>8, <2>1
<1>10. uniqueid' \in Nat /\ uniqueid <= uniqueid' /\ "if" \in StatementKinds
  BY <1>0, <1>1, <1>2 DEF StatementKinds
<1> HIDE DEF id, o1, N
<1> QED
  BY <1>0, <1>1, <1>2, <1>5, <1>6, <1>9, <1>10, OpenLabels

\* One more label after the labels N.
LEMMA AddsNext ==
    ASSUME NEW o, NEW N, NEW p, Adds(o, N, p), NEW l, l \notin Names(o), l \notin N
    PROVE  Adds(o, N \cup {l}, Define(p, l))
<1>1. l \notin Names(p)
  BY DEF Adds
<1>2. Adds(p, {l}, Define(p, l))
  BY <1>1, AddsLabel
<1> QED
  BY <1>2, AddsBoth

LEMMA AddsCode ==
    ASSUME NEW o, NEW N, NEW p, Adds(o, N, p), NEW d, NEW l
    PROVE  Adds(o, N, Code(p, d)) /\ Adds(o, N, Jump(p, l)) /\ Adds(o, N, Branch(p, l))
<1>1. Adds(p, {}, Code(p, d)) /\ Adds(p, {}, Jump(p, l)) /\ Adds(p, {}, Branch(p, l))
  BY AddsNothing
<1> DEFINE q == Code(p, d)
           r == Jump(p, l)
           s == Branch(p, l)
<1> HIDE DEF q, r, s
<1>2. Adds(o, N, q) /\ Adds(o, N, r) /\ Adds(o, N, s)
  BY <1>1 DEF Adds, q, r, s
<1> QED
  BY <1>2 DEF q, r, s

\* The pending labels of the innermost generator are not yet defined.
LEMMA TopIsPending ==
    ASSUME TypeInv, LabelInv, NEW kind, CloseBody(kind) \/ (frames # <<>> /\ Top.kind = kind)
    PROVE  /\ frames # <<>> /\ Top.kind = kind /\ Top \in Frame
           /\ \A l \in Pending(Top) : l \notin Names(output)
<1>1. frames # <<>> /\ Top.kind = kind
  BY DEF CloseBody
<1>2. Top = frames[Len(frames)] /\ Len(frames) \in 1..Len(frames) /\ Top \in Frame
  BY <1>1, LastProperties DEF TypeInv, StackInv, Top
<1> QED
  BY <1>1, <1>2 DEF LabelInv, PendingInv

\* The end label that generate_block may define.
BlockLabels == IF Top.body = "lines" THEN {<<"@end", Top.block>>} ELSE {}

LEMMA EndBlockAdds ==
    ASSUME <<"@end", Top.block>> \notin Names(output)
    PROVE  Adds(output, BlockLabels, EndBlock(output))
BY AddsLabel, AddsNothing DEF BlockLabels, EndBlock

LEMMA CloseLoopLabels ==
    ASSUME TypeInv, LabelInv, CloseWhile \/ CloseFor \/ CloseDo
    PROVE  LabelInv'
<1>0. uniqueid \in Nat
  BY DEF TypeInv
<1>1. CASE CloseWhile
  <2> DEFINE end == <<"endwhile", Top.id>>
             o1 == EndBlock(output)
             o2 == Jump(o1, <<"startwhile", Top.id>>)
             N == BlockLabels \cup {end}
  <2>1. CloseBody("while") /\ output' = Define(o2, end) /\ UNCHANGED uniqueid
    BY <1>1 DEF CloseWhile
  <2>2. Top.kind = "while" /\ \A l \in Pending(Top) : l \notin Names(output)
    BY <2>1, TopIsPending
  <2>3. Pending(Top) = {end, <<"@end", Top.block>>}
    BY <2>2 DEF Pending
  <2>4. end \notin Names(output) /\ end \notin BlockLabels /\ N \subseteq Pending(Top)
    BY <2>2, <2>3 DEF BlockLabels
  <2>5. Adds(output, BlockLabels, o1)
    BY <2>2, <2>3, EndBlockAdds
  <2> HIDE DEF end, o1
  <2>6. Adds(output, BlockLabels, o2)
    BY <2>5, AddsCode
  <2> HIDE DEF o2
  <2>7. Adds(output, N, output')
    BY <2>1, <2>4, <2>6, AddsNext
  <2>8. "while" \in StatementKinds
    BY DEF StatementKinds, LoopKinds
  <2> HIDE DEF N
  <2> QED
    BY <1>0, <2>1, <2>4, <2>7, <2>8, CloseLabels
<1>2. CASE CloseFor
  <2> DEFINE continue == <<"continue", Top.id>>
             end == <<"endfor", Top.id>>
             o1 == EndBlock(output)
             o2 == Define(o1, continue)
             o3 == Code(o2, 0)
             o4 == Jump(o3, <<"startfor", Top.id>>)
             o5 == Define(o4, end)
             M == BlockLabels \cup {continue}
             N == M \cup {end}
  <2>1. CloseBody("for") /\ output' = Code(o5, -3) /\ UNCHANGED uniqueid
    BY <1>2 DEF CloseFor
  <2>2. Top.kind = "for" /\ \A l \in Pending(Top) : l \notin Names(output)
    BY <2>1, TopIsPending
  <2>3. Pending(Top) = {continue, end, <<"@end", Top.block>>}
    BY <2>2 DEF Pending
  <2>4. /\ continue \notin Names(output) /\ continue \notin BlockLabels
        /\ end \notin Names(output) /\ end \notin M /\ N \subseteq Pending(Top)
    BY <2>2, <2>3 DEF BlockLabels
  <2>5. Adds(output, BlockLabels, o1)
    BY <2>2, <2>3, EndBlockAdds
  <2> HIDE DEF continue, end, o1
  <2>6. Adds(output, M, o2)
    BY <2>4, <2>5, AddsNext
  <2> HIDE DEF o2, M
  <2>7. Adds(output, M, o3)
    BY <2>6, AddsCode
  <2> HIDE DEF o3
  <2>8. Adds(output, M, o4)
    BY <2>7, AddsCode
  <2> HIDE DEF o4
  <2>9. Adds(output, N, o5)
    BY <2>4, <2>8, AddsNext
  <2> HIDE DEF o5, N
  <2>10. Adds(output, N, output')
    BY <2>1, <2>9, AddsCode
  <2>11. "for" \in StatementKinds
    BY DEF StatementKinds, LoopKinds
  <2> QED
    BY <1>0, <2>1, <2>4, <2>10, <2>11, CloseLabels
<1>3. CASE CloseDo
  <2> DEFINE end == <<"@enddo", Top.id>>
  <2>1. CloseBody("do") /\ output' = Define(output, end) /\ UNCHANGED uniqueid
    BY <1>3 DEF CloseDo
  <2>2. Top.kind = "do" /\ \A l \in Pending(Top) : l \notin Names(output)
    BY <2>1, TopIsPending
  <2>3. end \in Pending(Top)
    BY <2>2 DEF Pending
  <2>4. Adds(output, {end}, output')
    BY <2>1, <2>2, <2>3, AddsLabel
  <2>5. "do" \in StatementKinds
    BY DEF StatementKinds, LoopKinds
  <2> HIDE DEF end
  <2> QED
    BY <1>0, <2>1, <2>3, <2>4, <2>5, CloseLabels
<1> QED
  BY <1>1, <1>2, <1>3

LEMMA CloseDoWhileLabels ==
    ASSUME TypeInv, LabelInv, NEW e \in Exps, CloseDoWhile(e)
    PROVE  LabelInv'
<1> DEFINE while == <<"@while", Top.id>>
           o1 == Define(output, while)
           o2 == GenerateExp(o1, e, uniqueid)
           N == {while} \cup ExpLabels(e, uniqueid)
<1>0. uniqueid \in Nat
  BY DEF TypeInv
<1>1. /\ CloseBody("do")
      /\ output' = Branch(o2, <<"@startdo", Top.id>>)
      /\ uniqueid' = uniqueid + IdsOf(e)
  BY DEF CloseDoWhile
<1>2. Top.kind = "do" /\ \A l \in Pending(Top) : l \notin Names(output)
  BY <1>1, TopIsPending
<1>3. while \in Pending(Top)
  BY <1>2 DEF Pending
<1>4. Adds(output, {while}, o1)
  BY <1>2, <1>3, AddsLabel
<1>5. \A kind \in NumberedKinds : <<kind, uniqueid>> \notin Names(o1)
  <2>1. frames # <<>> /\ Top \in Frame
    BY <1>1, TopIsPending
  <2>2. Top = frames[Len(frames)] /\ Len(frames) \in 1..Len(frames)
    BY <2>1, LastProperties DEF TypeInv, StackInv, Top
  <2>3. Below(while, uniqueid)
    BY <1>3, <2>2 DEF LabelInv, PendingInv
  <2>4. while[2] # uniqueid
    BY <1>0, <2>3 DEF Below, NumberedKinds
  <2>5. \A kind \in NumberedKinds : <<kind, uniqueid>> \notin Names(output)
    BY <1>0, ExpLabelsAreNew
  <2>6. \A kind : <<kind, uniqueid>> # while
    BY <2>4
  <2> HIDE DEF while, o1
  <2> QED BY <1>4, <2>5, <2>6 DEF Adds
<1>6. Adds(o1, ExpLabels(e, uniqueid), o2)
  <2> HIDE DEF o1
  <2> QED BY <1>0, <1>5, ExpAdds
<1>7. Adds(output, N, o2)
  <2> HIDE DEF while, o1, o2
  <2> QED BY <1>4, <1>6, AddsBoth
<1>8. Adds(output, N, output')
  <2> HIDE DEF o2, N
  <2> QED BY <1>1, <1>7, AddsCode
<1>9. \A l \in N : l \in Pending(Top) \/ (From(l, uniqueid) /\ Below(l, uniqueid'))
  <2>1. \A l \in ExpLabels(e, uniqueid) : From(l, uniqueid) /\ Below(l, uniqueid')
    BY <1>0, <1>1, ExpLabelsAreNew
  <2> HIDE DEF while
  <2> QED BY <1>3, <2>1
<1>10. uniqueid' \in Nat /\ uniqueid <= uniqueid' /\ "do" \in StatementKinds
  BY <1>0, <1>1, IdsOfType DEF StatementKinds, LoopKinds
<1> HIDE DEF N
<1> QED
  BY <1>0, <1>1, <1>8, <1>9, <1>10, CloseLabels

\* A label that is defined twice at one address is defined once.
LEMMA AddsTwice ==
    ASSUME NEW o, NEW l, l \notin Names(o)
    PROVE  Adds(o, {l}, Define(Define(o, l), l))
<1> DEFINE p == Define(o, l)
           q == Define(p, l)
<1>1. q.labels = p.labels
  BY DEF Define
<1>2. Adds(o, {l}, p)
  BY AddsLabel
<1> HIDE DEF p, q
<1>3. Names(q) = Names(p) /\ (Unique(p) => Unique(q))
  BY <1>1 DEF Names, Unique
<1>4. Adds(o, {l}, q)
  BY <1>2, <1>3 DEF Adds
<1> QED
  BY <1>4 DEF p, q

LEMMA CloseIfLabels ==
    ASSUME TypeInv, LabelInv, CloseIf \/ CloseElse
    PROVE  LabelInv'
<1>0. uniqueid \in Nat /\ "if" \in StatementKinds /\ "else" \in StatementKinds
  BY DEF TypeInv, StatementKinds
<1>1. CASE CloseIf
  <2> DEFINE else == <<"@else", Top.id>>
             endif == <<"@endif", Top.id>>
             o1 == IF Top.body = "lines" THEN Define(output, else) ELSE output
             o2 == Define(o1, else)
             N == {else} \cup {endif}
  <2>1. CloseBody("if") /\ output' = Define(o2, endif) /\ UNCHANGED uniqueid
    BY <1>1 DEF CloseIf
  <2>2. Top.kind = "if" /\ \A l \in Pending(Top) : l \notin Names(output)
    BY <2>1, TopIsPending
  <2>3. Pending(Top) = {else, endif}
    BY <2>2 DEF Pending
  <2>4. /\ else \notin Names(output) /\ endif \notin Names(output) /\ endif \notin {else}
        /\ N \subseteq Pending(Top)
    BY <2>2, <2>3
  <2>5. Adds(output, {else}, o2)
    <3>1. o1 = output \/ o1 = Define(output, else)
      OBVIOUS
    <3> HIDE DEF else, o1
    <3> QED BY <2>4, <3>1, AddsTwice, AddsLabel
  <2> HIDE DEF else, endif, o2
  <2>6. Adds(output, N, output')
    BY <2>1, <2>4, <2>5, AddsNext
  <2> HIDE DEF N
  <2> QED
    BY <1>0, <2>1, <2>4, <2>6, CloseLabels
<1>2. CASE CloseElse
  <2> DEFINE endif == <<"@endif", Top.id>>
             o1 == EndBlock(output)
             N == BlockLabels \cup {endif}
  <2>1. CloseBody("else") /\ output' = Define(o1, endif) /\ UNCHANGED uniqueid
    BY <1>2 DEF CloseElse
  <2>2. Top.kind = "else" /\ \A l \in Pending(Top) : l \notin Names(output)
    BY <2>1, TopIsPending
  <2>3. Pending(Top) = {endif, <<"@end", Top.block>>}
    BY <2>2 DEF Pending
  <2>4. /\ endif \notin Names(output) /\ endif \notin BlockLabels
        /\ N \subseteq Pending(Top)
    BY <2>2, <2>3 DEF BlockLabels
  <2>5. Adds(output, BlockLabels, o1)
    BY <2>2, <2>3, EndBlockAdds
  <2> HIDE DEF endif, o1
  <2>6. Adds(output, N, output')
    BY <2>1, <2>4, <2>5, AddsNext
  <2> HIDE DEF N
  <2> QED
    BY <1>0, <2>1, <2>4, <2>6, CloseLabels
<1> QED
  BY <1>1, <1>2

LEMMA ElseLabels ==
    ASSUME TypeInv, LabelInv, NEW body \in {"lines", "one"}, Else(body)
    PROVE  LabelInv'
<1> DEFINE k == Len(frames)
           else == <<"@else", Top.id>>
           endif == <<"@endif", Top.id>>
           end == <<"@end", uniqueid>>
           o1 == Jump(output, endif)
           fr == [kind |-> "else", id |-> Top.id, block |-> uniqueid, body |-> body]
<1>0. uniqueid \in Nat /\ uniqueid' = uniqueid + 1 /\ frames \in Seq(Frame)
  BY DEF TypeInv, StackInv, Else
<1>1. /\ frames # <<>> /\ Top.kind = "if"
      /\ frames' = [frames EXCEPT ![k] = fr]
      /\ output' = Define(o1, else)
  BY DEF Else
<1>2. /\ \A l \in Pending(Top) : l \notin Names(output)
      /\ Top \in Frame /\ Top = frames[k] /\ k \in 1..k /\ k \in Nat
  <2>1. \A l \in Pending(Top) : l \notin Names(output)
    BY <1>1, TopIsPending
  <2>2. Top \in Frame /\ Top = frames[k]
    BY <1>0, <1>1, LastProperties DEF Top
  <2>3. k \in 1..k /\ k \in Nat
    BY <1>0, <1>1
  <2> QED
    BY <2>1, <2>2, <2>3
<1>3. Pending(Top) = {else, endif} /\ Pending(fr) = {endif, end}
  BY <1>1 DEF Pending
<1>4. Adds(output, {else}, output')
  <2>1. else \notin Names(output) /\ Adds(output, {}, o1)
    BY <1>2, <1>3, AddsNothing
  <2> HIDE DEF else, o1
  <2>2. Adds(output, {} \cup {else}, Define(o1, else))
    BY <2>1, AddsNext
  <2>3. {} \cup {else} = {else}
    OBVIOUS
  <2> QED BY <1>1, <2>2, <2>3
<1>5. Names(output') = Names(output) \cup {else}
  BY <1>4 DEF Adds
<1>6. /\ Len(frames') = k /\ frames'[k] = fr
      /\ \A i \in 1..k : i # k => frames'[i] = frames[i]
  BY <1>0, <1>1, <1>2
<1>7. From(end, uniqueid) /\ Below(end, uniqueid')
  BY <1>0 DEF From, Below, NumberedKinds
<1>8. end \notin Names(output) /\ \A i \in 1..k : end \notin Pending(frames[i])
  BY <1>0, <1>7, FromIsNew
<1>9. \A l : Below(l, uniqueid) => Below(l, uniqueid')
  BY <1>0 DEF Below
<1>10. Below(else, uniqueid) /\ Below(endif, uniqueid)
  BY <1>2, <1>3 DEF LabelInv, PendingInv
<1>11. end # else /\ endif # else
  OBVIOUS
<1>12. "if" \notin CallableKinds /\ "else" \notin CallableKinds /\ else[1] \in NumberedKinds
  BY DEF CallableKinds, NumberedKinds
<1>13. fr.kind = "else" /\ frames[k].kind = "if"
  BY <1>1, <1>2
<1> HIDE DEF k, else, endif, end, fr, o1
<1>14. \A i \in 1..k : \A l \in Pending(frames'[i]) :
          l \notin Names(output') /\ Below(l, uniqueid')
  <2> SUFFICES ASSUME NEW i \in 1..k, NEW l \in Pending(frames'[i])
               PROVE  l \notin Names(output') /\ Below(l, uniqueid')
    OBVIOUS
  <2>1. CASE i = k
    <3>1. l = endif \/ l = end
      BY <1>3, <1>6, <2>1
    <3> QED
      BY <1>2, <1>3, <1>5, <1>7, <1>8, <1>9, <1>10, <1>11, <3>1
  <2>2. CASE i # k
    <3>1. l \in Pending(frames[i])
      BY <1>6, <2>2
    <3>2. l \notin Names(output) /\ Below(l, uniqueid)
      BY <3>1 DEF LabelInv, PendingInv, k
    <3>3. l \notin Pending(Top)
      BY <1>2, <2>2, <3>1 DEF LabelInv, PendingInv, k
    <3> QED
      BY <1>3, <1>5, <1>9, <3>2, <3>3
  <2> QED
    BY <2>1, <2>2
<1>15. \A i \in 1..k : i # k => Pending(frames'[i]) \cap Pending(fr) = {}
  <2> SUFFICES ASSUME NEW i \in 1..k, i # k
               PROVE  Pending(frames'[i]) \cap Pending(fr) = {}
    OBVIOUS
  <2>1. Pending(frames[i]) \cap Pending(Top) = {}
    BY <1>2 DEF LabelInv, PendingInv, k
  <2> QED
    BY <1>3, <1>6, <1>8, <2>1
<1>16. \A i, j \in 1..k : i # j => Pending(frames'[i]) \cap Pending(frames'[j]) = {}
  <2> SUFFICES ASSUME NEW i \in 1..k, NEW j \in 1..k, i # j
               PROVE  Pending(frames'[i]) \cap Pending(frames'[j]) = {}
    OBVIOUS
  <2>1. CASE i = k
    BY <1>6, <1>15, <2>1
  <2>2. CASE j = k
    BY <1>6, <1>15, <2>2
  <2>3. CASE i # k /\ j # k
    BY <1>6, <2>3 DEF LabelInv, PendingInv, k
  <2> QED
    BY <2>1, <2>2, <2>3
<1>17. PendingInv(frames', output', uniqueid')
  BY <1>6, <1>14, <1>16 DEF PendingInv
<1>18. \A i \in 1..Len(frames') : frames'[i].kind \in CallableKinds =>
          \E j \in 1..Len(frames) :
             frames[j].kind \in CallableKinds /\ frames[j].id = frames'[i].id
  BY <1>6, <1>12, <1>13 DEF k
<1>19. uniqueid' \in Nat /\ uniqueid <= uniqueid'
  BY <1>0
<1>20. \A l \in {else} : l[1] \in NumberedKinds /\ Below(l, uniqueid')
  BY <1>9, <1>10, <1>12
<1> QED
  BY <1>0, <1>4, <1>17, <1>18, <1>19, <1>20, StatementStep

LEMMA OpenCallableLabels ==
    ASSUME TypeInv, LabelInv, NEW kind \in CallableKinds, NEW f \in Functions,
           OpenCallable(kind, f)
    PROVE  LabelInv'
<1> DEFINE entry == <<"entry", f>>
           end == <<"@__end", f>>
           o1 == Jump(output, end)
           o2 == Define(o1, entry)
           fr == [kind |-> kind, id |-> f, block |-> 0, body |-> "params"]
<1>1. /\ frames = <<>> /\ frames' = <<fr>> /\ output' = Code(o2, 0)
      /\ uniqueid' = uniqueid
  BY DEF OpenCallable
<1>2. entry \notin Names(output)
  BY DEF OpenCallable, Undefined, Names
<1>3. end \notin Names(output)
  BY <1>2 DEF LabelInv, EndsInv
<1>4. Adds(output, {entry}, output')
  <2>1. Adds(output, {}, o1)
    BY AddsNothing
  <2> HIDE DEF entry, o1
  <2>2. Adds(output, {} \cup {entry}, o2)
    BY <1>2, <2>1, AddsNext
  <2>3. {} \cup {entry} = {entry}
    OBVIOUS
  <2> HIDE DEF o2
  <2> QED
    BY <1>1, <2>2, <2>3, AddsCode
<1>5. Names(output') = Names(output) \cup {entry} /\ Unique(output')
  BY <1>4 DEF Adds, LabelInv
<1>6. Pending(fr) = {end} /\ fr.kind \in CallableKinds /\ fr.id = f
  BY DEF Pending, CallableKinds
<1>7. Below(entry, uniqueid') /\ Below(end, uniqueid') /\ end # entry
  BY DEF Below, NumberedKinds
<1>8. Len(frames') = 1 /\ frames'[1] = fr
  BY <1>1
<1>9. \A l \in Names(output') : Below(l, uniqueid')
  <2> HIDE DEF entry
  <2> QED BY <1>1, <1>5, <1>7 DEF LabelInv
<1>10. PendingInv(frames', output', uniqueid')
  <2> HIDE DEF entry, end, fr
  <2>1. \A i \in 1..1 : i = 1
    OBVIOUS
  <2> QED BY <1>3, <1>5, <1>6, <1>7, <1>8, <2>1 DEF PendingInv
<1>11. EndsInv(output')
  <2>1. \A g : <<"@__end", g>> # entry
    OBVIOUS
  <2> HIDE DEF entry
  <2> QED BY <1>5, <2>1 DEF LabelInv, EndsInv
<1>12. OpenEntriesInv(frames', output')
  <2>1. \A i \in 1..1 : i = 1
    OBVIOUS
  <2> HIDE DEF fr
  <2> QED BY <1>5, <1>6, <1>8, <2>1 DEF OpenEntriesInv
<1> QED
  BY <1>5, <1>9, <1>10, <1>11, <1>12
     DEF LabelInv, Names, Unique, PendingInv, EndsInv, OpenEntriesInv

LEMMA DefaultParamLabels ==
    ASSUME TypeInv, LabelInv, NEW e \in Exps, DefaultParam(e)
    PROVE  LabelInv'
<1> DEFINE skip == <<"@skip", uniqueid>>
           E == ExpLabels(e, uniqueid + 1)
           N == E \cup {skip}
           o1 == Code(output, 2)
           o2 == Branch(o1, skip)
           o3 == GenerateExp(o2, e, uniqueid + 1)
           o4 == Code(o3, -1)
           o5 == Define(o4, skip)
<1>1. /\ frames' = frames /\ output' = Code(o5, -1)
      /\ uniqueid' = uniqueid + 1 + IdsOf(e)
      /\ uniqueid \in Nat /\ uniqueid + 1 \in Nat /\ frames \in Seq(Frame)
  BY DEF DefaultParam, AtParam, GenerateDefault, TypeInv, StackInv
<1>2. uniqueid' \in Nat /\ uniqueid <= uniqueid' /\ uniqueid < uniqueid'
  BY <1>1, IdsOfType
<1>3. From(skip, uniqueid) /\ Below(skip, uniqueid') /\ skip[1] \in NumberedKinds
  BY <1>1, <1>2 DEF From, Below, NumberedKinds
<1>4. /\ \A kind \in NumberedKinds : <<kind, uniqueid + 1>> \notin Names(output)
      /\ \A l \in E : From(l, uniqueid) /\ Below(l, uniqueid')
  BY <1>1, ExpLabelsAreNew
<1>5. \A l \in E : l[1] \in NumberedKinds /\ l[2] = uniqueid + 1
  BY <1>1, ExpLabelNumbers
<1>6. skip \notin E
  BY <1>1, <1>5
<1>7. \A l \in N : /\ From(l, uniqueid) /\ Below(l, uniqueid') /\ l[1] \in NumberedKinds
                  /\ l \notin Names(output)
                  /\ \A i \in 1..Len(frames) : l \notin Pending(frames[i])
  <2>1. \A l \in N : From(l, uniqueid) /\ Below(l, uniqueid') /\ l[1] \in NumberedKinds
    BY <1>3, <1>4, <1>5
  <2> QED
    BY <1>1, <2>1, FromIsNew
<1>8. skip \notin Names(output)
  BY <1>7
<1> HIDE DEF skip
<1>9. Adds(output, {}, o2)
  <2>1. Adds(output, {}, o1)
    BY AddsNothing
  <2> HIDE DEF o1
  <2> QED
    BY <2>1, AddsCode
<1> HIDE DEF o2
<1>10. Adds(o2, E, o3)
  <2>1. \A kind \in NumberedKinds : <<kind, uniqueid + 1>> \notin Names(o2)
    BY <1>4, <1>9 DEF Adds
  <2> QED
    BY <1>1, <2>1, ExpAdds
<1> HIDE DEF o3, E
<1>11. Adds(output, E, o3)
  <2>1. Adds(output, {} \cup E, o3) /\ {} \cup E = E
    BY <1>9, <1>10, AddsBoth
  <2> QED
    BY <2>1
<1>12. Adds(output, E, o4)
  BY <1>11, AddsCode
<1> HIDE DEF o4
<1>13. Adds(output, N, o5)
  BY <1>6, <1>8, <1>12, AddsNext
<1> HIDE DEF o5, N
<1>14. Adds(output, N, output')
  BY <1>1, <1>13, AddsCode
<1>15. PendingInv(frames', output', uniqueid')
  <2>1. Names(output') = Names(output) \cup N /\ PendingInv(frames, output, uniqueid)
    BY <1>14 DEF Adds, LabelInv
  <2>2. /\ Len(frames) \in Nat /\ Len(frames) <= Len(frames)
        /\ uniqueid \in Nat /\ uniqueid' \in Nat /\ uniqueid <= uniqueid'
    BY <1>1, <1>2
  <2>3. \A i \in 1..Len(frames) : Pending(frames[i]) \cap N = {}
    BY <1>7
  <2>4. \A i \in 1..Len(frames) : Pending(frames[i]) \subseteq Pending(frames[i])
    OBVIOUS
  <2>5. PendingInv(frames, output', uniqueid')
    BY <2>1, <2>2, <2>3, <2>4, KeepPending
  <2> QED
    BY <1>1, <2>5
<1> QED
  BY <1>1, <1>2, <1>7, <1>14, <1>15, StatementStep

LEMMA BeginFunctionBodyLabels ==
    ASSUME TypeInv, LabelInv, BeginFunctionBody
    PROVE  LabelInv'
<1> DEFINE k == Len(frames)
           fr == [frames[k] EXCEPT !.body = "lines"]
<1>1. /\ frames \in Seq(Frame) /\ k \in 1..k /\ k \in Nat /\ frames[k] \in Frame
      /\ frames' = [frames EXCEPT ![k] = fr]
      /\ output' = output /\ uniqueid' = uniqueid /\ uniqueid \in Nat
  BY DEF BeginFunctionBody, TypeInv, StackInv
<1>2. fr.kind = frames[k].kind /\ fr.id = frames[k].id /\ fr.block = frames[k].block
  BY <1>1 DEF Frame
<1>3. Len(frames') = k /\ \A i \in 1..k : frames'[i] = IF i = k THEN fr ELSE frames[i]
  BY <1>1
<1> HIDE DEF fr, k
<1>4. \A i \in 1..k :
         /\ frames'[i].kind = frames[i].kind
         /\ frames'[i].id = frames[i].id
         /\ Pending(frames'[i]) = Pending(frames[i])
  BY <1>2, <1>3, PendingSame
<1>5. PendingInv(frames', output', uniqueid')
  <2>1. PendingInv(frames, output, uniqueid)
    BY DEF LabelInv
  <2> QED
    BY <1>1, <1>3, <1>4, <2>1 DEF PendingInv, k
<1>6. OpenEntriesInv(frames', output')
  BY <1>1, <1>3, <1>4 DEF LabelInv, OpenEntriesInv, k
<1> QED
  BY <1>1, <1>5, <1>6
     DEF LabelInv, Names, Unique, PendingInv, EndsInv, OpenEntriesInv

LEMMA CloseCallableLabels ==
    ASSUME TypeInv, LabelInv, CloseFunction \/ CloseSyscall
    PROVE  LabelInv'
<1> DEFINE k == Len(frames)
           end == <<"@__end", Top.id>>
           o1 == Code(output, 0)
<1>1. /\ frames # <<>> /\ Top.kind \in CallableKinds
      /\ frames' = Front(frames) /\ output' = Define(o1, end)
      /\ uniqueid' = uniqueid /\ frames \in Seq(Frame) /\ uniqueid \in Nat
  BY DEF CloseFunction, CloseSyscall, CloseBody, CallableKinds, TypeInv, StackInv
<1>2. Top \in Frame /\ Top = frames[k]
  BY <1>1, LastProperties DEF Top
<1>3. /\ k \in Nat /\ k \in 1..k /\ Len(frames') = k - 1
      /\ \A i \in 1..(k - 1) : frames'[i] = frames[i] /\ i \in 1..k /\ i # k
  BY <1>1, FrontProperties
<1>4. Pending(Top) = {end}
  BY <1>1, <1>2 DEF Pending, Frame, CallableKinds, StatementKinds, LoopKinds
<1>5. end \notin Names(output) /\ Below(end, uniqueid)
  BY <1>2, <1>3, <1>4 DEF LabelInv, PendingInv
<1>6. <<"entry", Top.id>> \in Names(output)
  BY <1>1, <1>2, <1>3 DEF LabelInv, OpenEntriesInv
<1>7. Adds(output, {end}, output')
  <2>1. Adds(output, {}, o1)
    BY AddsNothing
  <2> HIDE DEF end, o1
  <2>2. Adds(output, {} \cup {end}, Define(o1, end))
    BY <1>5, <2>1, AddsNext
  <2>3. {} \cup {end} = {end}
    OBVIOUS
  <2> QED
    BY <1>1, <2>2, <2>3
<1>8. Names(output') = Names(output) \cup {end} /\ Unique(output')
  BY <1>7 DEF Adds, LabelInv
<1>9. \A l \in Names(output') : Below(l, uniqueid')
  BY <1>1, <1>5, <1>8 DEF LabelInv
<1>10. \A f : <<"@__end", f>> = end => f = Top.id
  OBVIOUS
<1> HIDE DEF k, end
<1>11. PendingInv(frames', output', uniqueid')
  <2>1. \A i \in 1..(k - 1) : Pending(frames[i]) \cap {end} = {}
    BY <1>2, <1>3, <1>4 DEF LabelInv, PendingInv, k
  <2>2. PendingInv(frames, output, uniqueid) /\ Len(frames) = k
    BY DEF LabelInv, k
  <2>3. \A i \in 1..Len(frames') : Pending(frames'[i]) \subseteq Pending(frames[i])
    BY <1>3
  <2>4. Len(frames') \in Nat /\ Len(frames') <= Len(frames) /\ Len(frames) \in Nat
    BY <1>3, <2>2
  <2>5. \A i \in 1..Len(frames') : Pending(frames[i]) \cap {end} = {}
    BY <1>3, <2>1
  <2>6. Names(output') = Names(output) \cup {end} /\ PendingInv(frames, output, uniqueid)
    BY <1>8, <2>2
  <2>7. uniqueid \in Nat /\ uniqueid' \in Nat /\ uniqueid <= uniqueid'
    BY <1>1
  <2> HIDE DEF o1
  <2> QED
    BY <2>3, <2>4, <2>5, <2>6, <2>7, KeepPending
<1>12. EndsInv(output')
  BY <1>6, <1>8, <1>10 DEF LabelInv, EndsInv
<1>13. OpenEntriesInv(frames', output')
  BY <1>3, <1>8 DEF LabelInv, OpenEntriesInv, k
<1> QED
  BY <1>8, <1>9, <1>11, <1>12, <1>13
     DEF LabelInv, Names, Unique, PendingInv, EndsInv, OpenEntriesInv

-----------------------------------------------------------------------------

LEMMA LabelInvHolds == Spec => []LabelInv
<1>1. Init => LabelInv
  BY DEF Init, LabelInv, Names, Unique, PendingInv, EndsInv, OpenEntriesInv
<1>2. TypeInv /\ LabelInv /\ [Next]_vars => LabelInv'
  <2> SUFFICES ASSUME TypeInv, LabelInv, [Next]_vars PROVE LabelInv'
    OBVIOUS
  <2>1. CASE UNCHANGED vars
    BY <2>1 DEF vars, LabelInv, Names, Unique, PendingInv, EndsInv, OpenEntriesInv
  <2>2. CASE SimpleStmt
    BY <2>2, SimpleStmtLabels
  <2>3. CASE LoopStmt
    BY <2>3, OpenWhileLabels, OpenForLabels, OpenDoLabels, CloseLoopLabels,
       CloseDoWhileLabels
       DEF LoopStmt
  <2>4. CASE IfStmt
    BY <2>4, OpenIfLabels, ElseLabels, CloseIfLabels DEF IfStmt
  <2>5. CASE Callable
    BY <2>5, OpenCallableLabels, DefaultParamLabels, BeginFunctionBodyLabels,
       CloseCallableLabels
       DEF Callable, OpenFunction, OpenSyscall, CallableKinds
  <2> QED
    BY <2>1, <2>2, <2>3, <2>4, <2>5 DEF Next
<1> QED
  BY <1>1, <1>2, TypeInvHolds, PTL DEF Spec

\* LabelsAreUnique holds of every behaviour: the generators, however they are
\* nested, never define one label at two places.
THEOREM LabelsAreUniqueHolds == Spec => []LabelsAreUnique
<1>1. LabelInv => LabelsAreUnique
  BY DEF LabelInv, Unique, LabelsAreUnique
<1> QED
  BY <1>1, LabelInvHolds, PTL

-----------------------------------------------------------------------------
(***************************************************************************)
(* The jumps of the emitted code: the depth of the operand stack at both   *)
(* ends of a jump, its direction, that its label is defined in the end,    *)
(* and that it stays within its function.                                  *)
(*                                                                         *)
(* A jump is emitted long before or after the label it targets, with whole *)
(* statements in between.  The invariant therefore speaks of the numbers   *)
(* that the active generators have taken: every place in the code whose    *)
(* label carries the number of an active generator has the operand depth   *)
(* of that generator, and no other generator uses the number.              *)
(***************************************************************************)

-----------------------------------------------------------------------------
(* The invariant.                                                           *)

\* A place in the code, where a label is defined or jumped to: the label, the
\* depth of the operand stack and the address.
Defs(o) == {<<d.label, d.depth, d.addr>> : d \in o.labels}
Uses(o) == {<<j.target, j.depth, j.addr>> : j \in o.jumps}
Places(o) == Defs(o) \cup Uses(o)

\* The labels that only the repetition of a loop jumps to.
Repeats(l) == l[1] \in {"startwhile", "startfor", "@startdo"}

\* The numbers of a generator; those of a function are its name.
Numbers(fr) ==
    IF fr.kind \in {"while", "for", "else"} THEN {fr.id, fr.block} ELSE {fr.id}

\* The labels that an active generator has defined when it began.
Starts(fr) ==
    CASE fr.kind = "while" -> {<<"startwhile", fr.id>>}
      [] fr.kind = "for"   -> {<<"startfor", fr.id>>}
      [] fr.kind = "do"    -> {<<"@startdo", fr.id>>}
      [] OTHER             -> {}

\* The labels that an active generator will define in any case.
Owed(fr) == {l \in Pending(fr) : l[1] \notin {"@end", "@while", "@enddo"}}

\* The operands of the for loops among the first i generators.
Base(fs, i) == 3 * Cardinality({k \in 1..i : fs[k].kind = "for"})

NumbersInv(fs, n) ==
    /\ \A i \in 1..Len(fs) : Numbers(fs[i]) \subseteq 0..(n - 1) \cup Functions
    /\ \A i, j \in 1..Len(fs) : i # j => Numbers(fs[i]) \cap Numbers(fs[j]) = {}

\* A function is the outermost generator.
CallablesInv(fs) == \A i \in 1..Len(fs) : fs[i].kind \in CallableKinds => i = 1

\* The numbers and names that were used up.
Used(o, n) == 0..(n - 1) \cup {f \in Functions : <<"entry", f>> \in Names(o)}

DepthInv(fs, o, n) ==
    /\ o.depth = Base(fs, Len(fs))
    /\ \A x \in Places(o) : x[1][2] \in Used(o, n)
    /\ \A x, y \in Places(o) : x[1] = y[1] => x[2] = y[2]
    /\ \A x \in Places(o), i \in 1..Len(fs) :
          x[1][2] \in Numbers(fs[i]) => x[2] = Base(fs, i)

Forward(o) ==
    /\ \A x \in Uses(o) : x[3] \in Nat /\ x[3] < o.addr
    /\ \A x \in Defs(o) : x[3] \in Nat /\ x[3] <= o.addr
    /\ \A x \in Uses(o), y \in Defs(o) : (x[1] = y[1] /\ y[3] <= x[3]) => Repeats(x[1])

\* A label that is jumped to is defined, or a generator owes it, or it is one of
\* those that depend on the end of a do loop.
ResolvedInv(fs, o) ==
    /\ \A i \in 1..Len(fs) : Starts(fs[i]) \subseteq Names(o)
    /\ \A x \in Uses(o) : \/ x[1] \in Names(o)
                          \/ x[1][1] \in {"@while", "@enddo"}
                          \/ \E i \in 1..Len(fs) : x[1] \in Owed(fs[i])

\* Where functions begin and end.
Bounds(o) == {x \in Defs(o) : x[1][1] \in NamedKinds}

\* A jump within a statement crosses no bound.  The one jump to the end of a
\* function stands before its entry, and crosses only its two bounds.
BoundsInv(fs, o) ==
    /\ \A x \in Uses(o), y \in Defs(o), c \in Bounds(o) :
          (x[1] = y[1] /\ x[1][1] \in NumberedKinds) => (c[3] <= x[3] <=> c[3] <= y[3])
    /\ \A x \in Places(o), i \in 1..Len(fs), c \in Bounds(o) :
          (x[1][1] \in NumberedKinds /\ x[1][2] \in Numbers(fs[i])) => c[3] <= x[3]
    /\ \A x \in Uses(o) : x[1][1] \in NamedKinds =>
          /\ x[1][1] = "@__end"
          /\ \A c \in Bounds(o) :
                IF c[1] = <<"entry", x[1][2]>> THEN x[3] < c[3]
                ELSE \/ c[3] <= x[3]
                     \/ \E y \in Defs(o) : y[1] = x[1] /\ (y = c \/ y[3] < c[3])

FlowInv ==
    /\ NumbersInv(frames, uniqueid)
    /\ CallablesInv(frames)
    /\ DepthInv(frames, output, uniqueid)
    /\ Forward(output)
    /\ ResolvedInv(frames, output)
    /\ BoundsInv(frames, output)

-----------------------------------------------------------------------------
(* What the emitters add.                                                   *)

\* From o to p, the labels of D are defined and those of U jumped to, each with
\* the depth it is paired with, behind what o holds.
Emits(o, D, U, p) ==
    /\ Defs(o) \subseteq Defs(p)
    /\ \A x \in Defs(p) : x \in Defs(o) \/ (<<x[1], x[2]>> \in D /\ x[3] \in Nat /\ o.addr <= x[3])
    /\ \A x \in Uses(p) : x \in Uses(o) \/ (<<x[1], x[2]>> \in U /\ x[3] \in Nat /\ o.addr <= x[3])
    /\ \A x \in D : x[1] \in Names(p)
    /\ o.addr \in Nat /\ p.addr \in Nat /\ o.addr <= p.addr
    /\ (Forward(o) /\ \A u \in U : Repeats(u[1]) \/ u[1] \notin Names(o)) => Forward(p)

\* What each emitter does to the labels, the jumps, the address and the depth.
LEMMA EmitterEffects ==
    ASSUME NEW o, NEW d, NEW l
    PROVE  /\ Defs(Code(o, d)) = Defs(o) /\ Uses(Code(o, d)) = Uses(o)
           /\ Code(o, d).addr = o.addr + 1 /\ Code(o, d).depth = o.depth + d
           /\ Defs(AtDepth(o, d)) = Defs(o) /\ Uses(AtDepth(o, d)) = Uses(o)
           /\ AtDepth(o, d).addr = o.addr /\ AtDepth(o, d).depth = d
           /\ Defs(Define(o, l)) = Defs(o) \cup {<<l, o.depth, o.addr>>}
           /\ Uses(Define(o, l)) = Uses(o)
           /\ Define(o, l).addr = o.addr /\ Define(o, l).depth = o.depth
           /\ Defs(Jump(o, l)) = Defs(o)
           /\ Uses(Jump(o, l)) = Uses(o) \cup {<<l, o.depth, o.addr>>}
           /\ Jump(o, l).addr = o.addr + 1 /\ Jump(o, l).depth = o.depth
           /\ Defs(Branch(o, l)) = Defs(o)
           /\ Uses(Branch(o, l)) = Uses(o) \cup {<<l, o.depth - 1, o.addr>>}
           /\ Branch(o, l).addr = o.addr + 1 /\ Branch(o, l).depth = o.depth - 1
<1>1. /\ Defs(Code(o, d)) = Defs(o) /\ Uses(Code(o, d)) = Uses(o)
      /\ Code(o, d).addr = o.addr + 1 /\ Code(o, d).depth = o.depth + d
  BY DEF Code, Defs, Uses
<1>2. /\ Defs(AtDepth(o, d)) = Defs(o) /\ Uses(AtDepth(o, d)) = Uses(o)
      /\ AtDepth(o, d).addr = o.addr /\ AtDepth(o, d).depth = d
  BY DEF AtDepth, Defs, Uses
<1>3. /\ Defs(Define(o, l)) = Defs(o) \cup {<<l, o.depth, o.addr>>}
      /\ Uses(Define(o, l)) = Uses(o)
      /\ Define(o, l).addr = o.addr /\ Define(o, l).depth = o.depth
  <2> DEFINE d0 == [label |-> l, addr |-> o.addr, depth |-> o.depth]
  <2>1. Define(o, l).labels = o.labels \cup {d0} /\ Define(o, l).jumps = o.jumps
    BY DEF Define
  <2>2. <<d0.label, d0.depth, d0.addr>> = <<l, o.depth, o.addr>>
    OBVIOUS
  <2> HIDE DEF d0
  <2>3. Defs(Define(o, l)) = Defs(o) \cup {<<l, o.depth, o.addr>>}
    BY <2>1, <2>2 DEF Defs
  <2> QED
    BY <2>1, <2>3 DEF Define, Uses
<1>4. ASSUME NEW p, NEW dd, NEW j, j = [target |-> l, addr |-> o.addr, depth |-> dd],
             p.jumps = o.jumps \cup {j}
      PROVE  Uses(p) = Uses(o) \cup {<<l, dd, o.addr>>}
  <2>1. <<j.target, j.depth, j.addr>> = <<l, dd, o.addr>>
    BY <1>4
  <2> QED
    BY <1>4, <2>1 DEF Uses
<1>5. /\ Defs(Jump(o, l)) = Defs(o)
      /\ Uses(Jump(o, l)) = Uses(o) \cup {<<l, o.depth, o.addr>>}
      /\ Jump(o, l).addr = o.addr + 1 /\ Jump(o, l).depth = o.depth
  BY <1>4 DEF Jump, Defs
<1>6. /\ Defs(Branch(o, l)) = Defs(o)
      /\ Uses(Branch(o, l)) = Uses(o) \cup {<<l, o.depth - 1, o.addr>>}
      /\ Branch(o, l).addr = o.addr + 1 /\ Branch(o, l).depth = o.depth - 1
  BY <1>4 DEF Branch, Defs
<1> QED
  BY <1>1, <1>2, <1>3, <1>5, <1>6

LEMMA NamesAreDefs ==
    ASSUME NEW o
    PROVE  /\ \A x \in Defs(o) : x[1] \in Names(o)
           /\ \A l \in Names(o) : \E x \in Defs(o) : x[1] = l
<1>1. \A x \in Defs(o) : x[1] \in Names(o)
  BY DEF Names, Defs
<1>2. ASSUME NEW l \in Names(o)
      PROVE  \E x \in Defs(o) : x[1] = l
  <2>1. PICK d \in o.labels : d.label = l
    BY DEF Names
  <2>2. <<d.label, d.depth, d.addr>> \in Defs(o)
    BY DEF Defs
  <2> QED
    BY <2>1, <2>2
<1> QED
  BY <1>1, <1>2

LEMMA EmitsNothing ==
    ASSUME NEW o \in Output
    PROVE  Emits(o, {}, {}, o)
BY DEF Emits, Output

LEMMA EmitsCode ==
    ASSUME NEW o, NEW D, NEW U, NEW p, Emits(o, D, U, p), NEW d
    PROVE  /\ Emits(o, D, U, Code(p, d)) /\ Code(p, d).depth = p.depth + d
           /\ Emits(o, D, U, AtDepth(p, d)) /\ AtDepth(p, d).depth = d
<1>1. ASSUME NEW q, Defs(q) = Defs(p), Uses(q) = Uses(p), q.addr \in {p.addr, p.addr + 1}
      PROVE  Emits(o, D, U, q)
  <2>1. \A x \in D : x[1] \in Names(q)
    BY <1>1, NamesAreDefs DEF Emits
  <2>2. Forward(p) /\ p.addr \in Nat => Forward(q)
    BY <1>1 DEF Forward
  <2> QED
    BY <1>1, <2>1, <2>2 DEF Emits
<1> QED
  BY <1>1, EmitterEffects

LEMMA EmitsDefine ==
    ASSUME NEW o, NEW D, NEW U, NEW p, Emits(o, D, U, p), NEW l, NEW d, d = p.depth
    PROVE  /\ Emits(o, D \cup {<<l, d>>}, U, Define(p, l))
           /\ Define(p, l).depth = d
<1> DEFINE q == Define(p, l)
           y == <<l, d, p.addr>>
<1>1. /\ Defs(q) = Defs(p) \cup {y} /\ Uses(q) = Uses(p)
      /\ q.addr = p.addr /\ q.depth = d
  BY EmitterEffects
<1>2. y[1] = l /\ y[2] = d /\ y[3] = p.addr
  OBVIOUS
<1> HIDE DEF q, y
<1>3. \A x \in D \cup {<<l, d>>} : x[1] \in Names(q)
  BY <1>1, <1>2, NamesAreDefs DEF Emits
<1>4. Forward(p) /\ p.addr \in Nat => Forward(q)
  BY <1>1, <1>2 DEF Forward
<1>5. Emits(o, D \cup {<<l, d>>}, U, q)
  BY <1>1, <1>2, <1>3, <1>4 DEF Emits
<1> QED
  BY <1>1, <1>5 DEF q

\* A jump to l, emitted at depth d: l is not defined yet, or repeats a loop.
LEMMA EmitsUse ==
    ASSUME NEW o, NEW D, NEW U, NEW p, Emits(o, D, U, p), NEW l, NEW d,
           Repeats(l) \/ \A x \in D : x[1] # l,
           NEW q,
           Defs(q) = Defs(p), Uses(q) = Uses(p) \cup {<<l, d, p.addr>>}, q.addr = p.addr + 1
    PROVE  Emits(o, D, U \cup {<<l, d>>}, q)
<1> DEFINE y == <<l, d, p.addr>>
           z == <<l, d>>
<1>1. y[1] = l /\ y[2] = d /\ y[3] = p.addr /\ z[1] = l /\ <<y[1], y[2]>> = z
  OBVIOUS
<1>2. Uses(q) = Uses(p) \cup {y}
  OBVIOUS
<1> HIDE DEF y, z
<1>3. \A x \in D : x[1] \in Names(q)
  BY NamesAreDefs DEF Emits
<1>4. ASSUME l \notin Names(o), \A x \in D : x[1] # l
      PROVE  l \notin Names(p)
  <2>1. ASSUME NEW x \in Defs(p)
        PROVE  x[1] # l
    <3>1. CASE x \in Defs(o)
      BY <1>4, <3>1, NamesAreDefs
    <3>2. CASE <<x[1], x[2]>> \in D
      BY <1>4, <3>2
    <3> QED
      BY <3>1, <3>2 DEF Emits
  <2> QED
    BY <2>1, NamesAreDefs
<1>5. ASSUME Forward(p), p.addr \in Nat, Repeats(l) \/ l \notin Names(p)
      PROVE  Forward(q)
  BY <1>1, <1>2, <1>5, NamesAreDefs DEF Forward
<1>6. ASSUME Forward(o), \A u \in U \cup {z} : Repeats(u[1]) \/ u[1] \notin Names(o)
      PROVE  Forward(q)
  BY <1>1, <1>4, <1>5, <1>6 DEF Emits
<1>7. Emits(o, D, U \cup {z}, q)
  BY <1>1, <1>2, <1>3, <1>6 DEF Emits
<1> QED
  BY <1>7 DEF z

LEMMA EmitsJump ==
    ASSUME NEW o, NEW D, NEW U, NEW p, Emits(o, D, U, p), NEW l, NEW d, d = p.depth,
           Repeats(l) \/ \A x \in D : x[1] # l
    PROVE  Emits(o, D, U \cup {<<l, d>>}, Jump(p, l)) /\ Jump(p, l).depth = d
<1> DEFINE q == Jump(p, l)
<1>1. /\ Defs(q) = Defs(p) /\ Uses(q) = Uses(p) \cup {<<l, d, p.addr>>}
      /\ q.addr = p.addr + 1 /\ q.depth = d
  BY EmitterEffects
<1> HIDE DEF q
<1>2. Emits(o, D, U \cup {<<l, d>>}, q)
  BY <1>1, EmitsUse
<1> QED
  BY <1>1, <1>2 DEF q

LEMMA EmitsBranch ==
    ASSUME NEW o, NEW D, NEW U, NEW p, Emits(o, D, U, p), NEW l, NEW d \in Int, p.depth = d + 1,
           Repeats(l) \/ \A x \in D : x[1] # l
    PROVE  Emits(o, D, U \cup {<<l, d>>}, Branch(p, l)) /\ Branch(p, l).depth = d
<1> DEFINE q == Branch(p, l)
<1>1. /\ Defs(q) = Defs(p) /\ Uses(q) = Uses(p) \cup {<<l, d, p.addr>>}
      /\ q.addr = p.addr + 1 /\ q.depth = d
  <2>1. p.depth - 1 = d
    OBVIOUS
  <2>2. /\ Defs(q) = Defs(p) /\ Uses(q) = Uses(p) \cup {<<l, p.depth - 1, p.addr>>}
        /\ q.addr = p.addr + 1 /\ q.depth = p.depth - 1
    BY EmitterEffects
  <2> HIDE DEF q
  <2> QED
    BY <2>1, <2>2
<1> HIDE DEF q
<1>2. Emits(o, D, U \cup {<<l, d>>}, q)
  BY <1>1, EmitsUse
<1> QED
  BY <1>1, <1>2 DEF q

LEMMA EmitsMore ==
    ASSUME NEW o, NEW D, NEW U, NEW p, Emits(o, D, U, p), NEW V, U \subseteq V
    PROVE  Emits(o, D, V, p)
BY DEF Emits

\* The labels of an expression that begins at depth d.
ExpPlaces(e, id, d) ==
    CASE e = "and"     -> {<<<<"endand", id>>, d + 1>>}
      [] e = "or"      -> {<<<<"endor", id>>, d + 1>>}
      [] e = "ternary" -> {<<<<"@else", id>>, d>>, <<<<"@endif", id>>, d + 1>>}
      [] e = "new"     -> {<<<<"@skip", id>>, d + 2>>, <<<<"@end", id>>, d + 1>>}
      [] e = "super"   -> {<<<<"@skip", id>>, d + 1>>}
      [] OTHER         -> {}

LEMMA EmitsShortCircuit ==
    ASSUME NEW o, NEW D, NEW U, NEW p, Emits(o, D, U, p), p.depth \in Int,
           NEW l, \A x \in D : x[1] # l
    PROVE  /\ Emits(o, D \cup {<<l, p.depth + 1>>}, U \cup {<<l, p.depth + 1>>},
                    ShortCircuit(p, l))
           /\ ShortCircuit(p, l).depth = p.depth + 1
<1> DEFINE d == p.depth + 1
           o1 == Code(p, 2)
           o2 == Branch(o1, l)
           o3 == Code(o2, 0)
           o4 == Define(o3, l)
<1>1. Emits(o, D, U, o1) /\ d \in Int /\ o1.depth = d + 1 /\ d = d + 0
  BY EmitsCode
<1> HIDE DEF d, o1
<1>2. Emits(o, D, U \cup {<<l, d>>}, o2) /\ o2.depth = d
  BY <1>1, EmitsBranch
<1> HIDE DEF o2
<1>3. Emits(o, D, U \cup {<<l, d>>}, o3) /\ o3.depth = d
  BY <1>1, <1>2, EmitsCode
<1> HIDE DEF o3
<1>4. Emits(o, D \cup {<<l, d>>}, U \cup {<<l, d>>}, o4) /\ o4.depth = d
  BY <1>3, EmitsDefine
<1>5. o4 = ShortCircuit(p, l)
  BY DEF ShortCircuit, o1, o2, o3
<1> HIDE DEF o4
<1> QED
  BY <1>4, <1>5 DEF d

LEMMA EmitsTernary ==
    ASSUME NEW o, NEW D, NEW U, NEW p, Emits(o, D, U, p), p.depth \in Int,
           NEW id, \A x \in D : x[1] # <<"@else", id>> /\ x[1] # <<"@endif", id>>
    PROVE  /\ Emits(o, D \cup ExpPlaces("ternary", id, p.depth),
                    U \cup ExpPlaces("ternary", id, p.depth), Ternary(p, id))
           /\ Ternary(p, id).depth = p.depth + 1
<1> DEFINE else == <<"@else", id>>
           endif == <<"@endif", id>>
           d == p.depth
           o1 == Code(p, 1)
           o2 == Branch(o1, else)
           o3 == Code(o2, 1)
           o4 == Jump(o3, endif)
           o5 == AtDepth(o4, d)
           o6 == Define(o5, else)
           o7 == Code(o6, 1)
           o8 == Define(o7, endif)
           V == (U \cup {<<else, d>>}) \cup {<<endif, d + 1>>}
           E == (D \cup {<<else, d>>}) \cup {<<endif, d + 1>>}
<1>1. Emits(o, D, U, o1) /\ o1.depth = d + 1 /\ d \in Int
  BY EmitsCode
<1> HIDE DEF d, o1
<1>2. Emits(o, D, U \cup {<<else, d>>}, o2) /\ o2.depth = d
  <2>1. \A x \in D : x[1] # else
    OBVIOUS
  <2> HIDE DEF else
  <2> QED BY <1>1, <2>1, EmitsBranch
<1> HIDE DEF o2
<1>3. Emits(o, D, U \cup {<<else, d>>}, o3) /\ o3.depth = d + 1
  <2> HIDE DEF else
  <2> QED BY <1>2, EmitsCode
<1> HIDE DEF o3
<1>4. Emits(o, D, V, o4)
  <2>1. \A x \in D : x[1] # endif
    OBVIOUS
  <2> HIDE DEF else, endif
  <2> QED BY <1>3, <2>1, EmitsJump
<1> HIDE DEF o4, V
<1>5. Emits(o, D, V, o5) /\ o5.depth = d
  BY <1>4, EmitsCode
<1> HIDE DEF o5
<1>6. Emits(o, D \cup {<<else, d>>}, V, o6) /\ o6.depth = d
  <2> HIDE DEF else
  <2> QED BY <1>5, EmitsDefine
<1> HIDE DEF o6
<1>7. Emits(o, D \cup {<<else, d>>}, V, o7) /\ o7.depth = d + 1
  <2> HIDE DEF else
  <2> QED BY <1>6, EmitsCode
<1> HIDE DEF o7
<1>8. Emits(o, E, V, o8) /\ o8.depth = d + 1
  <2> HIDE DEF else, endif
  <2> QED BY <1>7, EmitsDefine
<1>9. /\ E = D \cup ExpPlaces("ternary", id, p.depth)
      /\ V = U \cup ExpPlaces("ternary", id, p.depth)
  BY DEF ExpPlaces, V, d
<1>10. o8 = Ternary(p, id)
  BY DEF Ternary, o1, o2, o3, o4, o5, o6, o7, d
<1> HIDE DEF E, o8
<1> QED
  BY <1>8, <1>9, <1>10 DEF d

LEMMA EmitsNewObject ==
    ASSUME NEW o, NEW D, NEW U, NEW p, Emits(o, D, U, p), p.depth \in Int,
           NEW id, \A x \in D : x[1] # <<"@skip", id>>
    PROVE  /\ Emits(o, D \cup ExpPlaces("new", id, p.depth),
                    U \cup ExpPlaces("new", id, p.depth), NewObject(p, id))
           /\ NewObject(p, id).depth = p.depth + 1
<1> DEFINE skip == <<"@skip", id>>
           end == <<"@end", id>>
           d == p.depth
           o1 == Code(p, 3)
           o2 == Branch(o1, skip)
           o3 == Code(o2, 0)
           o4 == Define(o3, skip)
           o5 == Code(o4, -1)
           o6 == Define(o5, end)
           V == U \cup {<<skip, d + 2>>}
           E == (D \cup {<<skip, d + 2>>}) \cup {<<end, d + 1>>}
<1>1. Emits(o, D, U, o1) /\ o1.depth = d + 2 + 1 /\ d + 2 \in Int
  BY EmitsCode
<1> HIDE DEF o1
<1>2. Emits(o, D, V, o2) /\ o2.depth = d + 2
  <2>1. \A x \in D : x[1] # skip
    OBVIOUS
  <2> HIDE DEF skip
  <2> QED BY <1>1, <2>1, EmitsBranch DEF V
<1> HIDE DEF o2, V
<1>3. Emits(o, D, V, o3) /\ o3.depth = d + 2
  BY <1>2, EmitsCode
<1> HIDE DEF o3
<1>4. Emits(o, D \cup {<<skip, d + 2>>}, V, o4) /\ o4.depth = d + 2
  <2> HIDE DEF skip
  <2> QED BY <1>3, EmitsDefine
<1> HIDE DEF o4
<1>5. Emits(o, D \cup {<<skip, d + 2>>}, V, o5) /\ o5.depth = d + 1
  <2>1. Emits(o, D \cup {<<skip, d + 2>>}, V, o5) /\ o5.depth = o4.depth + (-1)
    <3> HIDE DEF skip
    <3> QED BY <1>4, EmitsCode
  <2>2. d + 2 + (-1) = d + 1
    OBVIOUS
  <2> HIDE DEF o5
  <2> QED BY <1>4, <2>1, <2>2
<1> HIDE DEF o5
<1>6. Emits(o, E, V, o6) /\ o6.depth = d + 1
  <2> HIDE DEF skip, end
  <2> QED BY <1>5, EmitsDefine
<1>7. V \subseteq U \cup ExpPlaces("new", id, p.depth)
  BY DEF ExpPlaces, V
<1>8. E = D \cup ExpPlaces("new", id, p.depth)
  BY DEF ExpPlaces
<1>9. o6 = NewObject(p, id)
  BY DEF NewObject, o1, o2, o3, o4, o5
<1> HIDE DEF E, o6
<1> QED
  BY <1>6, <1>7, <1>8, <1>9, EmitsMore

\* generate_exp.
LEMMA EmitsExp ==
    ASSUME NEW o, NEW D, NEW U, NEW p, Emits(o, D, U, p), p.depth \in Int,
           NEW e \in Exps, NEW id, \A x \in D : x[1][2] # id
    PROVE  /\ Emits(o, D \cup ExpPlaces(e, id, p.depth), U \cup ExpPlaces(e, id, p.depth),
                    GenerateExp(p, e, id))
           /\ GenerateExp(p, e, id).depth = p.depth + 1
<1>0. e \in ExpShapes
  BY ExpsAssumption
<1>1. ASSUME NEW kind
      PROVE  \A x \in D : x[1] # <<kind, id>>
  OBVIOUS
<1>2. CASE e = "plain"
  <2>1. Emits(o, D, U, Code(p, 1)) /\ Code(p, 1).depth = p.depth + 1
    BY EmitsCode
  <2>2. ExpPlaces(e, id, p.depth) = {} /\ GenerateExp(p, e, id) = Code(p, 1)
    BY <1>2 DEF ExpPlaces, GenerateExp
  <2> QED
    BY <2>1, <2>2
<1>3. CASE e = "and"
  <2>1. /\ GenerateExp(p, e, id) = ShortCircuit(p, <<"endand", id>>)
        /\ ExpPlaces(e, id, p.depth) = {<<<<"endand", id>>, p.depth + 1>>}
    BY <1>3 DEF ExpPlaces, GenerateExp
  <2> QED
    BY <1>1, <2>1, EmitsShortCircuit
<1>4. CASE e = "or"
  <2>1. /\ GenerateExp(p, e, id) = ShortCircuit(p, <<"endor", id>>)
        /\ ExpPlaces(e, id, p.depth) = {<<<<"endor", id>>, p.depth + 1>>}
    BY <1>4 DEF ExpPlaces, GenerateExp
  <2> QED
    BY <1>1, <2>1, EmitsShortCircuit
<1>5. CASE e = "ternary"
  <2>1. GenerateExp(p, e, id) = Ternary(p, id)
    BY <1>5 DEF GenerateExp
  <2> QED
    BY <1>1, <1>5, <2>1, EmitsTernary
<1>6. CASE e = "new"
  <2>1. GenerateExp(p, e, id) = NewObject(p, id)
    BY <1>6 DEF GenerateExp
  <2> QED
    BY <1>1, <1>6, <2>1, EmitsNewObject
<1>7. CASE e = "super"
  <2> DEFINE skip == <<"@skip", id>>
             q == ShortCircuit(p, skip)
             b == p.depth + 1
  <2>1. \A x \in D : x[1] # skip
    BY <1>1
  <2>2. ExpPlaces(e, id, p.depth) = {<<skip, b>>} /\ GenerateExp(p, e, id) = Code(q, 0)
    BY <1>7 DEF ExpPlaces, GenerateExp, Super
  <2> HIDE DEF skip
  <2>3. Emits(o, D \cup {<<skip, b>>}, U \cup {<<skip, b>>}, q) /\ q.depth = b
    BY <2>1, EmitsShortCircuit
  <2>4. b \in Int /\ b + 0 = b
    OBVIOUS
  <2> HIDE DEF q, b
  <2>5. Emits(o, D \cup {<<skip, b>>}, U \cup {<<skip, b>>}, Code(q, 0)) /\ Code(q, 0).depth = b
    BY <2>3, <2>4, EmitsCode
  <2> QED
    BY <2>2, <2>5 DEF b
<1> QED
  BY <1>0, <1>2, <1>3, <1>4, <1>5, <1>6, <1>7 DEF ExpShapes

LEMMA ExpPlaceNumbers ==
    ASSUME NEW e \in Exps, NEW id \in Nat, NEW d \in Int
    PROVE  /\ \A x \in ExpPlaces(e, id, d) :
                 x[1][1] \in NumberedKinds /\ x[1][2] = id /\ IdsOf(e) = 1
           /\ \A x, y \in ExpPlaces(e, id, d) : x[1] = y[1] => x[2] = y[2]
BY ExpsAssumption DEF ExpShapes, ExpPlaces, IdsOf, NumberedKinds

-----------------------------------------------------------------------------
(* A step of a statement generator, from the frames fs, the output o and    *)
(* the next number n to gs, p and m.  P are the labels that it defines or   *)
(* jumps to, each with its depth.                                           *)

\* A new label has a new number, or that of an active generator, whose depth it
\* is emitted at.
OwnPlaces(fs, n, m, P) ==
    \A x \in P :
        /\ x[1][1] \in NumberedKinds
        /\ \/ x[1][2] \in n..(m - 1)
           \/ \E i \in 1..Len(fs) : x[1][2] \in Numbers(fs[i]) /\ x[2] = Base(fs, i)

\* A generator keeps its numbers; only the innermost one takes new numbers.
KeepNumbers(fs, n, gs, m, P) ==
    \A k \in 1..Len(gs) : \A c \in Numbers(gs[k]) :
        \/ /\ k = Len(gs)
           /\ c \in n..(m - 1)
           /\ \A x \in P : x[1][2] = c => x[2] = Base(gs, k)
        \/ /\ k \in 1..Len(fs)
           /\ c \in Numbers(fs[k])
           /\ Base(gs, k) = Base(fs, k)

OneDepth(P) == \A x, y \in P : x[1] = y[1] => x[2] = y[2]

LEMMA NumbersStep ==
    ASSUME NEW fs, NEW gs, NEW n \in Nat, NEW m \in Nat, n <= m, NEW P,
           NumbersInv(fs, n), KeepNumbers(fs, n, gs, m, P)
    PROVE  NumbersInv(gs, m)
<1>1. ASSUME NEW k \in 1..Len(gs), NEW c \in Numbers(gs[k])
      PROVE  \/ k = Len(gs) /\ c \in n..(m - 1)
             \/ k \in 1..Len(fs) /\ c \in Numbers(fs[k]) /\ c \in 0..(n - 1) \cup Functions
  BY DEF KeepNumbers, NumbersInv
<1>2. \A c \in n..(m - 1) : c \notin 0..(n - 1) \cup Functions
  BY FunctionsAssumption
<1>3. \A i \in 1..Len(gs) : Numbers(gs[i]) \subseteq 0..(m - 1) \cup Functions
  BY <1>1
<1>4. ASSUME NEW i \in 1..Len(gs), NEW j \in 1..Len(gs), i # j,
             NEW c \in Numbers(gs[i]), c \in Numbers(gs[j])
      PROVE  FALSE
  BY <1>1, <1>2, <1>4 DEF NumbersInv
<1> QED
  BY <1>3, <1>4 DEF NumbersInv

\* A new number labels no place yet.
LEMMA NewNumbers ==
    ASSUME NEW fs, NEW o, NEW n \in Nat, NEW m \in Nat, DepthInv(fs, o, n)
    PROVE  \A x \in Places(o) : x[1][2] \notin n..(m - 1)
<1>1. \A c \in n..(m - 1) : c \notin Used(o, n)
  BY FunctionsAssumption DEF Used
<1> QED
  BY <1>1 DEF DepthInv

LEMMA DepthStep ==
    ASSUME NEW fs, NEW gs, NEW o, NEW p, NEW n \in Nat, NEW m \in Nat, n <= m,
           NEW D, NEW U, Emits(o, D, U, p),
           NumbersInv(fs, n), DepthInv(fs, o, n),
           OwnPlaces(fs, n, m, D \cup U), OneDepth(D \cup U),
           KeepNumbers(fs, n, gs, m, D \cup U),
           \A i \in 1..Len(fs) : Numbers(fs[i]) \subseteq Used(o, n),
           p.depth = Base(gs, Len(gs))
    PROVE  DepthInv(gs, p, m)
<1> DEFINE P == D \cup U
           pair(x) == <<x[1], x[2]>>
<1>1. \A x \in Places(p) : x \in Places(o) \/ pair(x) \in P
  BY DEF Emits, Places
<1>2. \A x : pair(x)[1] = x[1] /\ pair(x)[2] = x[2]
  OBVIOUS
<1>3. Used(o, n) \subseteq Used(p, m) /\ n..(m - 1) \subseteq Used(p, m)
  BY NamesAreDefs DEF Used, Emits
<1>4. ASSUME NEW x \in Places(p), pair(x) \in P
      PROVE  \/ x[1][2] \in n..(m - 1)
             \/ \E i \in 1..Len(fs) : x[1][2] \in Numbers(fs[i]) /\ x[2] = Base(fs, i)
  BY <1>2, <1>4 DEF OwnPlaces
<1> HIDE DEF pair, P
<1>5. \A x \in Places(p) : x[1][2] \in Used(p, m)
  BY <1>1, <1>3, <1>4 DEF DepthInv
<1>6. ASSUME NEW x \in Places(o), NEW y \in Places(p), pair(y) \in P, x[1] = y[1]
      PROVE  x[2] = y[2]
  <2>1. y[1][2] \notin n..(m - 1) /\ x \in Places(o)
    BY <1>6, NewNumbers
  <2>2. PICK i \in 1..Len(fs) : y[1][2] \in Numbers(fs[i]) /\ y[2] = Base(fs, i)
    BY <1>4, <1>6, <2>1
  <2> QED
    BY <1>6, <2>2 DEF DepthInv
<1>7. ASSUME NEW x \in Places(p), NEW y \in Places(p), pair(x) \in P, pair(y) \in P,
             x[1] = y[1]
      PROVE  x[2] = y[2]
  BY <1>2, <1>7 DEF OneDepth, P
<1>8. \A x, y \in Places(p) : x[1] = y[1] => x[2] = y[2]
  BY <1>1, <1>6, <1>7 DEF DepthInv
<1>9. ASSUME NEW x \in Places(p), NEW k \in 1..Len(gs), x[1][2] \in Numbers(gs[k])
      PROVE  x[2] = Base(gs, k)
  <2>1. CASE /\ k = Len(gs)
             /\ x[1][2] \in n..(m - 1)
             /\ \A z \in P : z[1][2] = x[1][2] => z[2] = Base(gs, k)
    <3>1. x \notin Places(o)
      BY <2>1, NewNumbers
    <3>2. pair(x) \in P
      BY <1>1, <3>1
    <3> QED
      BY <1>2, <2>1, <3>2
  <2>2. CASE k \in 1..Len(fs) /\ x[1][2] \in Numbers(fs[k]) /\ Base(gs, k) = Base(fs, k)
    <3>1. CASE x \in Places(o)
      BY <2>2, <3>1 DEF DepthInv
    <3>2. CASE pair(x) \in P
      <4>1. x[1][2] \notin n..(m - 1)
        BY <2>2, FunctionsAssumption DEF NumbersInv
      <4>2. PICK i \in 1..Len(fs) : x[1][2] \in Numbers(fs[i]) /\ x[2] = Base(fs, i)
        BY <1>4, <3>2, <4>1
      <4>3. i = k
        BY <2>2, <4>2 DEF NumbersInv
      <4> QED
        BY <2>2, <4>2, <4>3
    <3> QED
      BY <1>1, <3>1, <3>2
  <2> QED
    BY <1>9, <2>1, <2>2 DEF KeepNumbers, P
<1> QED
  BY <1>5, <1>8, <1>9 DEF DepthInv

LEMMA ResolvedStep ==
    ASSUME NEW fs, NEW gs, NEW o, NEW p, NEW D, NEW U, Emits(o, D, U, p),
           ResolvedInv(fs, o),
           \A k \in 1..Len(gs) : Starts(gs[k]) \subseteq Names(p),
           \A i \in 1..Len(fs) : \A l \in Owed(fs[i]) :
              l \in Names(p) \/ \E k \in 1..Len(gs) : l \in Owed(gs[k]),
           \A u \in U : \/ u[1] \in Names(p)
                        \/ u[1][1] \in {"@while", "@enddo"}
                        \/ \E k \in 1..Len(gs) : u[1] \in Owed(gs[k])
    PROVE  ResolvedInv(gs, p)
<1>1. Names(o) \subseteq Names(p)
  BY NamesAreDefs DEF Emits
<1>2. ASSUME NEW x \in Uses(p)
      PROVE  \/ x[1] \in Names(p)
             \/ x[1][1] \in {"@while", "@enddo"}
             \/ \E k \in 1..Len(gs) : x[1] \in Owed(gs[k])
  <2>1. CASE x \in Uses(o)
    BY <1>1, <2>1 DEF ResolvedInv
  <2>2. CASE <<x[1], x[2]>> \in U
    BY <2>2
  <2> QED
    BY <2>1, <2>2 DEF Emits
<1> QED
  BY <1>2 DEF ResolvedInv

LEMMA BoundsStep ==
    ASSUME NEW fs, NEW gs, NEW o, NEW p, NEW n \in Nat, NEW m \in Nat, n <= m,
           NEW D, NEW U, Emits(o, D, U, p), Forward(o),
           NumbersInv(fs, n), DepthInv(fs, o, n), BoundsInv(fs, o),
           OwnPlaces(fs, n, m, D \cup U),
           KeepNumbers(fs, n, gs, m, D \cup U)
    PROVE  BoundsInv(gs, p)
<1> DEFINE P == D \cup U
           pair(x) == <<x[1], x[2]>>
<1>1. \A x \in Places(p) : x \in Places(o) \/ (pair(x) \in P /\ x[3] \in Nat /\ o.addr <= x[3])
  BY DEF Emits, Places
<1>2. \A x : pair(x)[1] = x[1] /\ pair(x)[2] = x[2]
  OBVIOUS
<1>3. \A x \in P : x[1][1] \notin NamedKinds
  BY DEF OwnPlaces, NumberedKinds, NamedKinds
<1>4. /\ Bounds(p) = Bounds(o)
      /\ \A c \in Bounds(o) : c[3] \in Nat /\ o.addr \in Nat /\ c[3] <= o.addr
  BY <1>2, <1>3 DEF Bounds, Emits, Forward
<1>5. ASSUME NEW x \in Places(p), pair(x) \in P
      PROVE  \/ x[1][2] \in n..(m - 1)
             \/ \E i \in 1..Len(fs) : x[1][2] \in Numbers(fs[i])
  BY <1>2, <1>5 DEF OwnPlaces
<1>6. \A x \in Places(o) : x[3] \in Nat
  BY DEF Places, Forward
<1> HIDE DEF pair, P
<1>7. ASSUME NEW x \in Places(p), pair(x) \in P, o.addr <= x[3], x[3] \in Nat, NEW c \in Bounds(p)
      PROVE  c[3] <= x[3]
  BY <1>4, <1>7
<1>8. ASSUME NEW x \in Places(o), NEW y \in Places(p), pair(y) \in P, x[1] = y[1],
             x[1][1] \in NumberedKinds, NEW c \in Bounds(p)
      PROVE  c[3] <= x[3]
  <2>1. y[1][2] \notin n..(m - 1)
    BY <1>8, NewNumbers
  <2>2. PICK i \in 1..Len(fs) : y[1][2] \in Numbers(fs[i])
    BY <1>5, <1>8, <2>1
  <2> QED
    BY <1>4, <1>8, <2>2 DEF BoundsInv
<1>9. ASSUME NEW x \in Uses(p), NEW y \in Defs(p), NEW c \in Bounds(p),
             x[1] = y[1], x[1][1] \in NumberedKinds
      PROVE  c[3] <= x[3] <=> c[3] <= y[3]
  <2>1. CASE x \in Uses(o) /\ y \in Defs(o)
    BY <1>4, <1>9, <2>1 DEF BoundsInv
  <2>2. CASE pair(x) \in P /\ o.addr <= x[3] /\ x[3] \in Nat
    <3>1. c[3] <= x[3]
      BY <1>7, <2>2 DEF Places
    <3>2. c[3] <= y[3]
      BY <1>1, <1>7, <1>8, <1>9, <2>2 DEF Places
    <3> QED
      BY <3>1, <3>2
  <2>3. CASE pair(y) \in P /\ o.addr <= y[3] /\ y[3] \in Nat
    <3>1. c[3] <= y[3]
      BY <1>7, <2>3 DEF Places
    <3>2. c[3] <= x[3]
      BY <1>1, <1>7, <1>8, <1>9, <2>3 DEF Places
    <3> QED
      BY <3>1, <3>2
  <2>4. /\ x \in Uses(o) \/ (pair(x) \in P /\ o.addr <= x[3] /\ x[3] \in Nat)
        /\ y \in Defs(o) \/ (pair(y) \in P /\ o.addr <= y[3] /\ y[3] \in Nat)
    BY DEF Emits, P, pair
  <2> QED
    BY <2>1, <2>2, <2>3, <2>4
<1>10. ASSUME NEW x \in Places(p), NEW k \in 1..Len(gs), NEW c \in Bounds(p),
              x[1][1] \in NumberedKinds, x[1][2] \in Numbers(gs[k])
       PROVE  c[3] <= x[3]
  <2>1. CASE pair(x) \in P /\ x[3] \in Nat /\ o.addr <= x[3]
    BY <1>7, <2>1
  <2>2. CASE x \in Places(o)
    <3>1. x[1][2] \notin n..(m - 1)
      BY <2>2, NewNumbers
    <3>2. k \in 1..Len(fs) /\ x[1][2] \in Numbers(fs[k])
      BY <1>10, <3>1 DEF KeepNumbers
    <3> QED
      BY <1>4, <1>10, <2>2, <3>2 DEF BoundsInv
  <2> QED
    BY <1>1, <2>1, <2>2
<1>11. ASSUME NEW x \in Uses(p), x[1][1] \in NamedKinds
       PROVE  x \in Uses(o)
  <2>1. x \in Uses(o) \/ pair(x) \in P
    BY DEF Emits, P, pair
  <2>2. pair(x) \notin P
    BY <1>2, <1>3, <1>11
  <2> QED
    BY <2>1, <2>2
<1>12. Defs(o) \subseteq Defs(p)
  BY DEF Emits
<1> QED
  BY <1>4, <1>9, <1>10, <1>11, <1>12 DEF BoundsInv

-----------------------------------------------------------------------------
(* The operands of the for loops.                                           *)

LEMMA BaseType ==
    ASSUME NEW fs, NEW k \in Nat
    PROVE  /\ IsFiniteSet({i \in 1..k : fs[i].kind = "for"})
           /\ Base(fs, k) \in Nat
<1>1. IsFiniteSet(1..k)
  BY FS_Interval
<1>2. {i \in 1..k : fs[i].kind = "for"} \in SUBSET (1..k)
  OBVIOUS
<1> DEFINE S == {i \in 1..k : fs[i].kind = "for"}
<1> HIDE DEF S
<1>3. IsFiniteSet(S)
  BY <1>1, <1>2, FS_Subset DEF S
<1>4. Cardinality(S) \in Nat
  BY <1>3, FS_CardinalityType
<1> QED
  BY <1>3, <1>4 DEF Base, S

LEMMA BaseSame ==
    ASSUME NEW fs, NEW gs, NEW k \in Nat, \A i \in 1..k : fs[i].kind = gs[i].kind
    PROVE  Base(fs, k) = Base(gs, k)
<1>1. {i \in 1..k : fs[i].kind = "for"} = {i \in 1..k : gs[i].kind = "for"}
  OBVIOUS
<1> QED
  BY <1>1 DEF Base

LEMMA BaseNext ==
    ASSUME NEW fs, NEW k \in Nat
    PROVE  Base(fs, k + 1) = Base(fs, k) + (IF fs[k + 1].kind = "for" THEN 3 ELSE 0)
<1> DEFINE S(n) == {i \in 1..n : fs[i].kind = "for"}
<1>1. IsFiniteSet(S(k)) /\ Cardinality(S(k)) \in Nat
  BY BaseType, FS_CardinalityType
<1>2. 1..(k + 1) = 1..k \cup {k + 1} /\ k + 1 \notin 1..k
  OBVIOUS
<1>3. CASE fs[k + 1].kind = "for"
  <2>1. S(k + 1) = S(k) \cup {k + 1} /\ k + 1 \notin S(k)
    BY <1>2, <1>3
  <2> HIDE DEF S
  <2>2. Cardinality(S(k + 1)) = Cardinality(S(k)) + 1
    BY <1>1, <2>1, FS_AddElement
  <2>3. 3 * (Cardinality(S(k)) + 1) = 3 * Cardinality(S(k)) + 3
    BY <1>1
  <2>4. Base(fs, k + 1) = 3 * Cardinality(S(k + 1)) /\ Base(fs, k) = 3 * Cardinality(S(k))
    BY DEF Base, S
  <2> QED
    BY <1>3, <2>2, <2>3, <2>4
<1>4. CASE fs[k + 1].kind # "for"
  <2>1. S(k + 1) = S(k)
    BY <1>2, <1>4
  <2>2. Base(fs, k + 1) = 3 * Cardinality(S(k + 1)) /\ Base(fs, k) = 3 * Cardinality(S(k))
    BY DEF Base
  <2>3. Base(fs, k) \in Nat
    BY BaseType
  <2> HIDE DEF S
  <2> QED
    BY <1>4, <2>1, <2>2, <2>3
<1> QED
  BY <1>3, <1>4

\* With no for loop from i + 1 to k, the operands are the same.
LEMMA BaseBetween ==
    ASSUME NEW fs, NEW k \in Nat, NEW i \in 1..k,
           \A j \in 1..k : i < j => fs[j].kind # "for"
    PROVE  Base(fs, i) = Base(fs, k)
<1>1. {j \in 1..i : fs[j].kind = "for"} = {j \in 1..k : fs[j].kind = "for"}
  OBVIOUS
<1> QED
  BY <1>1 DEF Base

-----------------------------------------------------------------------------
(* Steps of the generators.                                                 *)

LEMMA FlowInvNext ==
    ASSUME NumbersInv(frames', uniqueid'), CallablesInv(frames'),
           DepthInv(frames', output', uniqueid'), Forward(output'),
           ResolvedInv(frames', output'), BoundsInv(frames', output')
    PROVE  FlowInv'
BY DEF FlowInv, NumbersInv, CallablesInv, DepthInv, Forward, ResolvedInv, BoundsInv,
       Numbers, Starts, Owed, Pending, Base, Used, Places, Defs, Uses, Bounds, Names, Repeats

\* What has to be said of each step of a statement generator.
LEMMA FlowStep ==
    ASSUME TypeInv, LabelInv, FlowInv, uniqueid' \in Nat, uniqueid <= uniqueid',
           NEW D, NEW U, Emits(output, D, U, output'),
           OwnPlaces(frames, uniqueid, uniqueid', D \cup U), OneDepth(D \cup U),
           KeepNumbers(frames, uniqueid, frames', uniqueid', D \cup U),
           CallablesInv(frames'),
           output'.depth = Base(frames', Len(frames')),
           \A u \in U : Repeats(u[1]) \/ u[1] \notin Names(output),
           \A k \in 1..Len(frames') : Starts(frames'[k]) \subseteq Names(output'),
           \A i \in 1..Len(frames) : \A l \in Owed(frames[i]) :
              l \in Names(output') \/ \E k \in 1..Len(frames') : l \in Owed(frames'[k]),
           \A u \in U : \/ u[1] \in Names(output')
                        \/ u[1][1] \in {"@while", "@enddo"}
                        \/ \E k \in 1..Len(frames') : u[1] \in Owed(frames'[k])
    PROVE  FlowInv'
<1>0. uniqueid \in Nat
  BY DEF TypeInv
<1>1. \A i \in 1..Len(frames) : Numbers(frames[i]) \subseteq Used(output, uniqueid)
  <2> SUFFICES ASSUME NEW i \in 1..Len(frames), NEW c \in Numbers(frames[i])
               PROVE  c \in Used(output, uniqueid)
    OBVIOUS
  <2>1. frames[i] \in Frame
    BY DEF TypeInv, StackInv
  <2>2. CASE frames[i].kind \in CallableKinds
    <3>1. c = frames[i].id /\ frames[i].id \in Functions
      BY <2>1, <2>2 DEF Numbers, CallableKinds, Frame, StatementKinds, LoopKinds
    <3> QED
      BY <2>2, <3>1 DEF LabelInv, OpenEntriesInv, Used
  <2>3. CASE frames[i].kind \notin CallableKinds
    <3>1. c \in Nat
      BY <2>1, <2>3 DEF Frame, Numbers
    <3>2. c \in 0..(uniqueid - 1) \cup Functions
      BY DEF FlowInv, NumbersInv
    <3> QED
      BY <3>1, <3>2, FunctionsAssumption DEF Used
  <2> QED
    BY <2>2, <2>3
<1>2. NumbersInv(frames', uniqueid')
  BY <1>0, NumbersStep DEF FlowInv
<1>3. DepthInv(frames', output', uniqueid')
  BY <1>0, <1>1, DepthStep DEF FlowInv
<1>4. Forward(output')
  BY DEF FlowInv, Emits
<1>5. ResolvedInv(frames', output')
  BY ResolvedStep DEF FlowInv
<1>6. BoundsInv(frames', output')
  BY <1>0, BoundsStep DEF FlowInv
<1> QED
  BY <1>2, <1>3, <1>4, <1>5, <1>6, FlowInvNext

\* What a frame stands for depends on its kind and its numbers only.
LEMMA SameFrame ==
    ASSUME NEW fr, NEW gr, fr.kind = gr.kind, fr.id = gr.id, fr.block = gr.block
    PROVE  /\ Numbers(fr) = Numbers(gr)
           /\ Starts(fr) = Starts(gr)
           /\ Owed(fr) = Owed(gr)
BY PendingSame DEF Numbers, Starts, Owed

\* The generators stay.
LEMMA SameFlow ==
    ASSUME TypeInv, LabelInv, FlowInv, uniqueid' \in Nat, uniqueid <= uniqueid',
           frames' \in Seq(Frame), Len(frames') = Len(frames),
           \A i \in 1..Len(frames) :
              /\ frames'[i].kind = frames[i].kind
              /\ frames'[i].id = frames[i].id
              /\ frames'[i].block = frames[i].block,
           NEW D, NEW U, Emits(output, D, U, output'),
           OwnPlaces(frames, uniqueid, uniqueid', D \cup U), OneDepth(D \cup U),
           output'.depth = output.depth,
           \A u \in U : Repeats(u[1]) \/ u[1] \notin Names(output),
           \A u \in U : \/ u[1] \in Names(output')
                        \/ u[1][1] \in {"@while", "@enddo"}
                        \/ \E i \in 1..Len(frames) : u[1] \in Owed(frames[i])
    PROVE  FlowInv'
<1>1. \A i \in 1..Len(frames) :
         /\ Numbers(frames'[i]) = Numbers(frames[i])
         /\ Starts(frames'[i]) = Starts(frames[i])
         /\ Owed(frames'[i]) = Owed(frames[i])
  BY SameFrame
<1>2. Len(frames) \in Nat
  BY DEF TypeInv, StackInv
<1>3. ASSUME NEW i \in 0..Len(frames)
      PROVE  Base(frames', i) = Base(frames, i)
  <2>1. i \in Nat /\ \A j \in 1..i : frames[j].kind = frames'[j].kind
    BY <1>2
  <2> QED
    BY <2>1, BaseSame
<1>4. KeepNumbers(frames, uniqueid, frames', uniqueid', D \cup U)
  BY <1>1, <1>2, <1>3 DEF KeepNumbers
<1>5. CallablesInv(frames')
  BY DEF FlowInv, CallablesInv
<1>6. output'.depth = Base(frames', Len(frames'))
  BY <1>2, <1>3 DEF FlowInv, DepthInv
<1>7. \A k \in 1..Len(frames') : Starts(frames'[k]) \subseteq Names(output')
  <2>1. Names(output) \subseteq Names(output')
    BY NamesAreDefs DEF Emits
  <2> QED
    BY <1>1, <2>1 DEF FlowInv, ResolvedInv
<1>8. \A i \in 1..Len(frames) : \A l \in Owed(frames[i]) :
         l \in Names(output') \/ \E k \in 1..Len(frames') : l \in Owed(frames'[k])
  BY <1>1
<1>9. \A u \in U : \/ u[1] \in Names(output')
                   \/ u[1][1] \in {"@while", "@enddo"}
                   \/ \E k \in 1..Len(frames') : u[1] \in Owed(frames'[k])
  BY <1>1
<1> QED
  BY <1>4, <1>5, <1>6, <1>7, <1>8, <1>9, FlowStep

\* A generator begins; all labels of its head are new.
LEMMA OpenFlow ==
    ASSUME TypeInv, LabelInv, FlowInv, uniqueid' \in Nat, uniqueid <= uniqueid',
           NEW kind \in StatementKinds, NEW id \in Nat, NEW block \in Nat,
           NEW body \in {"lines", "one"}, OpenBody(kind, id, block, body),
           NEW fr, fr = [kind |-> kind, id |-> id, block |-> block, body |-> body],
           Numbers(fr) \subseteq uniqueid..(uniqueid' - 1),
           NEW D, NEW U, Emits(output, D, U, output'),
           \A x \in D \cup U : /\ x[1][1] \in NumberedKinds
                               /\ x[1][2] \in uniqueid..(uniqueid' - 1)
                               /\ x[1][2] \in Numbers(fr) => x[2] = output'.depth,
           OneDepth(D \cup U),
           output'.depth = output.depth + (IF kind = "for" THEN 3 ELSE 0),
           Starts(fr) \subseteq Names(output'),
           \A u \in U : u[1] \in Names(output') \/ u[1] \in Owed(fr)
    PROVE  FlowInv'
<1> DEFINE hs == Counted(frames)
           n == Len(frames)
<1>1. /\ uniqueid \in Nat /\ frames \in Seq(Frame) /\ n \in Nat
      /\ frames' = Append(hs, fr) /\ fr.kind = kind
  BY DEF TypeInv, StackInv, OpenBody
<1>2. /\ hs \in Seq(Frame) /\ Len(hs) = n
      /\ \A i \in 1..n : /\ hs[i].kind = frames[i].kind
                         /\ hs[i].id = frames[i].id
                         /\ hs[i].block = frames[i].block
  BY <1>1, CountedProperties
<1>3. /\ Len(frames') = n + 1 /\ frames'[n + 1] = fr
      /\ \A i \in 1..n : frames'[i] = hs[i]
  <2> HIDE DEF hs
  <2> QED BY <1>1, <1>2
<1>16. uniqueid \in Nat /\ n \in Nat /\ Len(frames) = n /\ fr.kind = kind
  BY <1>1
<1> HIDE DEF hs, n
<1>4. \A i \in 1..n : /\ Numbers(frames'[i]) = Numbers(frames[i])
                      /\ Starts(frames'[i]) = Starts(frames[i])
                      /\ Owed(frames'[i]) = Owed(frames[i])
                      /\ frames'[i].kind = frames[i].kind
  BY <1>2, <1>3, SameFrame
<1>5. ASSUME NEW i \in 0..n
      PROVE  Base(frames', i) = Base(frames, i)
  <2>1. i \in Nat /\ \A j \in 1..i : j \in 1..n
    BY <1>16
  <2>2. \A j \in 1..i : frames[j].kind = frames'[j].kind
    BY <1>4, <2>1
  <2> QED
    BY <2>1, <2>2, BaseSame
<1>6. output'.depth = Base(frames', n + 1)
  <2>1. Base(frames', n + 1) = Base(frames', n) + (IF kind = "for" THEN 3 ELSE 0)
    <3>1. frames'[n + 1].kind = kind
      BY <1>3, <1>16
    <3>2. Base(frames', n + 1)
            = Base(frames', n) + (IF frames'[n + 1].kind = "for" THEN 3 ELSE 0)
      BY <1>16, BaseNext
    <3> QED
      BY <3>1, <3>2
  <2>2. Base(frames', n) = output.depth
    BY <1>16, <1>5 DEF FlowInv, DepthInv, n
  <2> QED
    BY <2>1, <2>2
<1>7. \A i \in 1..(n + 1) : i \in 1..n \/ i = n + 1
  BY <1>16
<1>8. OwnPlaces(frames, uniqueid, uniqueid', D \cup U)
  BY DEF OwnPlaces
<1>9. KeepNumbers(frames, uniqueid, frames', uniqueid', D \cup U)
  <2> SUFFICES ASSUME NEW k \in 1..(n + 1), NEW c \in Numbers(frames'[k])
               PROVE  \/ /\ k = n + 1
                         /\ c \in uniqueid..(uniqueid' - 1)
                         /\ \A x \in D \cup U : x[1][2] = c => x[2] = Base(frames', k)
                      \/ /\ k \in 1..n
                         /\ c \in Numbers(frames[k])
                         /\ Base(frames', k) = Base(frames, k)
    BY <1>3, <1>16 DEF KeepNumbers
  <2>1. CASE k = n + 1
    BY <1>3, <1>6, <2>1
  <2>2. CASE k \in 1..n
    BY <1>16, <1>4, <1>5, <2>2
  <2> QED
    BY <1>7, <2>1, <2>2
<1>10. CallablesInv(frames')
  <2>1. fr.kind \notin CallableKinds
    BY <1>16 DEF StatementKinds, LoopKinds, CallableKinds
  <2> QED
    BY <1>3, <1>4, <1>7, <2>1 DEF FlowInv, CallablesInv, n
<1>11. \A u \in U : u[1] \notin Names(output)
  <2> SUFFICES ASSUME NEW u \in U PROVE u[1] \notin Names(output)
    OBVIOUS
  <2>1. From(u[1], uniqueid)
    BY <1>16 DEF From
  <2> QED
    BY <1>16, <2>1, FromIsNew
<1>12. Names(output) \subseteq Names(output')
  BY NamesAreDefs DEF Emits
<1>13. \A k \in 1..Len(frames') : Starts(frames'[k]) \subseteq Names(output')
  BY <1>3, <1>4, <1>7, <1>12 DEF FlowInv, ResolvedInv, n
<1>14. \A i \in 1..Len(frames) : \A l \in Owed(frames[i]) :
          \E k \in 1..Len(frames') : l \in Owed(frames'[k])
  BY <1>16, <1>3, <1>4
<1>15. \A u \in U : u[1] \in Names(output') \/ \E k \in 1..Len(frames') : u[1] \in Owed(frames'[k])
  BY <1>16, <1>3
<1> QED
  BY <1>3, <1>6, <1>8, <1>9, <1>10, <1>11, <1>13, <1>14, <1>15, FlowStep

\* The innermost generator ends, with what it still has to define.
LEMMA CloseFlow ==
    ASSUME TypeInv, LabelInv, FlowInv, uniqueid' \in Nat, uniqueid <= uniqueid',
           NEW kind \in StatementKinds, CloseBody(kind),
           NEW D, NEW U, Emits(output, D, U, output'),
           \A x \in D \cup U :
              /\ x[1][1] \in NumberedKinds
              /\ \/ x[1][2] \in uniqueid..(uniqueid' - 1)
                 \/ x[1][2] \in Numbers(Top) /\ x[2] = output.depth,
           OneDepth(D \cup U),
           output'.depth = output.depth - (IF kind = "for" THEN 3 ELSE 0),
           Owed(Top) \subseteq Names(output'),
           \A u \in U : Repeats(u[1]) \/ u[1] \notin Names(output),
           \A u \in U : u[1] \in Names(output')
    PROVE  FlowInv'
<1> DEFINE n == Len(frames) - 1
<1>1. /\ uniqueid \in Nat /\ frames \in Seq(Frame) /\ frames # <<>>
      /\ frames' = Front(frames) /\ Top.kind = kind
  BY DEF TypeInv, StackInv, CloseBody
<1>2. /\ n \in Nat /\ Len(frames) = n + 1 /\ Top = frames[n + 1]
      /\ Len(frames') = n
      /\ \A i \in 1..n : frames'[i] = frames[i]
  <2>1. n \in Nat /\ Len(frames) = n + 1
    BY <1>1
  <2>2. Top = frames[Len(frames)]
    BY <1>1, LastProperties DEF Top
  <2>3. Len(frames') = Len(frames) - 1 /\ \A i \in 1..(Len(frames) - 1) : frames'[i] = frames[i]
    BY <1>1, FrontProperties
  <2> QED
    BY <2>1, <2>2, <2>3
<1> HIDE DEF n
<1>12. /\ \A i \in 1..n : i \in 1..(n + 1)
       /\ \A i \in 1..(n + 1) : i \in 1..n \/ i = n + 1
       /\ n + 1 \in 1..(n + 1)
  BY <1>2
<1>3. ASSUME NEW i \in 0..n
      PROVE  Base(frames', i) = Base(frames, i)
  <2>1. i \in Nat /\ \A j \in 1..i : frames[j].kind = frames'[j].kind
    BY <1>2
  <2> QED
    BY <2>1, BaseSame
<1>4. output.depth = Base(frames, n + 1)
  BY <1>2 DEF FlowInv, DepthInv
<1>5. output'.depth = Base(frames', Len(frames'))
  <2>1. Base(frames, n + 1) = Base(frames, n) + (IF kind = "for" THEN 3 ELSE 0)
    BY <1>1, <1>2, BaseNext
  <2>2. n \in 0..n /\ n \in Nat
    BY <1>2
  <2>3. Base(frames', n) = Base(frames, n)
    BY <1>3, <2>2
  <2>4. Base(frames, n) \in Nat
    BY <2>2, BaseType
  <2> QED
    BY <1>2, <1>4, <2>1, <2>3, <2>4
<1>6. OwnPlaces(frames, uniqueid, uniqueid', D \cup U)
  BY <1>2, <1>4, <1>12 DEF OwnPlaces
<1>7. KeepNumbers(frames, uniqueid, frames', uniqueid', D \cup U)
  BY <1>2, <1>3, <1>12 DEF KeepNumbers
<1>8. CallablesInv(frames')
  BY <1>2, <1>12 DEF FlowInv, CallablesInv
<1>9. Names(output) \subseteq Names(output')
  BY NamesAreDefs DEF Emits
<1>10. \A k \in 1..Len(frames') : Starts(frames'[k]) \subseteq Names(output')
  BY <1>2, <1>9, <1>12 DEF FlowInv, ResolvedInv
<1>11. \A i \in 1..Len(frames) : \A l \in Owed(frames[i]) :
          l \in Names(output') \/ \E k \in 1..Len(frames') : l \in Owed(frames'[k])
  BY <1>2, <1>12
<1> QED
  BY <1>5, <1>6, <1>7, <1>8, <1>10, <1>11, FlowStep

-----------------------------------------------------------------------------
(* The actions.                                                             *)

\* The code of an expression with a new number.
LEMMA NewExp ==
    ASSUME TypeInv, LabelInv, NEW e \in Exps, NEW id \in Nat, uniqueid <= id, NEW d \in Int
    PROVE  /\ \A x \in ExpPlaces(e, id, d) :
                 /\ x[1][1] \in NumberedKinds
                 /\ x[1][2] = id /\ IdsOf(e) = 1
                 /\ x[1] \notin Names(output)
           /\ OneDepth(ExpPlaces(e, id, d))
<1>1. /\ \A x \in ExpPlaces(e, id, d) :
            x[1][1] \in NumberedKinds /\ x[1][2] = id /\ IdsOf(e) = 1
      /\ OneDepth(ExpPlaces(e, id, d))
  BY ExpPlaceNumbers DEF OneDepth
<1>2. ASSUME NEW x \in ExpPlaces(e, id, d)
      PROVE  x[1] \notin Names(output)
  <2>1. From(x[1], uniqueid)
    BY <1>1 DEF From, TypeInv
  <2> QED
    BY <2>1, FromIsNew DEF TypeInv
<1> QED
  BY <1>1, <1>2

\* The output so far.
LEMMA OutputSoFar ==
    ASSUME TypeInv
    PROVE  /\ Emits(output, {}, {}, output)
           /\ output.depth \in Int /\ output.addr \in Nat
           /\ uniqueid \in Nat /\ frames \in Seq(Frame)
BY EmitsNothing DEF TypeInv, StackInv, Output

LEMMA FirstExp ==
    ASSUME TypeInv, NEW e \in Exps, NEW id
    PROVE  /\ Emits(output, ExpPlaces(e, id, output.depth), ExpPlaces(e, id, output.depth),
                    GenerateExp(output, e, id))
           /\ GenerateExp(output, e, id).depth = output.depth + 1
<1> DEFINE o == output
           none == {}
           E == ExpPlaces(e, id, o.depth)
<1>1. Emits(o, none, none, o) /\ o.depth \in Int /\ \A x \in none : x[1][2] # id
  BY OutputSoFar
<1>2. none \cup E = E
  OBVIOUS
<1> HIDE DEF o, none
<1>3. /\ Emits(o, none \cup E, none \cup E, GenerateExp(o, e, id))
      /\ GenerateExp(o, e, id).depth = o.depth + 1
  BY <1>1, EmitsExp
<1> QED
  BY <1>2, <1>3 DEF o

LEMMA FirstJump ==
    ASSUME TypeInv, NEW l
    PROVE  /\ Emits(output, {}, {<<l, output.depth>>}, Jump(output, l))
           /\ Jump(output, l).depth = output.depth
<1> DEFINE d == output.depth
           o == output
           none == {}
<1>1. Emits(o, none, none, o) /\ d = o.depth /\ \A x \in none : x[1] # l
  BY OutputSoFar
<1>2. none \cup {<<l, d>>} = {<<l, d>>}
  OBVIOUS
<1> HIDE DEF d, o, none
<1>3. Emits(o, none, none \cup {<<l, d>>}, Jump(o, l)) /\ Jump(o, l).depth = d
  BY <1>1, EmitsJump
<1>4. Emits(o, none, {<<l, d>>}, Jump(o, l))
  BY <1>2, <1>3
<1> QED
  BY <1>3, <1>4 DEF d, o, none

\* A first label.
LEMMA FirstDefine ==
    ASSUME TypeInv, NEW l
    PROVE  /\ Emits(output, {<<l, output.depth>>}, {}, Define(output, l))
           /\ Define(output, l).depth = output.depth
<1> DEFINE d == output.depth
           o == output
           none == {}
<1>1. Emits(o, none, none, o) /\ d = o.depth
  BY OutputSoFar
<1>2. none \cup {<<l, d>>} = {<<l, d>>}
  OBVIOUS
<1> HIDE DEF d, o, none
<1>3. Emits(o, none \cup {<<l, d>>}, none, Define(o, l)) /\ Define(o, l).depth = d
  BY <1>1, EmitsDefine
<1>4. Emits(o, {<<l, d>>}, none, Define(o, l))
  BY <1>2, <1>3
<1> QED
  BY <1>3, <1>4 DEF d, o, none

LEMMA SimpleFlow ==
    ASSUME TypeInv, LabelInv, FlowInv, uniqueid' \in Nat, uniqueid <= uniqueid', Simple,
           NEW D, NEW U, Emits(output, D, U, output'),
           OwnPlaces(frames, uniqueid, uniqueid', D \cup U), OneDepth(D \cup U),
           output'.depth = output.depth,
           \A u \in U : Repeats(u[1]) \/ u[1] \notin Names(output),
           \A u \in U : \/ u[1] \in Names(output')
                        \/ u[1][1] \in {"@while", "@enddo"}
                        \/ \E i \in 1..Len(frames) : u[1] \in Owed(frames[i])
    PROVE  FlowInv'
<1>1. frames' = Counted(frames) /\ frames \in Seq(Frame)
  BY DEF Simple, TypeInv, StackInv
<1>2. /\ frames' \in Seq(Frame) /\ Len(frames') = Len(frames)
      /\ \A i \in 1..Len(frames) :
            /\ frames'[i].kind = frames[i].kind
            /\ frames'[i].id = frames[i].id
            /\ frames'[i].block = frames[i].block
  BY <1>1, CountedProperties
<1> QED
  BY <1>2, SameFlow

\* The label on top of a label stack belongs to some entry, and no later entry
\* has one.
LEMMA InnermostEntry ==
    ASSUME NEW labels \in Seq(Labels \cup {NoLabel}), Innermost(labels) # NoLabel
    PROVE  \E n \in 1..Len(labels) :
              /\ labels[n] = Innermost(labels)
              /\ \A j \in 1..Len(labels) : n < j => labels[j] = NoLabel
<1> DEFINE set == {i \in DOMAIN labels : labels[i] # NoLabel}
<1>1. set # {} /\ set \subseteq 1..Len(labels) /\ Len(labels) \in Nat
  <2>1. set = {} => Innermost(labels) = NoLabel
    BY DEF Innermost
  <2>2. DOMAIN labels = 1..Len(labels) /\ Len(labels) \in Nat
    OBVIOUS
  <2> QED
    BY <2>1, <2>2
<1>2. PICK n \in set : \A j \in set : j <= n
  <2> HIDE DEF set
  <2> QED BY <1>1, GreatestElement
<1>3. n \in 1..Len(labels) /\ labels[n] # NoLabel
  OBVIOUS
<1>4. \A j \in 1..Len(labels) : labels[j] # NoLabel => j <= n
  BY <1>2
<1>5. Innermost(labels) = labels[n]
  BY <1>3, <1>4, InnermostAt
<1>6. \A j \in 1..Len(labels) : n < j => labels[j] = NoLabel
  BY <1>4
<1> QED
  BY <1>3, <1>5, <1>6

\* break and continue leave the operand stack as it is for their loop.
LEMMA JumpFlow ==
    ASSUME TypeInv, LabelInv, FlowInv, NEW i \in 1..Len(frames), NEW l,
           l \in {BreakLabel(frames[i].kind, frames[i].id),
                  ContinueLabel(frames[i].kind, frames[i].id)},
           frames[i].kind \in LoopKinds,
           \A j \in 1..Len(frames) : i < j => frames[j].kind \notin LoopKinds,
           l # NoLabel, JumpStmt(l)
    PROVE  FlowInv'
<1> DEFINE U == {<<l, output.depth>>}
           fr == frames[i]
<1>1. /\ Simple /\ output' = Jump(output, l) /\ uniqueid' = uniqueid
      /\ uniqueid \in Nat /\ Len(frames) \in Nat
      /\ fr \in Frame
  BY DEF JumpStmt, TypeInv, StackInv
<1> HIDE DEF fr
<1>2. Emits(output, {}, U, output') /\ output'.depth = output.depth
  BY <1>1, FirstJump
<1>3. output.depth = Base(frames, i)
  <2>1. \A j \in 1..Len(frames) : i < j => frames[j].kind # "for"
    BY DEF LoopKinds
  <2>2. Base(frames, i) = Base(frames, Len(frames))
    BY <1>1, <2>1, BaseBetween
  <2> QED
    BY <2>2 DEF FlowInv, DepthInv
<1>4. /\ l[1] \in NumberedKinds /\ l[2] = fr.id /\ fr.id \in Numbers(fr)
      /\ l \in Starts(fr) \/ (l \in Pending(fr) /\ (l \in Owed(fr) \/ l[1] \in {"@while", "@enddo"}))
      /\ l \in Starts(fr) => Repeats(l)
  <2>0. fr.id \in Numbers(fr)
    BY DEF Numbers
  <2>1. CASE fr.kind = "while"
    <3>1. l = <<"endwhile", fr.id>> \/ l = <<"startwhile", fr.id>>
      BY <2>1 DEF BreakLabel, ContinueLabel, fr
    <3>2. <<"endwhile", fr.id>> \in Pending(fr) /\ <<"startwhile", fr.id>> \in Starts(fr)
          /\ <<"endwhile", fr.id>> \notin Starts(fr)
      BY <2>1 DEF Pending, Starts
    <3> QED
      BY <2>0, <3>1, <3>2 DEF Owed, NumberedKinds, Repeats
  <2>2. CASE fr.kind = "for"
    <3>1. l = <<"endfor", fr.id>> \/ l = <<"continue", fr.id>>
      BY <2>2 DEF BreakLabel, ContinueLabel, fr
    <3>2. /\ <<"endfor", fr.id>> \in Pending(fr) /\ <<"continue", fr.id>> \in Pending(fr)
          /\ <<"endfor", fr.id>> \notin Starts(fr) /\ <<"continue", fr.id>> \notin Starts(fr)
      BY <2>2 DEF Pending, Starts
    <3> QED
      BY <2>0, <3>1, <3>2 DEF Owed, NumberedKinds
  <2>3. CASE fr.kind = "do"
    <3>1. l = <<"@enddo", fr.id>> \/ l = <<"@while", fr.id>>
      BY <2>3 DEF BreakLabel, ContinueLabel, fr
    <3>2. /\ <<"@enddo", fr.id>> \in Pending(fr) /\ <<"@while", fr.id>> \in Pending(fr)
          /\ <<"@enddo", fr.id>> \notin Starts(fr) /\ <<"@while", fr.id>> \notin Starts(fr)
      BY <2>3 DEF Pending, Starts
    <3> QED
      BY <2>0, <3>1, <3>2 DEF NumberedKinds
  <2> QED
    BY <2>1, <2>2, <2>3 DEF LoopKinds, fr
<1>5. \A u \in U : u[1] = l /\ u[2] = output.depth
  OBVIOUS
<1>6. {} \cup U = U
  OBVIOUS
<1> HIDE DEF U
<1>7. OwnPlaces(frames, uniqueid, uniqueid', {} \cup U)
  BY <1>3, <1>4, <1>5, <1>6 DEF OwnPlaces, fr
<1>8. OneDepth({} \cup U)
  BY <1>5, <1>6 DEF OneDepth
<1>9. \A x \in Pending(fr) : x \notin Names(output)
  BY DEF LabelInv, PendingInv, fr
<1>10. \A u \in U : Repeats(u[1]) \/ u[1] \notin Names(output)
  BY <1>4, <1>5, <1>9
<1>11. Names(output) \subseteq Names(output')
  BY <1>2, NamesAreDefs DEF Emits
<1>12. \A u \in U : \/ u[1] \in Names(output')
                    \/ u[1][1] \in {"@while", "@enddo"}
                    \/ \E k \in 1..Len(frames) : u[1] \in Owed(frames[k])
  <2>1. Starts(fr) \subseteq Names(output)
    BY DEF FlowInv, ResolvedInv, fr
  <2> QED
    BY <1>4, <1>5, <1>11, <2>1 DEF fr
<1>13. uniqueid' \in Nat /\ uniqueid <= uniqueid'
  BY <1>1
<1> QED
  BY <1>1, <1>2, <1>7, <1>8, <1>10, <1>12, <1>13, SimpleFlow

LEMMA SimpleStmtFlow ==
    ASSUME TypeInv, LabelInv, FlowInv, SimpleStmt
    PROVE  FlowInv'
<1>0. /\ uniqueid \in Nat /\ output.depth \in Int /\ frames \in Seq(Frame)
      /\ Emits(output, {}, {}, output)
  BY OutputSoFar
<1>1. ASSUME NEW e \in Exps, ExpressionStmt(e) \/ ReturnStmt(e)
      PROVE  FlowInv'
  <2> DEFINE E == ExpPlaces(e, uniqueid, output.depth)
             o1 == GenerateExp(output, e, uniqueid)
             o2 == Code(o1, -1)
  <2>1. /\ Simple /\ uniqueid' = uniqueid + IdsOf(e)
        /\ output' = o2 \/ output' = Code(o2, 0)
    BY <1>1 DEF ExpressionStmt, ReturnStmt
  <2>2. Emits(output, E, E, o1) /\ o1.depth = output.depth + 1
    BY <1>0, FirstExp
  <2>3. /\ \A x \in E : /\ x[1][1] \in NumberedKinds
                        /\ x[1][2] = uniqueid /\ IdsOf(e) = 1
                        /\ x[1] \notin Names(output)
        /\ OneDepth(E)
    BY <1>0, NewExp
  <2> HIDE DEF E, o1
  <2>4. Emits(output, E, E, o2) /\ o2.depth = o1.depth + (-1)
    BY <2>2, EmitsCode
  <2>5. o2.depth = output.depth
    BY <1>0, <2>2, <2>4
  <2> HIDE DEF o2
  <2>6. Emits(output, E, E, Code(o2, 0)) /\ Code(o2, 0).depth = o2.depth + 0
    BY <2>4, EmitsCode
  <2>7. Emits(output, E, E, output') /\ output'.depth = output.depth
    BY <1>0, <2>1, <2>4, <2>5, <2>6
  <2>8. uniqueid' \in Nat /\ uniqueid <= uniqueid'
    BY <1>0, <2>1, IdsOfType
  <2>9. OwnPlaces(frames, uniqueid, uniqueid', E \cup E)
    BY <1>0, <2>1, <2>3 DEF OwnPlaces
  <2>10. E \cup E = E /\ \A u \in E : u[1] \in Names(output')
    BY <2>7 DEF Emits
  <2> QED
    BY <2>1, <2>3, <2>7, <2>8, <2>9, <2>10, SimpleFlow
<1>2. ASSUME Simple, uniqueid' = uniqueid, Emits(output, {}, {}, output'),
             output'.depth = output.depth
      PROVE  FlowInv'
  <2>1. /\ OwnPlaces(frames, uniqueid, uniqueid', {} \cup {})
        /\ OneDepth({} \cup {})
        /\ uniqueid' \in Nat /\ uniqueid <= uniqueid'
    BY <1>0, <1>2 DEF OwnPlaces, OneDepth
  <2> QED
    BY <1>2, <2>1, SimpleFlow
<1>3. CASE SilentStmt
  BY <1>0, <1>2, <1>3 DEF SilentStmt
<1>4. CASE ReturnNothing
  <2>1. Emits(output, {}, {}, Code(output, 0)) /\ Code(output, 0).depth = output.depth + 0
    BY <1>0, EmitsCode
  <2> QED
    BY <1>0, <1>2, <1>4, <2>1 DEF ReturnNothing
<1>5. ASSUME NEW labels \in Seq(Labels \cup {NoLabel}), Len(labels) = Len(frames),
             JumpStmt(Innermost(labels)),
             \A i \in 1..Len(frames) :
                /\ labels[i] \in {BreakLabel(frames[i].kind, frames[i].id),
                                  ContinueLabel(frames[i].kind, frames[i].id)}
                /\ frames[i].kind \in LoopKinds <=> labels[i] # NoLabel
      PROVE  FlowInv'
  <2> DEFINE l == Innermost(labels)
  <2>1. CASE l = NoLabel
    BY <1>0, <1>2, <1>5, <2>1 DEF JumpStmt
  <2>2. CASE l # NoLabel
    <3>1. PICK i \in 1..Len(frames) :
             /\ labels[i] = l
             /\ \A j \in 1..Len(frames) : i < j => labels[j] = NoLabel
      BY <1>5, <2>2, InnermostEntry
    <3> HIDE DEF l
    <3>2. \A j \in 1..Len(frames) : i < j => frames[j].kind \notin LoopKinds
      BY <1>5, <3>1
    <3>3. JumpStmt(l)
      BY <1>5 DEF l
    <3> QED
      BY <1>5, <2>2, <3>1, <3>2, <3>3, JumpFlow
  <2> QED
    BY <2>1, <2>2
<1>6. \A i \in 1..Len(frames) :
         /\ frames[i].kind \in LoopKinds <=> BreakLabel(frames[i].kind, frames[i].id) # NoLabel
         /\ frames[i].kind \in LoopKinds <=> ContinueLabel(frames[i].kind, frames[i].id) # NoLabel
  BY <1>0, LoopsRegisterLabels
<1>7. CASE ContinueStmt
  BY <1>5, <1>6, <1>7 DEF ContinueStmt, TypeInv, StackInv, StacksMatch
<1>8. CASE BreakStmt
  BY <1>5, <1>6, <1>8 DEF BreakStmt, TypeInv, StackInv, StacksMatch
<1> QED
  BY <1>1, <1>3, <1>4, <1>7, <1>8 DEF SimpleStmt

\* The labels at the head of a loop, whose expression begins at depth b and whose
\* own labels are at depth d.
HeadPlaces(e, b, d, start, end) ==
    ExpPlaces(e, uniqueid + 1, b) \cup {<<<<start, uniqueid>>, d>>, <<<<end, uniqueid>>, d>>}

LoopBlock(e) == uniqueid + 1 + IdsOf(e)

LEMMA LoopPlaces ==
    ASSUME uniqueid \in Nat, NEW e \in Exps, NEW b \in Int, NEW d \in Int,
           NEW ks \in NumberedKinds, NEW ke \in NumberedKinds, ks # ke
    PROVE  /\ LoopBlock(e) \in Nat /\ uniqueid <= LoopBlock(e) + 1 /\ LoopBlock(e) + 1 \in Nat
           /\ {uniqueid, LoopBlock(e)} \subseteq uniqueid..(LoopBlock(e) + 1 - 1)
           /\ \A x \in HeadPlaces(e, b, d, ks, ke) :
                 /\ x[1][1] \in NumberedKinds
                 /\ x[1][2] \in uniqueid..(LoopBlock(e) + 1 - 1)
                 /\ x[1][2] \in {uniqueid, LoopBlock(e)} => x[2] = d
           /\ OneDepth(HeadPlaces(e, b, d, ks, ke))
<1> DEFINE E == ExpPlaces(e, uniqueid + 1, b)
           block == LoopBlock(e)
           P == HeadPlaces(e, b, d, ks, ke)
<1>1. IdsOf(e) \in {0, 1} /\ block = uniqueid + 1 + IdsOf(e)
  BY IdsOfType DEF LoopBlock
<1>2. /\ \A x \in E : x[1][1] \in NumberedKinds /\ x[1][2] = uniqueid + 1 /\ IdsOf(e) = 1
      /\ \A x, y \in E : x[1] = y[1] => x[2] = y[2]
  BY ExpPlaceNumbers
<1>3. \A x \in P : \/ x \in E
                   \/ x[1][1] = ks /\ x[1][2] = uniqueid /\ x[2] = d
                   \/ x[1][1] = ke /\ x[1][2] = uniqueid /\ x[2] = d
  BY DEF HeadPlaces
<1> HIDE DEF E, block, P
<1>4. \A x \in P : /\ x[1][1] \in NumberedKinds
                   /\ x[1][2] \in uniqueid..(block + 1 - 1)
                   /\ x[1][2] \in {uniqueid, block} => x[2] = d
  BY <1>1, <1>2, <1>3
<1>5. ASSUME NEW x \in P, NEW y \in P, x[1] = y[1]
      PROVE  x[2] = y[2]
  BY <1>2, <1>3, <1>5
<1>6. /\ block \in Nat /\ uniqueid <= block + 1 /\ block + 1 \in Nat
      /\ {uniqueid, block} \subseteq uniqueid..(block + 1 - 1)
  BY <1>1
<1>7. OneDepth(P)
  BY <1>5 DEF OneDepth
<1> QED
  BY <1>4, <1>6, <1>7 DEF block, P

LEMMA OpenWhileFlow ==
    ASSUME TypeInv, LabelInv, FlowInv,
           NEW e \in Exps, NEW body \in {"lines", "one"}, OpenWhile(e, body)
    PROVE  FlowInv'
<1> DEFINE start == <<"startwhile", uniqueid>>
           end == <<"endwhile", uniqueid>>
           block == LoopBlock(e)
           d == output.depth
           none == {}
           o1 == Define(output, start)
           o2 == GenerateExp(o1, e, uniqueid + 1)
           E == ExpPlaces(e, uniqueid + 1, d)
           S == {<<start, d>>}
           D == S \cup E
           U == (none \cup E) \cup {<<end, d>>}
           fr == [kind |-> "while", id |-> uniqueid, block |-> block, body |-> body]
<1>0. uniqueid \in Nat /\ d \in Int
  BY OutputSoFar
<1>1. /\ OpenBody("while", uniqueid, block, body)
      /\ output' = Branch(o2, end)
      /\ uniqueid' = block + 1
  BY DEF OpenWhile, LoopBlock
<1>2. Emits(output, S, none, o1) /\ o1.depth = d
  BY FirstDefine
<1>3. \A x \in E : x[1][2] = uniqueid + 1
  BY <1>0, ExpPlaceNumbers
<1>4. \A x \in S : x[1][2] # uniqueid + 1
  BY <1>0
<1> HIDE DEF o1, S, none
<1>5. Emits(output, D, none \cup E, o2) /\ o2.depth = d + 1
  <2> DEFINE F == ExpPlaces(e, uniqueid + 1, o1.depth)
  <2>1. o1.depth = d /\ o1.depth \in Int
    BY <1>0, <1>2
  <2>2. Emits(output, S \cup F, none \cup F, o2) /\ o2.depth = o1.depth + 1
    <3> HIDE DEF d
    <3> QED BY <1>2, <1>4, <2>1, EmitsExp
  <2> HIDE DEF o2, d
  <2> QED
    BY <2>1, <2>2
<1>6. \A x \in D : x[1] # end
  <2>1. \A x \in E : x[1] # end
    BY <1>0, <1>3
  <2>2. \A x \in S : x[1] # end
    BY DEF S
  <2> QED
    BY <2>1, <2>2
<1>7. Emits(output, D, U, output') /\ output'.depth = d
  <2> HIDE DEF o2, D, E, end, d
  <2> QED BY <1>0, <1>1, <1>5, <1>6, EmitsBranch
<1>8. D \cup U = HeadPlaces(e, d, d, "startwhile", "endwhile")
  BY DEF S, none, HeadPlaces
<1>9. /\ block \in Nat /\ uniqueid <= block + 1 /\ block + 1 \in Nat
      /\ {uniqueid, block} \subseteq uniqueid..(block + 1 - 1)
      /\ \A x \in D \cup U : /\ x[1][1] \in NumberedKinds
                             /\ x[1][2] \in uniqueid..(block + 1 - 1)
                             /\ x[1][2] \in {uniqueid, block} => x[2] = d
      /\ OneDepth(D \cup U)
  <2>1. "startwhile" \in NumberedKinds /\ "endwhile" \in NumberedKinds /\ "startwhile" # "endwhile"
    BY DEF NumberedKinds
  <2> DEFINE P == HeadPlaces(e, d, d, "startwhile", "endwhile")
  <2> HIDE DEF d, D, U
  <2>2. /\ block \in Nat /\ uniqueid <= block + 1 /\ block + 1 \in Nat
        /\ {uniqueid, block} \subseteq uniqueid..(block + 1 - 1)
        /\ \A x \in P : /\ x[1][1] \in NumberedKinds
                        /\ x[1][2] \in uniqueid..(block + 1 - 1)
                        /\ x[1][2] \in {uniqueid, block} => x[2] = d
        /\ OneDepth(P)
    BY <1>0, <2>1, LoopPlaces
  <2> HIDE DEF P, block
  <2> QED
    BY <1>8, <2>2 DEF P
<1>10. /\ Numbers(fr) = {uniqueid, block}
       /\ Starts(fr) = {start}
       /\ end \in Owed(fr)
  BY DEF Numbers, Starts, Owed, Pending
<1>11. \A x \in D : x[1] \in Names(output')
  BY <1>7 DEF Emits
<1>12. start \in Names(output')
  <2>1. <<start, d>> \in D /\ <<start, d>>[1] = start
    BY DEF S
  <2> QED
    BY <1>11, <2>1
<1>13. \A u \in U : u \in D \/ u[1] = end
  BY DEF none
<1>14. "while" \in StatementKinds /\ "while" # "for"
  BY DEF StatementKinds, LoopKinds
<1> HIDE DEF D, U, E, o2, start, end, block, d
<1>15. uniqueid' \in Nat /\ uniqueid <= uniqueid'
  BY <1>1, <1>9
<1>16. /\ Numbers(fr) \subseteq uniqueid..(uniqueid' - 1)
       /\ \A x \in D \cup U : /\ x[1][1] \in NumberedKinds
                              /\ x[1][2] \in uniqueid..(uniqueid' - 1)
                              /\ x[1][2] \in Numbers(fr) => x[2] = output'.depth
  BY <1>1, <1>7, <1>9, <1>10
<1>17. /\ Starts(fr) \subseteq Names(output')
       /\ \A u \in U : u[1] \in Names(output') \/ u[1] \in Owed(fr)
  BY <1>10, <1>11, <1>12, <1>13
<1>18. output'.depth = output.depth + (IF "while" = "for" THEN 3 ELSE 0)
  BY <1>0, <1>7, <1>14 DEF d
<1> QED
  BY <1>0, <1>1, <1>7, <1>9, <1>14, <1>15, <1>16, <1>17, <1>18, OpenFlow

LEMMA OpenForFlow ==
    ASSUME TypeInv, LabelInv, FlowInv,
           NEW e \in Exps, NEW body \in {"lines", "one"}, OpenFor(e, body)
    PROVE  FlowInv'
<1> DEFINE start == <<"startfor", uniqueid>>
           end == <<"endfor", uniqueid>>
           block == LoopBlock(e)
           b == output.depth
           d == b + 3
           o1 == GenerateExp(output, e, uniqueid + 1)
           o2 == Code(o1, 2)
           o3 == Define(o2, start)
           o4 == Code(o3, 1)
           o5 == Branch(o4, end)
           E == ExpPlaces(e, uniqueid + 1, b)
           D == E \cup {<<start, d>>}
           U == E \cup {<<end, d>>}
           fr == [kind |-> "for", id |-> uniqueid, block |-> block, body |-> body]
<1>0. uniqueid \in Nat /\ b \in Int /\ d \in Int
  BY OutputSoFar
<1>1. /\ OpenBody("for", uniqueid, block, body)
      /\ output' = Code(o5, 0)
      /\ uniqueid' = block + 1
  BY DEF OpenFor, LoopBlock
<1>2. Emits(output, E, E, o1) /\ o1.depth = b + 1
  BY FirstExp
<1>3. \A x \in E : x[1][2] = uniqueid + 1
  BY <1>0, ExpPlaceNumbers
<1> HIDE DEF o1
<1>4. Emits(output, E, E, o2) /\ o2.depth = d
  <2>1. Emits(output, E, E, o2) /\ o2.depth = o1.depth + 2
    BY <1>2, EmitsCode
  <2> QED
    BY <1>0, <1>2, <2>1
<1> HIDE DEF o2
<1>5. Emits(output, D, E, o3) /\ o3.depth = d
  <2> HIDE DEF d, E, start
  <2> QED BY <1>4, EmitsDefine
<1> HIDE DEF o3
<1>6. Emits(output, D, E, o4) /\ o4.depth = d + 1
  <2> HIDE DEF d, D, E
  <2> QED BY <1>5, EmitsCode
<1>7. \A x \in D : x[1] # end
  <2>1. \A x \in E : x[1] # end
    BY <1>0, <1>3
  <2>2. start # end
    OBVIOUS
  <2> QED
    BY <2>1, <2>2
<1> HIDE DEF o4
<1>8. Emits(output, D, U, o5) /\ o5.depth = d
  <2> HIDE DEF d, D, E, end
  <2> QED BY <1>0, <1>6, <1>7, EmitsBranch
<1> HIDE DEF o5
<1>9. Emits(output, D, U, output') /\ output'.depth = d
  <2>1. Emits(output, D, U, Code(o5, 0)) /\ Code(o5, 0).depth = o5.depth + 0
    BY <1>8, EmitsCode
  <2> HIDE DEF d, D, U
  <2> QED
    BY <1>0, <1>1, <1>8, <2>1
<1>10. D \cup U = HeadPlaces(e, b, d, "startfor", "endfor")
  BY DEF HeadPlaces
<1>11. /\ block \in Nat /\ uniqueid <= block + 1 /\ block + 1 \in Nat
       /\ {uniqueid, block} \subseteq uniqueid..(block + 1 - 1)
       /\ \A x \in D \cup U : /\ x[1][1] \in NumberedKinds
                              /\ x[1][2] \in uniqueid..(block + 1 - 1)
                              /\ x[1][2] \in {uniqueid, block} => x[2] = d
       /\ OneDepth(D \cup U)
  <2>1. "startfor" \in NumberedKinds /\ "endfor" \in NumberedKinds /\ "startfor" # "endfor"
    BY DEF NumberedKinds
  <2> DEFINE P == HeadPlaces(e, b, d, "startfor", "endfor")
  <2> HIDE DEF b, d, D, U
  <2>2. /\ block \in Nat /\ uniqueid <= block + 1 /\ block + 1 \in Nat
        /\ {uniqueid, block} \subseteq uniqueid..(block + 1 - 1)
        /\ \A x \in P : /\ x[1][1] \in NumberedKinds
                        /\ x[1][2] \in uniqueid..(block + 1 - 1)
                        /\ x[1][2] \in {uniqueid, block} => x[2] = d
        /\ OneDepth(P)
    BY <1>0, <2>1, LoopPlaces
  <2> HIDE DEF P, block
  <2> QED
    BY <1>10, <2>2 DEF P
<1>12. /\ Numbers(fr) = {uniqueid, block}
       /\ Starts(fr) = {start}
       /\ end \in Owed(fr)
  BY DEF Numbers, Starts, Owed, Pending
<1>13. \A x \in D : x[1] \in Names(output')
  BY <1>9 DEF Emits
<1>14. start \in Names(output')
  <2>1. <<start, d>> \in D /\ <<start, d>>[1] = start
    OBVIOUS
  <2> QED
    BY <1>13, <2>1
<1>15. \A u \in U : u \in D \/ u[1] = end
  OBVIOUS
<1>16. "for" \in StatementKinds
  BY DEF StatementKinds, LoopKinds
<1>17. output'.depth = output.depth + (IF "for" = "for" THEN 3 ELSE 0)
  BY <1>0, <1>9
<1> HIDE DEF D, U, E, start, end, block, d
<1>18. uniqueid' \in Nat /\ uniqueid <= uniqueid'
  BY <1>1, <1>11
<1>19. /\ Numbers(fr) \subseteq uniqueid..(uniqueid' - 1)
       /\ \A x \in D \cup U : /\ x[1][1] \in NumberedKinds
                              /\ x[1][2] \in uniqueid..(uniqueid' - 1)
                              /\ x[1][2] \in Numbers(fr) => x[2] = output'.depth
  BY <1>1, <1>9, <1>11, <1>12
<1>20. /\ Starts(fr) \subseteq Names(output')
       /\ \A u \in U : u[1] \in Names(output') \/ u[1] \in Owed(fr)
  BY <1>12, <1>13, <1>14, <1>15
<1> QED
  BY <1>0, <1>1, <1>9, <1>11, <1>16, <1>17, <1>18, <1>19, <1>20, OpenFlow

LEMMA OpenDoFlow ==
    ASSUME TypeInv, LabelInv, FlowInv, NEW body \in {"lines", "one"}, OpenDo(body)
    PROVE  FlowInv'
<1> DEFINE start == <<"@startdo", uniqueid>>
           d == output.depth
           D == {<<start, d>>}
           fr == [kind |-> "do", id |-> uniqueid, block |-> 0, body |-> body]
<1>0. uniqueid \in Nat /\ d \in Int /\ "@startdo" \in NumberedKinds
  BY OutputSoFar DEF NumberedKinds
<1>1. /\ OpenBody("do", uniqueid, 0, body)
      /\ output' = Define(output, start)
      /\ uniqueid' = uniqueid + 1
  BY DEF OpenDo
<1>2. Emits(output, D, {}, output') /\ output'.depth = d
  BY <1>1, FirstDefine
<1>3. Numbers(fr) = {uniqueid} /\ Starts(fr) = {start}
  BY DEF Numbers, Starts
<1>4. \A x \in D : x[1] \in Names(output')
  BY <1>2 DEF Emits
<1>5. start \in Names(output')
  BY <1>4
<1>6. \A x \in D : x[1] = start /\ x[2] = d /\ x[1][1] = "@startdo" /\ x[1][2] = uniqueid
  OBVIOUS
<1>7. "do" \in StatementKinds /\ "do" # "for" /\ D \cup {} = D
  BY DEF StatementKinds, LoopKinds
<1> HIDE DEF D, start, d
<1>8. uniqueid' \in Nat /\ uniqueid <= uniqueid' /\ uniqueid \in uniqueid..(uniqueid' - 1)
  BY <1>0, <1>1
<1>9. /\ Numbers(fr) \subseteq uniqueid..(uniqueid' - 1)
      /\ \A x \in D \cup {} : /\ x[1][1] \in NumberedKinds
                              /\ x[1][2] \in uniqueid..(uniqueid' - 1)
                              /\ x[1][2] \in Numbers(fr) => x[2] = output'.depth
  BY <1>0, <1>2, <1>3, <1>6, <1>7, <1>8
<1>10. OneDepth(D \cup {}) /\ Starts(fr) \subseteq Names(output')
  BY <1>3, <1>5, <1>6, <1>7 DEF OneDepth
<1>11. output'.depth = output.depth + (IF "do" = "for" THEN 3 ELSE 0)
  BY <1>0, <1>2, <1>7 DEF d
<1> QED
  BY <1>0, <1>1, <1>2, <1>7, <1>8, <1>9, <1>10, <1>11, OpenFlow

LEMMA OpenIfFlow ==
    ASSUME TypeInv, LabelInv, FlowInv,
           NEW e \in Exps, NEW body \in {"lines", "one"}, OpenIf(e, body)
    PROVE  FlowInv'
<1> DEFINE id == uniqueid + IdsOf(e)
           else == <<"@else", id>>
           d == output.depth
           o1 == GenerateExp(output, e, uniqueid)
           E == ExpPlaces(e, uniqueid, d)
           U == E \cup {<<else, d>>}
           fr == [kind |-> "if", id |-> id, block |-> 0, body |-> body]
<1>0. uniqueid \in Nat /\ d \in Int /\ "@else" \in NumberedKinds
  BY OutputSoFar DEF NumberedKinds
<1>1. /\ OpenBody("if", id, 0, body)
      /\ output' = Branch(o1, else)
      /\ uniqueid' = id + 1
  BY DEF OpenIf
<1>2. Emits(output, E, E, o1) /\ o1.depth = d + 1
  BY FirstExp
<1>3. /\ \A x \in E : x[1][1] \in NumberedKinds /\ x[1][2] = uniqueid /\ IdsOf(e) = 1
      /\ OneDepth(E)
  BY <1>0, ExpPlaceNumbers DEF OneDepth
<1>4. id \in Nat /\ uniqueid <= id /\ (IdsOf(e) = 1 => id # uniqueid)
  BY <1>0, IdsOfType
<1>5. else[1] = "@else" /\ else[2] = id
  OBVIOUS
<1> HIDE DEF o1, E, id, else
<1>6. \A x \in E : x[1] # else
  BY <1>3, <1>4, <1>5
<1>7. Emits(output, E, U, output') /\ output'.depth = d
  <2> HIDE DEF d
  <2> QED BY <1>0, <1>1, <1>2, <1>6, EmitsBranch
<1>8. /\ Numbers(fr) = {id}
      /\ Starts(fr) = {}
      /\ else \in Owed(fr)
  BY DEF Numbers, Starts, Owed, Pending, else
<1>9. \A x \in E : x[1] \in Names(output')
  BY <1>7 DEF Emits
<1>10. \A x \in E \cup U : x \in E \/ (x[1] = else /\ x[2] = d)
  OBVIOUS
<1>11. "if" \in StatementKinds /\ "if" # "for"
  BY DEF StatementKinds, LoopKinds
<1>12. output'.depth = output.depth + (IF "if" = "for" THEN 3 ELSE 0)
  BY <1>0, <1>7, <1>11
<1> HIDE DEF U, d
<1>13. uniqueid' \in Nat /\ uniqueid <= uniqueid'
  BY <1>0, <1>1, <1>4
<1>14. /\ Numbers(fr) \subseteq uniqueid..(uniqueid' - 1)
       /\ \A x \in E \cup U : /\ x[1][1] \in NumberedKinds
                              /\ x[1][2] \in uniqueid..(uniqueid' - 1)
                              /\ x[1][2] \in Numbers(fr) => x[2] = output'.depth
  BY <1>0, <1>1, <1>3, <1>4, <1>5, <1>7, <1>8, <1>10
<1>15. OneDepth(E \cup U)
  BY <1>3, <1>6, <1>10 DEF OneDepth
<1>16. /\ Starts(fr) \subseteq Names(output')
       /\ \A u \in U : u[1] \in Names(output') \/ u[1] \in Owed(fr)
  BY <1>8, <1>9, <1>10
<1> QED
  BY <1>0, <1>1, <1>4, <1>7, <1>11, <1>12, <1>13, <1>14, <1>15, <1>16, OpenFlow

-----------------------------------------------------------------------------
(* The ends of statements.                                                  *)

\* What is known of the innermost generator.
LEMMA TopFlow ==
    ASSUME TypeInv, LabelInv, FlowInv, frames # <<>>
    PROVE  /\ Top \in Frame
           /\ Starts(Top) \subseteq Names(output)
           /\ \A l \in Pending(Top) : l \notin Names(output)
           /\ output.depth = Base(frames, Len(frames))
           /\ Top = frames[Len(frames)] /\ Len(frames) \in 1..Len(frames)
<1>1. Top = frames[Len(frames)] /\ Len(frames) \in 1..Len(frames) /\ Top \in Frame
  BY LastProperties DEF TypeInv, StackInv, Top
<1> QED
  BY <1>1, TopIsPending DEF FlowInv, ResolvedInv, DepthInv

\* A generator that ends with its own labels only, and jumps back at most.
LEMMA CloseOwn ==
    ASSUME TypeInv, LabelInv, FlowInv, uniqueid' = uniqueid,
           NEW kind \in StatementKinds, CloseBody(kind),
           NEW D, NEW U, Emits(output, D, U, output'),
           \A x \in D \cup U : /\ x[1][1] \in NumberedKinds
                               /\ x[1][2] \in Numbers(Top)
                               /\ x[2] = output.depth,
           output'.depth = output.depth - (IF kind = "for" THEN 3 ELSE 0),
           Owed(Top) \subseteq Names(output'),
           \A u \in U : Repeats(u[1]) /\ u[1] \in Starts(Top)
    PROVE  FlowInv'
<1>1. uniqueid' \in Nat /\ uniqueid <= uniqueid'
  BY OutputSoFar
<1>2. OneDepth(D \cup U)
  BY DEF OneDepth
<1>3. Starts(Top) \subseteq Names(output)
  BY TopFlow DEF CloseBody
<1>4. Names(output) \subseteq Names(output')
  BY NamesAreDefs DEF Emits
<1> QED
  BY <1>1, <1>2, <1>3, <1>4, CloseFlow

\* The end label that generate_block may define, and its depth.
BlockPlaces ==
    IF Top.body = "lines" THEN {<<<<"@end", Top.block>>, output.depth>>} ELSE {}

LEMMA EndBlockEmits ==
    ASSUME TypeInv
    PROVE  /\ Emits(output, BlockPlaces, {}, EndBlock(output))
           /\ EndBlock(output).depth = output.depth
           /\ \A x \in BlockPlaces : x[1] = <<"@end", Top.block>> /\ x[2] = output.depth
<1>1. CASE Top.body = "lines"
  BY <1>1, FirstDefine DEF BlockPlaces, EndBlock
<1>2. CASE Top.body # "lines"
  BY <1>2, OutputSoFar DEF BlockPlaces, EndBlock
<1> QED
  BY <1>1, <1>2

LEMMA CloseWhileFlow ==
    ASSUME TypeInv, LabelInv, FlowInv, CloseWhile
    PROVE  FlowInv'
<1> DEFINE start == <<"startwhile", Top.id>>
           end == <<"endwhile", Top.id>>
           d == output.depth
           o1 == EndBlock(output)
           o2 == Jump(o1, start)
           B == BlockPlaces
           D == B \cup {<<end, d>>}
           none == {}
           U == none \cup {<<start, d>>}
<1>1. /\ CloseBody("while")
      /\ output' = Define(o2, end)
      /\ uniqueid' = uniqueid
  BY DEF CloseWhile
<1>2. /\ Emits(output, B, none, o1) /\ o1.depth = d
      /\ \A x \in B : x[1] = <<"@end", Top.block>> /\ x[2] = d
  BY EndBlockEmits
<1>3. Repeats(start) /\ start # <<"@end", Top.block>>
  BY DEF Repeats
<1> HIDE DEF none, d, B, o1
<1>4. Emits(output, B, U, o2) /\ o2.depth = d
  <2> HIDE DEF start
  <2> QED BY <1>2, <1>3, EmitsJump
<1> HIDE DEF o2
<1>5. Emits(output, D, U, output') /\ output'.depth = d
  <2> HIDE DEF start, end, U
  <2> QED BY <1>1, <1>4, EmitsDefine
<1>6. /\ Top.kind = "while" /\ frames # <<>>
      /\ "while" \in StatementKinds /\ "while" # "for" /\ output.depth \in Int
  BY <1>1, OutputSoFar DEF CloseBody, StatementKinds, LoopKinds
<1>7. /\ Numbers(Top) = {Top.id, Top.block}
      /\ Starts(Top) = {start}
      /\ Owed(Top) = {end}
  BY <1>6 DEF Numbers, Starts, Owed, Pending
<1>8. \A x \in D \cup U : /\ x[1] \in {<<"@end", Top.block>>, start, end}
                          /\ x[2] = d
  BY <1>2 DEF none
<1>9. \A x \in D \cup U : /\ x[1][1] \in NumberedKinds
                          /\ x[1][2] \in Numbers(Top)
                          /\ x[2] = output.depth
  BY <1>7, <1>8 DEF NumberedKinds, d
<1>10. \A u \in U : Repeats(u[1]) /\ u[1] \in Starts(Top)
  BY <1>3, <1>7 DEF none
<1>11. end \in Names(output')
  <2>1. <<end, d>> \in D /\ <<end, d>>[1] = end
    OBVIOUS
  <2> HIDE DEF D, U, end
  <2> QED
    BY <1>5, <2>1 DEF Emits
<1> HIDE DEF D, U, start, end
<1>12. output'.depth = output.depth - (IF "while" = "for" THEN 3 ELSE 0)
  BY <1>5, <1>6 DEF d
<1>13. Owed(Top) \subseteq Names(output')
  BY <1>7, <1>11
<1> QED
  BY <1>1, <1>5, <1>6, <1>9, <1>10, <1>12, <1>13, CloseOwn

LEMMA CloseForFlow ==
    ASSUME TypeInv, LabelInv, FlowInv, CloseFor
    PROVE  FlowInv'
<1> DEFINE start == <<"startfor", Top.id>>
           end == <<"endfor", Top.id>>
           continue == <<"continue", Top.id>>
           d == output.depth
           o1 == EndBlock(output)
           o2 == Define(o1, continue)
           o3 == Code(o2, 0)
           o4 == Jump(o3, start)
           o5 == Define(o4, end)
           B == BlockPlaces
           C == B \cup {<<continue, d>>}
           D == C \cup {<<end, d>>}
           none == {}
           U == none \cup {<<start, d>>}
<1>0. d \in Int
  BY OutputSoFar
<1>1. /\ CloseBody("for")
      /\ output' = Code(o5, -3)
      /\ uniqueid' = uniqueid
  BY DEF CloseFor
<1>2. /\ Emits(output, B, none, o1) /\ o1.depth = d
      /\ \A x \in B : x[1] = <<"@end", Top.block>> /\ x[2] = d
  BY EndBlockEmits
<1>3. Repeats(start)
  BY DEF Repeats
<1> HIDE DEF none, d, B, o1
<1>4. Emits(output, C, none, o2) /\ o2.depth = d
  <2> HIDE DEF continue
  <2> QED BY <1>2, EmitsDefine
<1> HIDE DEF o2
<1>5. Emits(output, C, none, o3) /\ o3.depth = d
  <2>1. Emits(output, C, none, o3) /\ o3.depth = o2.depth + 0
    BY <1>4, EmitsCode
  <2> QED
    BY <1>0, <1>4, <2>1
<1> HIDE DEF o3
<1>6. Emits(output, C, U, o4) /\ o4.depth = d
  <2> HIDE DEF start, C
  <2> QED BY <1>3, <1>5, EmitsJump
<1> HIDE DEF o4
<1>7. Emits(output, D, U, o5) /\ o5.depth = d
  <2> HIDE DEF start, end, C, U
  <2> QED BY <1>6, EmitsDefine
<1> HIDE DEF o5
<1>8. Emits(output, D, U, output') /\ output'.depth = d + (-3)
  <2> HIDE DEF D, U
  <2> QED BY <1>1, <1>7, EmitsCode
<1>9. /\ Top.kind = "for" /\ frames # <<>> /\ "for" \in StatementKinds
  BY <1>1 DEF CloseBody, StatementKinds, LoopKinds
<1>10. /\ Numbers(Top) = {Top.id, Top.block}
       /\ Starts(Top) = {start}
       /\ Owed(Top) = {continue, end}
  BY <1>9 DEF Numbers, Starts, Owed, Pending
<1>11. \A x \in D \cup U : /\ x[1] \in {<<"@end", Top.block>>, continue, start, end}
                           /\ x[2] = d
  BY <1>2 DEF none
<1>12. \A x \in D \cup U : /\ x[1][1] \in NumberedKinds
                           /\ x[1][2] \in Numbers(Top)
                           /\ x[2] = output.depth
  BY <1>10, <1>11 DEF NumberedKinds, d
<1>13. \A u \in U : Repeats(u[1]) /\ u[1] \in Starts(Top)
  BY <1>3, <1>10 DEF none
<1>14. end \in Names(output') /\ continue \in Names(output')
  <2>1. /\ <<end, d>> \in D /\ <<end, d>>[1] = end
        /\ <<continue, d>> \in D /\ <<continue, d>>[1] = continue
    OBVIOUS
  <2> HIDE DEF D, U, end, continue
  <2> QED
    BY <1>8, <2>1 DEF Emits
<1> HIDE DEF D, U, C, start, end, continue
<1>15. output'.depth = output.depth - (IF "for" = "for" THEN 3 ELSE 0)
  BY <1>0, <1>8 DEF d
<1>16. Owed(Top) \subseteq Names(output')
  BY <1>10, <1>14
<1> QED
  BY <1>1, <1>8, <1>9, <1>12, <1>13, <1>15, <1>16, CloseOwn

LEMMA CloseDoWhileFlow ==
    ASSUME TypeInv, LabelInv, FlowInv, NEW e \in Exps, CloseDoWhile(e)
    PROVE  FlowInv'
<1> DEFINE while == <<"@while", Top.id>>
           start == <<"@startdo", Top.id>>
           d == output.depth
           o1 == Define(output, while)
           o2 == GenerateExp(o1, e, uniqueid)
           E == ExpPlaces(e, uniqueid, d)
           W == {<<while, d>>}
           none == {}
           D == W \cup E
           U == (none \cup E) \cup {<<start, d>>}
<1>0. uniqueid \in Nat /\ d \in Int
  BY OutputSoFar
<1>1. /\ CloseBody("do")
      /\ output' = Branch(o2, start)
      /\ uniqueid' = uniqueid + IdsOf(e)
  BY DEF CloseDoWhile
<1>2. Top.kind = "do" /\ frames # <<>> /\ "do" \in StatementKinds /\ "do" # "for"
  BY <1>1 DEF CloseBody, StatementKinds, LoopKinds
<1>3. Numbers(Top) = {Top.id} /\ Starts(Top) = {start} /\ Owed(Top) = {}
  BY <1>2 DEF Numbers, Starts, Owed, Pending
<1>4. /\ \A x \in E : x[1][1] \in NumberedKinds /\ x[1][2] = uniqueid /\ IdsOf(e) = 1
      /\ \A x \in E : x[1] \notin Names(output)
      /\ OneDepth(E)
  BY <1>0, NewExp
<1>5. Top.id # uniqueid
  <2>1. Top = frames[Len(frames)] /\ Len(frames) \in 1..Len(frames)
    BY <1>2, TopFlow
  <2>2. Top.id \in 0..(uniqueid - 1) \cup Functions
    BY <1>3, <2>1 DEF FlowInv, NumbersInv
  <2> QED
    BY <1>0, <2>2, FunctionsAssumption
<1>6. Emits(output, W, none, o1) /\ o1.depth = d
  BY FirstDefine
<1>7. \A x \in W : x[1] = while /\ x[2] = d
  OBVIOUS
<1>8. while[1] = "@while" /\ start[1] = "@startdo" /\ while[2] = Top.id /\ start[2] = Top.id
  OBVIOUS
<1>9. Repeats(start)
  BY DEF Repeats
<1> HIDE DEF o1, W, none, d, while, start
<1>10. Emits(output, D, none \cup E, o2) /\ o2.depth = d + 1
  <2>1. \A x \in W : x[1][2] # uniqueid
    BY <1>5, <1>7, <1>8
  <2> QED
    BY <1>0, <1>6, <2>1, EmitsExp
<1> HIDE DEF o2, E
<1>11. Emits(output, D, U, output') /\ output'.depth = d
  <2> HIDE DEF D
  <2> QED BY <1>0, <1>1, <1>9, <1>10, EmitsBranch
<1>12. \A x \in D \cup U : x \in E \/ (x[1] = while /\ x[2] = d) \/ (x[1] = start /\ x[2] = d)
  BY <1>7 DEF none
<1>13. \A u \in U : u \in E \/ u[1] = start
  BY DEF none
<1>14. \A x \in E : x[1] \in Names(output')
  BY <1>11 DEF Emits
<1>15. start \in Names(output')
  <2>1. start \in Names(output)
    BY <1>2, <1>3, TopFlow
  <2> QED
    BY <1>11, <2>1, NamesAreDefs DEF Emits
<1> HIDE DEF D, U
<1>16. \A x \in D \cup U :
         /\ x[1][1] \in NumberedKinds
         /\ \/ x[1][2] \in uniqueid..(uniqueid' - 1)
            \/ x[1][2] \in Numbers(Top) /\ x[2] = output.depth
  BY <1>0, <1>1, <1>3, <1>4, <1>8, <1>12 DEF NumberedKinds, d
<1>17. OneDepth(D \cup U)
  <2> SUFFICES ASSUME NEW x \in D \cup U, NEW y \in D \cup U, x[1] = y[1]
               PROVE  x[2] = y[2]
    BY DEF OneDepth
  <2>1. \A z \in E : z[1] # while /\ z[1] # start
    BY <1>4, <1>5, <1>8
  <2> QED
    BY <1>4, <1>12, <2>1 DEF OneDepth
<1>18. uniqueid' \in Nat /\ uniqueid <= uniqueid'
  BY <1>0, <1>1, IdsOfType
<1>19. output'.depth = output.depth - (IF "do" = "for" THEN 3 ELSE 0)
  BY <1>0, <1>2, <1>11 DEF d
<1>20. /\ Owed(Top) \subseteq Names(output')
       /\ \A u \in U : Repeats(u[1]) \/ u[1] \notin Names(output)
       /\ \A u \in U : u[1] \in Names(output')
  BY <1>3, <1>4, <1>9, <1>13, <1>14, <1>15
<1> QED
  BY <1>1, <1>2, <1>11, <1>16, <1>17, <1>18, <1>19, <1>20, CloseFlow

LEMMA CloseDoFlow ==
    ASSUME TypeInv, LabelInv, FlowInv, CloseDo
    PROVE  FlowInv'
<1> DEFINE end == <<"@enddo", Top.id>>
           d == output.depth
           D == {<<end, d>>}
<1>1. /\ CloseBody("do")
      /\ output' = Define(output, end)
      /\ uniqueid' = uniqueid
  BY DEF CloseDo
<1>2. Top.kind = "do" /\ frames # <<>> /\ "do" \in StatementKinds /\ "do" # "for" /\ d \in Int
  BY <1>1, OutputSoFar DEF CloseBody, StatementKinds, LoopKinds
<1>3. Numbers(Top) = {Top.id} /\ Owed(Top) = {}
  BY <1>2 DEF Numbers, Owed, Pending
<1>4. Emits(output, D, {}, output') /\ output'.depth = d
  BY <1>1, FirstDefine
<1>5. \A x \in D \cup {} : x[1][1] = "@enddo" /\ x[1][2] = Top.id /\ x[2] = d
  OBVIOUS
<1>6. "@enddo" \in NumberedKinds
  BY DEF NumberedKinds
<1> HIDE DEF D
<1>7. \A x \in D \cup {} : /\ x[1][1] \in NumberedKinds
                           /\ x[1][2] \in Numbers(Top)
                           /\ x[2] = output.depth
  BY <1>3, <1>5, <1>6
<1>8. output'.depth = output.depth - (IF "do" = "for" THEN 3 ELSE 0)
  BY <1>2, <1>4
<1>9. Owed(Top) \subseteq Names(output')
  BY <1>3
<1> QED
  BY <1>1, <1>2, <1>4, <1>7, <1>8, <1>9, CloseOwn

LEMMA CloseIfFlow ==
    ASSUME TypeInv, LabelInv, FlowInv, CloseIf
    PROVE  FlowInv'
<1> DEFINE else == <<"@else", Top.id>>
           endif == <<"@endif", Top.id>>
           d == output.depth
           none == {}
           o1 == IF Top.body = "lines" THEN Define(output, else) ELSE output
           o2 == Define(o1, else)
           S == IF Top.body = "lines" THEN {<<else, d>>} ELSE none
           R == S \cup {<<else, d>>}
           D == R \cup {<<endif, d>>}
<1>1. /\ CloseBody("if")
      /\ output' = Define(o2, endif)
      /\ uniqueid' = uniqueid
  BY DEF CloseIf
<1>2. Top.kind = "if" /\ frames # <<>> /\ "if" \in StatementKinds /\ "if" # "for" /\ d \in Int
  BY <1>1, OutputSoFar DEF CloseBody, StatementKinds, LoopKinds
<1>3. Numbers(Top) = {Top.id} /\ Owed(Top) = {else, endif}
  BY <1>2 DEF Numbers, Owed, Pending
<1>4. Emits(output, S, none, o1) /\ o1.depth = d
  <2>1. CASE Top.body = "lines"
    BY <2>1, FirstDefine
  <2>2. CASE Top.body # "lines"
    BY <2>2, OutputSoFar
  <2> QED
    BY <2>1, <2>2
<1>5. \A x \in S : x[1] = else /\ x[2] = d
  OBVIOUS
<1> HIDE DEF o1, d, none, S
<1>6. Emits(output, R, none, o2) /\ o2.depth = d
  <2> HIDE DEF else
  <2> QED BY <1>4, EmitsDefine
<1> HIDE DEF o2
<1>7. Emits(output, D, none, output') /\ output'.depth = d
  <2> HIDE DEF R, endif
  <2> QED BY <1>1, <1>6, EmitsDefine
<1>8. \A x \in D \cup none : x[1] \in {else, endif} /\ x[2] = d
  BY <1>5 DEF none
<1>9. \A x \in D \cup none : /\ x[1][1] \in NumberedKinds
                             /\ x[1][2] \in Numbers(Top)
                             /\ x[2] = output.depth
  BY <1>3, <1>8 DEF NumberedKinds, d
<1>10. else \in Names(output') /\ endif \in Names(output')
  <2>1. /\ <<else, d>> \in D /\ <<else, d>>[1] = else
        /\ <<endif, d>> \in D /\ <<endif, d>>[1] = endif
    OBVIOUS
  <2> HIDE DEF D, else, endif
  <2> QED
    BY <1>7, <2>1 DEF Emits
<1> HIDE DEF D, R, else, endif
<1>11. output'.depth = output.depth - (IF "if" = "for" THEN 3 ELSE 0)
  BY <1>2, <1>7 DEF d
<1>12. Owed(Top) \subseteq Names(output') /\ \A u \in none : Repeats(u[1]) /\ u[1] \in Starts(Top)
  BY <1>3, <1>10 DEF none
<1> QED
  BY <1>1, <1>2, <1>7, <1>9, <1>11, <1>12, CloseOwn

LEMMA CloseElseFlow ==
    ASSUME TypeInv, LabelInv, FlowInv, CloseElse
    PROVE  FlowInv'
<1> DEFINE endif == <<"@endif", Top.id>>
           d == output.depth
           none == {}
           o1 == EndBlock(output)
           B == BlockPlaces
           D == B \cup {<<endif, d>>}
<1>1. /\ CloseBody("else")
      /\ output' = Define(o1, endif)
      /\ uniqueid' = uniqueid
  BY DEF CloseElse
<1>2. /\ Top.kind = "else" /\ frames # <<>> /\ "else" \in StatementKinds /\ "else" # "for"
      /\ d \in Int
  BY <1>1, OutputSoFar DEF CloseBody, StatementKinds, LoopKinds
<1>3. Numbers(Top) = {Top.id, Top.block} /\ Owed(Top) = {endif}
  BY <1>2 DEF Numbers, Owed, Pending
<1>4. /\ Emits(output, B, none, o1) /\ o1.depth = d
      /\ \A x \in B : x[1] = <<"@end", Top.block>> /\ x[2] = d
  BY EndBlockEmits
<1> HIDE DEF o1, d, none, B
<1>5. Emits(output, D, none, output') /\ output'.depth = d
  <2> HIDE DEF endif
  <2> QED BY <1>1, <1>4, EmitsDefine
<1>6. \A x \in D \cup none : x[1] \in {<<"@end", Top.block>>, endif} /\ x[2] = d
  BY <1>4 DEF none
<1>7. \A x \in D \cup none : /\ x[1][1] \in NumberedKinds
                             /\ x[1][2] \in Numbers(Top)
                             /\ x[2] = output.depth
  BY <1>3, <1>6 DEF NumberedKinds, d
<1>8. endif \in Names(output')
  <2>1. <<endif, d>> \in D /\ <<endif, d>>[1] = endif
    OBVIOUS
  <2> HIDE DEF D, endif
  <2> QED
    BY <1>5, <2>1 DEF Emits
<1> HIDE DEF D, endif
<1>9. output'.depth = output.depth - (IF "else" = "for" THEN 3 ELSE 0)
  BY <1>2, <1>5 DEF d
<1>10. Owed(Top) \subseteq Names(output') /\ \A u \in none : Repeats(u[1]) /\ u[1] \in Starts(Top)
  BY <1>3, <1>8 DEF none
<1> QED
  BY <1>1, <1>2, <1>5, <1>7, <1>9, <1>10, CloseOwn

LEMMA ElseFlow ==
    ASSUME TypeInv, LabelInv, FlowInv, NEW body \in {"lines", "one"}, Else(body)
    PROVE  FlowInv'
<1> DEFINE k == Len(frames)
           d == output.depth
           else == <<"@else", Top.id>>
           endif == <<"@endif", Top.id>>
           o1 == Jump(output, endif)
           D == {<<else, d>>}
           U == {<<endif, d>>}
           none == {}
           fr == [kind |-> "else", id |-> Top.id, block |-> uniqueid, body |-> body]
<1>0. uniqueid \in Nat /\ uniqueid' = uniqueid + 1 /\ frames \in Seq(Frame)
  BY DEF TypeInv, StackInv, Else
<1>1. /\ frames # <<>> /\ Top.kind = "if"
      /\ frames' = [frames EXCEPT ![k] = fr]
      /\ output' = Define(o1, else)
  BY DEF Else
<1>2. /\ Top \in Frame /\ Top = frames[k] /\ k \in 1..k /\ k \in Nat
      /\ \A l \in Pending(Top) : l \notin Names(output)
      /\ d = Base(frames, k)
  BY <1>0, <1>1, TopFlow
<1>3. /\ Len(frames') = k /\ frames'[k] = fr
      /\ \A i \in 1..k : i # k => frames'[i] = frames[i]
  BY <1>0, <1>1, <1>2
<1>4. /\ Numbers(Top) = {Top.id} /\ Starts(Top) = {} /\ Owed(Top) = {else, endif}
      /\ Numbers(fr) = {Top.id, uniqueid} /\ Starts(fr) = {} /\ endif \in Owed(fr)
      /\ Pending(Top) = {else, endif} /\ fr.kind = "else"
  BY <1>1 DEF Numbers, Starts, Owed, Pending
<1>5. Emits(output, D, U, output') /\ output'.depth = d
  <2>1. Emits(output, none, U, o1) /\ o1.depth = d
    BY FirstJump
  <2>2. none \cup {<<else, d>>} = D
    OBVIOUS
  <2> HIDE DEF o1, U, d, none, else
  <2>3. /\ Emits(output, none \cup {<<else, d>>}, U, Define(o1, else))
        /\ Define(o1, else).depth = d
    BY <2>1, EmitsDefine
  <2> HIDE DEF D
  <2> QED
    BY <1>1, <2>2, <2>3
<1>6. \A x \in D \cup U : x[1] \in {else, endif} /\ x[2] = d
  OBVIOUS
<1>7. /\ else[1] = "@else" /\ else[2] = Top.id /\ endif[1] = "@endif" /\ endif[2] = Top.id
      /\ "@else" \in NumberedKinds /\ "@endif" \in NumberedKinds
      /\ "if" # "for" /\ "else" # "for"
      /\ "if" \notin CallableKinds /\ "else" \notin CallableKinds
  BY DEF NumberedKinds, CallableKinds
<1>8. Top.id # uniqueid
  <2>1. Top.id \in 0..(uniqueid - 1) \cup Functions
    BY <1>2, <1>4 DEF FlowInv, NumbersInv
  <2> QED
    BY <1>0, <2>1, FunctionsAssumption
<1>9. else \in Names(output')
  <2>1. <<else, d>> \in D /\ <<else, d>>[1] = else
    OBVIOUS
  <2> HIDE DEF D, else
  <2> QED
    BY <1>5, <2>1 DEF Emits
<1>10. \A u \in U : u[1] = endif
  OBVIOUS
<1> HIDE DEF k, d, else, endif, o1, D, U, fr
<1>11. ASSUME NEW i \in 0..k
       PROVE  Base(frames', i) = Base(frames, i)
  <2>1. i \in Nat /\ \A j \in 1..i : j \in 1..k
    BY <1>2
  <2>2. \A j \in 1..i : frames'[j].kind = "for" <=> frames[j].kind = "for"
    BY <1>1, <1>2, <1>3, <1>4, <1>7, <2>1
  <2>3. {j \in 1..i : frames'[j].kind = "for"} = {j \in 1..i : frames[j].kind = "for"}
    BY <2>2
  <2> QED
    BY <2>3 DEF Base
<1>12. OwnPlaces(frames, uniqueid, uniqueid', D \cup U)
  BY <1>2, <1>4, <1>6, <1>7 DEF OwnPlaces, k
<1>13. OneDepth(D \cup U)
  BY <1>6 DEF OneDepth
<1>14. KeepNumbers(frames, uniqueid, frames', uniqueid', D \cup U)
  <2> SUFFICES ASSUME NEW i \in 1..k, NEW c \in Numbers(frames'[i])
               PROVE  \/ /\ i = k
                         /\ c \in uniqueid..(uniqueid' - 1)
                         /\ \A x \in D \cup U : x[1][2] = c => x[2] = Base(frames', i)
                      \/ /\ i \in 1..k
                         /\ c \in Numbers(frames[i])
                         /\ Base(frames', i) = Base(frames, i)
    BY <1>3 DEF KeepNumbers, k
  <2>1. Base(frames', i) = Base(frames, i)
    BY <1>2, <1>11
  <2>2. CASE i # k
    BY <1>3, <2>1, <2>2
  <2>3. CASE i = k /\ c = Top.id
    BY <1>2, <1>4, <2>1, <2>3
  <2>4. CASE i = k /\ c = uniqueid
    BY <1>0, <1>6, <1>7, <1>8, <2>4
  <2> QED
    BY <1>3, <1>4, <2>2, <2>3, <2>4
<1>15. CallablesInv(frames')
  BY <1>3, <1>4, <1>7 DEF FlowInv, CallablesInv, k
<1>16. output'.depth = Base(frames', Len(frames'))
  BY <1>2, <1>3, <1>5, <1>11
<1>17. \A u \in U : u[1] \notin Names(output)
  BY <1>2, <1>4, <1>10
<1>18. Names(output) \subseteq Names(output')
  BY <1>5, NamesAreDefs DEF Emits
<1>19. \A i \in 1..Len(frames') : Starts(frames'[i]) \subseteq Names(output')
  BY <1>3, <1>4, <1>18 DEF FlowInv, ResolvedInv, k
<1>20. \A i \in 1..Len(frames) : \A l \in Owed(frames[i]) :
          l \in Names(output') \/ \E j \in 1..Len(frames') : l \in Owed(frames'[j])
  BY <1>2, <1>3, <1>4, <1>9 DEF k
<1>21. \A u \in U : \E j \in 1..Len(frames') : u[1] \in Owed(frames'[j])
  BY <1>2, <1>3, <1>4, <1>10
<1>22. uniqueid' \in Nat /\ uniqueid <= uniqueid'
  BY <1>0
<1> QED
  BY <1>5, <1>12, <1>13, <1>14, <1>15, <1>16, <1>17, <1>19, <1>20, <1>21, <1>22, FlowStep

-----------------------------------------------------------------------------
(* Functions.                                                               *)

LEMMA DefaultParamFlow ==
    ASSUME TypeInv, LabelInv, FlowInv, NEW e \in Exps, DefaultParam(e)
    PROVE  FlowInv'
<1> DEFINE skip == <<"@skip", uniqueid>>
           id == uniqueid + 1
           o == output
           d == output.depth
           b == d + 1
           E == ExpPlaces(e, id, b)
           none == {}
           S == none \cup {<<skip, b>>}
           D == (none \cup E) \cup {<<skip, b>>}
           U == S \cup E
           o1 == Code(o, 2)
           o2 == Branch(o1, skip)
           o3 == GenerateExp(o2, e, id)
           o4 == Code(o3, -1)
           o5 == Define(o4, skip)
<1>1. /\ frames' = frames /\ output' = Code(o5, -1) /\ uniqueid' = uniqueid + 1 + IdsOf(e)
      /\ uniqueid \in Nat /\ id \in Nat /\ uniqueid <= id /\ uniqueid # id
      /\ frames \in Seq(Frame) /\ "@skip" \in NumberedKinds
  BY DEF DefaultParam, AtParam, GenerateDefault, TypeInv, StackInv, NumberedKinds
<1>2. Emits(o, none, none, o) /\ d \in Int /\ b \in Int /\ b + 1 = d + 2 /\ d = o.depth
  BY OutputSoFar
<1>3. /\ \A x \in E : /\ x[1][1] \in NumberedKinds
                      /\ x[1][2] = id /\ IdsOf(e) = 1
                      /\ x[1] \notin Names(output)
      /\ OneDepth(E)
  BY <1>1, <1>2, NewExp
<1> HIDE DEF o, none
<1>4. Emits(o, none, none, o1) /\ o1.depth = b + 1
  <2>1. Emits(o, none, none, o1) /\ o1.depth = o.depth + 2
    BY <1>2, EmitsCode
  <2> HIDE DEF d, b
  <2> QED
    BY <1>2, <2>1
<1>5. \A x \in none : x[1] # skip /\ x[1][2] # id
  BY DEF none
<1>6. skip[1] = "@skip" /\ skip[2] = uniqueid
  OBVIOUS
<1>7. From(skip, uniqueid)
  BY <1>1, <1>6 DEF From
<1>8. \A x \in D \cup U : x \in E \/ (x[1] = skip /\ x[2] = b)
  BY DEF none
<1>9. \A u \in U : u \in D
  BY DEF none
<1> HIDE DEF o1, b, id, skip
<1>10. Emits(o, none, S, o2) /\ o2.depth = b
  BY <1>2, <1>4, <1>5, EmitsBranch
<1> HIDE DEF o2, S
<1>11. Emits(o, none \cup E, U, o3) /\ o3.depth = b + 1
  <2>1. o2.depth \in Int /\ \A x \in none : x[1][2] # id
    BY <1>2, <1>5, <1>10
  <2>2. Emits(o, none, S, o2)
    BY <1>10
  <2>3. /\ Emits(o, none \cup ExpPlaces(e, id, o2.depth), S \cup ExpPlaces(e, id, o2.depth),
                 GenerateExp(o2, e, id))
        /\ GenerateExp(o2, e, id).depth = o2.depth + 1
    BY <2>1, <2>2, EmitsExp
  <2> QED
    BY <1>10, <2>3
<1> HIDE DEF o3, E, U
<1>12. Emits(o, none \cup E, U, o4) /\ o4.depth = b
  <2>1. Emits(o, none \cup E, U, o4) /\ o4.depth = o3.depth + (-1)
    BY <1>11, EmitsCode
  <2> HIDE DEF o4
  <2> QED
    BY <1>2, <1>11, <2>1
<1> HIDE DEF o4
<1>13. Emits(o, D, U, o5) /\ o5.depth = b
  BY <1>12, EmitsDefine
<1> HIDE DEF o5, D
<1>14. Emits(o, D, U, output') /\ output'.depth = o5.depth + (-1)
  BY <1>1, <1>13, EmitsCode
<1>15. output'.depth = output.depth /\ Emits(output, D, U, output')
  BY <1>2, <1>13, <1>14 DEF b, o
<1>16. skip \notin Names(output)
  BY <1>1, <1>7, FromIsNew
<1>17. /\ uniqueid' \in Nat /\ uniqueid <= uniqueid' /\ uniqueid \in uniqueid..(uniqueid' - 1)
       /\ (IdsOf(e) = 1 => id \in uniqueid..(uniqueid' - 1))
  <2>1. IdsOf(e) \in {0, 1} /\ id = uniqueid + 1
    BY IdsOfType DEF id
  <2>2. uniqueid \in Nat /\ uniqueid' = uniqueid + 1 + IdsOf(e)
    BY <1>1
  <2> QED
    BY <2>1, <2>2
<1>18. OwnPlaces(frames, uniqueid, uniqueid', D \cup U)
  <2>1. \A x \in E : x[1][1] \in NumberedKinds /\ x[1][2] \in uniqueid..(uniqueid' - 1)
    BY <1>3, <1>17
  <2>2. skip[1] \in NumberedKinds /\ skip[2] \in uniqueid..(uniqueid' - 1)
    BY <1>1, <1>6, <1>17
  <2> QED
    BY <1>8, <2>1, <2>2 DEF OwnPlaces
<1>19. OneDepth(D \cup U)
  <2> SUFFICES ASSUME NEW x \in D \cup U, NEW y \in D \cup U, x[1] = y[1]
               PROVE  x[2] = y[2]
    BY DEF OneDepth
  <2>1. \A z \in E : z[1] # skip
    BY <1>1, <1>3, <1>6
  <2>2. CASE x \in E /\ y \in E
    BY <1>3, <2>2 DEF OneDepth
  <2> QED
    BY <1>8, <2>1, <2>2
<1>20. \A u \in U : u[1] \notin Names(output)
  BY <1>3, <1>8, <1>16
<1>21. \A u \in U : u[1] \in Names(output')
  BY <1>9, <1>15 DEF Emits
<1>22. frames' \in Seq(Frame) /\ frames' = frames /\ uniqueid' \in Nat /\ uniqueid <= uniqueid'
  BY <1>1, <1>17
<1> QED
  BY <1>15, <1>18, <1>19, <1>20, <1>21, <1>22, SameFlow

LEMMA BeginFunctionBodyFlow ==
    ASSUME TypeInv, LabelInv, FlowInv, BeginFunctionBody
    PROVE  FlowInv'
<1> DEFINE k == Len(frames)
           fr == [frames[k] EXCEPT !.body = "lines"]
           none == {}
<1>1. /\ frames \in Seq(Frame) /\ k \in 1..k /\ k \in Nat /\ frames[k] \in Frame
      /\ frames' = [frames EXCEPT ![k] = fr]
      /\ output' = output /\ uniqueid' = uniqueid /\ uniqueid \in Nat
      /\ fr \in Frame
  <2>1. /\ frames \in Seq(Frame) /\ k \in 1..k /\ k \in Nat /\ frames[k] \in Frame
        /\ frames' = [frames EXCEPT ![k] = fr]
        /\ output' = output /\ uniqueid' = uniqueid /\ uniqueid \in Nat
        /\ frames[k].kind = "function"
    BY LastProperties DEF BeginFunctionBody, TypeInv, StackInv, Top
  <2>2. fr \in Frame
    BY <2>1 DEF Frame, CallableKinds, StatementKinds, LoopKinds
  <2> QED
    BY <2>1, <2>2
<1>2. fr.kind = frames[k].kind /\ fr.id = frames[k].id /\ fr.block = frames[k].block
  BY <1>1 DEF Frame
<1>3. /\ frames' \in Seq(Frame) /\ Len(frames') = k
      /\ \A i \in 1..k : frames'[i] = IF i = k THEN fr ELSE frames[i]
  <2> HIDE DEF fr
  <2> QED BY <1>1
<1> HIDE DEF fr
<1>4. \A i \in 1..Len(frames) :
         /\ frames'[i].kind = frames[i].kind
         /\ frames'[i].id = frames[i].id
         /\ frames'[i].block = frames[i].block
  BY <1>2, <1>3
<1>5. Emits(output, none, none, output') /\ output'.depth = output.depth
  BY <1>1, OutputSoFar
<1>6. /\ OwnPlaces(frames, uniqueid, uniqueid', none \cup none)
      /\ OneDepth(none \cup none)
      /\ \A u \in none : u[1] \notin Names(output) /\ u[1] \in Names(output')
  BY DEF OwnPlaces, OneDepth
<1>7. uniqueid' \in Nat /\ uniqueid <= uniqueid'
  BY <1>1
<1> HIDE DEF none, k
<1> QED
  BY <1>3, <1>4, <1>5, <1>6, <1>7, SameFlow DEF k

\* What a function adds to the code: the label l, named after a function and not
\* a label of statements, at the end of the code.
LEMMA BoundsGrow ==
    ASSUME NEW o, NEW p, Forward(o), o.addr \in Nat,
           NEW y, y[1][1] \in NamedKinds, y[3] = o.addr + 1,
           Defs(p) = Defs(o) \cup {y},
           \A x \in Uses(p) : x \in Uses(o) \/ x[1][1] \in NamedKinds,
           \A x \in Uses(o), z \in Defs(o), c \in Bounds(o) :
              (x[1] = z[1] /\ x[1][1] \in NumberedKinds) => (c[3] <= x[3] <=> c[3] <= z[3])
    PROVE  /\ Bounds(p) = Bounds(o) \cup {y}
           /\ \A x \in Uses(p), z \in Defs(p), c \in Bounds(p) :
                 (x[1] = z[1] /\ x[1][1] \in NumberedKinds) => (c[3] <= x[3] <=> c[3] <= z[3])
<1>1. Bounds(p) = Bounds(o) \cup {y}
  BY DEF Bounds
<1>2. NamedKinds \cap NumberedKinds = {}
  BY DEF NamedKinds, NumberedKinds
<1>3. ASSUME NEW x \in Uses(p), NEW z \in Defs(p), NEW c \in Bounds(p),
             x[1] = z[1], x[1][1] \in NumberedKinds
      PROVE  c[3] <= x[3] <=> c[3] <= z[3]
  <2>1. x \in Uses(o) /\ z \in Defs(o)
    BY <1>2, <1>3
  <2>2. x[3] \in Nat /\ x[3] < o.addr /\ z[3] \in Nat /\ z[3] <= o.addr
    BY <2>1 DEF Forward
  <2> QED
    BY <1>1, <1>3, <2>1, <2>2
<1> QED
  BY <1>1, <1>3

LEMMA OpenCallableFlow ==
    ASSUME TypeInv, LabelInv, FlowInv, NEW kind \in CallableKinds, NEW f \in Functions,
           OpenCallable(kind, f)
    PROVE  FlowInv'
<1> DEFINE entry == <<"entry", f>>
           end == <<"@__end", f>>
           a == output.addr
           d == output.depth
           y == <<entry, d, a + 1>>
           u == <<end, d, a>>
           fr == [kind |-> kind, id |-> f, block |-> 0, body |-> "params"]
<1>1. /\ frames = <<>> /\ frames' = <<fr>> /\ uniqueid' = uniqueid
      /\ output' = Code(Define(Jump(output, end), entry), 0)
      /\ d \in Int /\ a \in Nat /\ uniqueid \in Nat
  BY OutputSoFar DEF OpenCallable
<1>2. /\ Defs(output') = Defs(output) \cup {y}
      /\ Uses(output') = Uses(output) \cup {u}
      /\ output'.addr = a + 2 /\ output'.depth = d
  <2> DEFINE o1 == Jump(output, end)
             o2 == Define(o1, entry)
  <2>1. /\ Defs(o1) = Defs(output) /\ Uses(o1) = Uses(output) \cup {u}
        /\ o1.addr = a + 1 /\ o1.depth = d
    BY EmitterEffects
  <2> HIDE DEF o1
  <2>2. /\ Defs(o2) = Defs(o1) \cup {<<entry, o1.depth, o1.addr>>} /\ Uses(o2) = Uses(o1)
        /\ o2.addr = o1.addr /\ o2.depth = o1.depth
    BY EmitterEffects
  <2> HIDE DEF o2
  <2>3. /\ Defs(output') = Defs(o2) /\ Uses(output') = Uses(o2)
        /\ output'.addr = o2.addr + 1 /\ output'.depth = o2.depth + 0
    BY <1>1 DEF o1, o2, Code, Defs, Uses
  <2> HIDE DEF entry, end, u, d, a
  <2> QED
    BY <1>1, <2>1, <2>2, <2>3
<1>3. entry \notin Names(output) /\ end \notin Names(output)
  BY DEF OpenCallable, Undefined, Names, LabelInv, EndsInv
<1>4. \A x \in Places(output) : x[1][2] # f
  <2>1. f \notin Used(output, uniqueid)
    BY <1>3, FunctionsAssumption DEF Used
  <2> QED
    BY <2>1 DEF FlowInv, DepthInv
<1>5. /\ y[1] = entry /\ y[2] = d /\ y[3] = a + 1 /\ u[1] = end /\ u[2] = d /\ u[3] = a
      /\ entry[1] = "entry" /\ entry[2] = f /\ end[1] = "@__end" /\ end[2] = f
      /\ entry # end
      /\ \A g : g # f => <<"entry", g>> # entry
  OBVIOUS
<1>6. /\ Len(frames) = 0 /\ Len(frames') = 1 /\ frames'[1] = fr /\ fr.kind = kind
      /\ \A i \in 1..1 : i = 1
  BY <1>1
<1>7. Numbers(fr) = {f} /\ Starts(fr) = {} /\ Owed(fr) = {end} /\ fr.kind # "for"
  BY DEF CallableKinds, Numbers, Starts, Owed, Pending
<1>8. "entry" \in NamedKinds /\ "@__end" \in NamedKinds /\ NamedKinds \cap NumberedKinds = {}
  BY DEF NamedKinds, NumberedKinds
<1> HIDE DEF fr, entry, end, a, d, y, u
<1>9. output'.depth = Base(frames', 1)
  <2>1. Base(frames, 0) = Base(frames', 0)
    <3>1. \A i \in 1..0 : frames[i].kind = frames'[i].kind
      OBVIOUS
    <3> QED
      BY <3>1, BaseSame
  <2>2. Base(frames', 0 + 1) = Base(frames', 0) + (IF frames'[0 + 1].kind = "for" THEN 3 ELSE 0)
    BY BaseNext
  <2>3. d = Base(frames, 0)
    BY <1>6 DEF FlowInv, DepthInv, d
  <2> QED
    BY <1>1, <1>2, <1>6, <1>7, <2>1, <2>2, <2>3
<1>10. /\ \A x \in Places(output') : x \in Places(output) \/ (x \in {y, u} /\ x[1][2] = f /\ x[2] = d)
       /\ Names(output) \subseteq Names(output') /\ entry \in Names(output')
  BY <1>2, <1>5, NamesAreDefs DEF Places
<1>11. NumbersInv(frames', uniqueid')
  BY <1>6, <1>7 DEF NumbersInv
<1>12. CallablesInv(frames')
  BY <1>6 DEF CallablesInv
<1>13. DepthInv(frames', output', uniqueid')
  <2>1. Used(output, uniqueid) \subseteq Used(output', uniqueid') /\ f \in Used(output', uniqueid')
    BY <1>1, <1>10 DEF Used, entry
  <2>2. \A x \in Places(output') : x[1][2] \in Used(output', uniqueid')
    BY <1>10, <2>1 DEF FlowInv, DepthInv
  <2>3. \A x, z \in Places(output') : x[1] = z[1] => x[2] = z[2]
    BY <1>4, <1>10 DEF FlowInv, DepthInv
  <2>4. \A x \in Places(output'), i \in 1..Len(frames') :
           x[1][2] \in Numbers(frames'[i]) => x[2] = Base(frames', i)
    BY <1>2, <1>4, <1>6, <1>7, <1>9, <1>10
  <2> QED
    BY <1>6, <1>9, <2>2, <2>3, <2>4 DEF DepthInv
<1>14. Forward(output')
  <2>1. \A x \in Uses(output') : x[3] \in Nat /\ x[3] < output'.addr
    BY <1>1, <1>2, <1>5 DEF FlowInv, Forward, a
  <2>2. \A x \in Defs(output') : x[3] \in Nat /\ x[3] <= output'.addr
    BY <1>1, <1>2, <1>5 DEF FlowInv, Forward, a
  <2>3. ASSUME NEW x \in Uses(output'), NEW z \in Defs(output'), x[1] = z[1], z[3] <= x[3]
        PROVE  Repeats(x[1])
    <3>1. x # u
      BY <1>2, <1>3, <1>5, <2>3, NamesAreDefs
    <3>2. z # y
      BY <1>2, <1>4, <1>5, <2>3, <3>1 DEF Places
    <3> QED
      BY <1>2, <2>3, <3>1, <3>2 DEF FlowInv, Forward
  <2> QED
    BY <2>1, <2>2, <2>3 DEF Forward
<1>15. \A x \in Uses(output) : x[1] \in Names(output) \/ x[1][1] \in {"@while", "@enddo"}
  BY <1>6 DEF FlowInv, ResolvedInv
<1>16. ResolvedInv(frames', output')
  BY <1>2, <1>5, <1>6, <1>7, <1>10, <1>15 DEF ResolvedInv
<1>17. /\ Bounds(output') = Bounds(output) \cup {y}
       /\ \A x \in Uses(output'), z \in Defs(output'), c \in Bounds(output') :
             (x[1] = z[1] /\ x[1][1] \in NumberedKinds) => (c[3] <= x[3] <=> c[3] <= z[3])
  <2>1. \A x \in Uses(output') : x \in Uses(output) \/ x[1][1] \in NamedKinds
    BY <1>2, <1>5, <1>8
  <2>2. \A x \in Uses(output), z \in Defs(output), c \in Bounds(output) :
           (x[1] = z[1] /\ x[1][1] \in NumberedKinds) => (c[3] <= x[3] <=> c[3] <= z[3])
    BY DEF FlowInv, BoundsInv
  <2>3. Forward(output) /\ output.addr \in Nat /\ y[1][1] \in NamedKinds /\ y[3] = output.addr + 1
    BY <1>1, <1>5, <1>8 DEF FlowInv, a
  <2> QED
    BY <1>2, <2>1, <2>2, <2>3, BoundsGrow
<1>18. \A x \in Places(output'), i \in 1..Len(frames'), c \in Bounds(output') :
          (x[1][1] \in NumberedKinds /\ x[1][2] \in Numbers(frames'[i])) => c[3] <= x[3]
  <2>1. \A x \in Places(output') : ~(x[1][1] \in NumberedKinds /\ x[1][2] = f)
    BY <1>4, <1>5, <1>8, <1>10
  <2> QED
    BY <1>6, <1>7, <2>1
<1>19. ASSUME NEW x \in Uses(output'), x[1][1] \in NamedKinds
       PROVE  /\ x[1][1] = "@__end"
              /\ \A c \in Bounds(output') :
                    IF c[1] = <<"entry", x[1][2]>> THEN x[3] < c[3]
                    ELSE \/ c[3] <= x[3]
                         \/ \E z \in Defs(output') : z[1] = x[1] /\ (z = c \/ z[3] < c[3])
  <2>1. CASE x = u
    <3>1. \A c \in Bounds(output) : c[3] <= a /\ c[1] # entry
      BY <1>3, NamesAreDefs DEF FlowInv, Forward, Bounds, a
    <3>2. \A c \in Bounds(output') : IF c[1] = entry THEN x[3] < c[3] ELSE c[3] <= x[3]
      BY <1>1, <1>5, <1>17, <2>1, <3>1
    <3>3. <<"entry", x[1][2]>> = entry
      BY <1>5, <2>1 DEF entry
    <3> QED
      BY <1>5, <2>1, <3>2, <3>3
  <2>2. CASE x \in Uses(output)
    <3>1. x[1][1] = "@__end"
      BY <1>19, <2>2 DEF FlowInv, BoundsInv
    <3>2. PICK z \in Defs(output) : z[1] = x[1]
      BY <1>15, <2>2, <3>1, NamesAreDefs
    <3>3. z[3] < y[3] /\ z \in Defs(output')
      BY <1>1, <1>2, <1>5 DEF FlowInv, Forward, a
    <3>4. y[1] # <<"entry", x[1][2]>>
      BY <1>4, <1>5, <2>2 DEF Places
    <3>5. \A c \in Bounds(output) :
             IF c[1] = <<"entry", x[1][2]>> THEN x[3] < c[3]
             ELSE \/ c[3] <= x[3]
                  \/ \E w \in Defs(output) : w[1] = x[1] /\ (w = c \/ w[3] < c[3])
      BY <1>19, <2>2 DEF FlowInv, BoundsInv
    <3>6. Defs(output) \subseteq Defs(output')
      BY <1>2
    <3>7. ASSUME NEW c \in Bounds(output')
          PROVE  IF c[1] = <<"entry", x[1][2]>> THEN x[3] < c[3]
                 ELSE \/ c[3] <= x[3]
                      \/ \E w \in Defs(output') : w[1] = x[1] /\ (w = c \/ w[3] < c[3])
      <4>1. CASE c \in Bounds(output)
        BY <3>5, <3>6, <4>1
      <4>2. CASE c = y
        BY <3>2, <3>3, <3>4, <4>2
      <4> QED
        BY <1>17, <4>1, <4>2
    <3> QED
      BY <3>1, <3>7
  <2> QED
    BY <1>2, <2>1, <2>2
<1>20. BoundsInv(frames', output')
  BY <1>17, <1>18, <1>19 DEF BoundsInv
<1> QED
  BY <1>11, <1>12, <1>13, <1>14, <1>16, <1>20, FlowInvNext

LEMMA CloseCallableFlow ==
    ASSUME TypeInv, LabelInv, FlowInv, CloseFunction \/ CloseSyscall
    PROVE  FlowInv'
<1> DEFINE end == <<"@__end", Top.id>>
           a == output.addr
           d == output.depth
           y == <<end, d, a + 1>>
<1>1. /\ frames # <<>> /\ Top.kind \in CallableKinds
      /\ frames' = Front(frames) /\ output' = Define(Code(output, 0), end)
      /\ uniqueid' = uniqueid /\ frames \in Seq(Frame)
      /\ d \in Int /\ a \in Nat /\ uniqueid \in Nat
  BY OutputSoFar DEF CloseFunction, CloseSyscall, CloseBody, CallableKinds
<1>2. Len(frames) = 1 /\ Top = frames[1] /\ Top \in Frame /\ d = Base(frames, 1)
  <2>1. Top = frames[Len(frames)] /\ Len(frames) \in 1..Len(frames) /\ Top \in Frame
        /\ d = Base(frames, Len(frames))
    BY <1>1, TopFlow
  <2>2. Len(frames) = 1
    BY <1>1, <2>1 DEF FlowInv, CallablesInv
  <2> QED
    BY <2>1, <2>2
<1>3. Len(frames') = 0
  BY <1>1, <1>2, FrontProperties
<1>4. /\ Defs(output') = Defs(output) \cup {y}
      /\ Uses(output') = Uses(output)
      /\ output'.addr = a + 1 /\ output'.depth = d
  <2> DEFINE o1 == Code(output, 0)
  <2>1. /\ Defs(o1) = Defs(output) /\ Uses(o1) = Uses(output)
        /\ o1.addr = a + 1 /\ o1.depth = d + 0
    BY DEF Code, Defs, Uses
  <2> HIDE DEF o1
  <2>2. /\ Defs(output') = Defs(o1) \cup {<<end, o1.depth, o1.addr>>} /\ Uses(output') = Uses(o1)
        /\ output'.addr = o1.addr /\ output'.depth = o1.depth
    BY <1>1, EmitterEffects DEF o1
  <2> HIDE DEF end, a, d
  <2>3. o1.depth = d
    BY <1>1, <2>1
  <2> QED
    BY <2>1, <2>2, <2>3
<1>5. /\ Top.kind # "for" /\ Numbers(Top) = {Top.id} /\ Owed(Top) = {end}
      /\ Top.id \in Functions
  BY <1>1, <1>2 DEF CallableKinds, Numbers, Owed, Pending, Frame, StatementKinds, LoopKinds
<1>6. <<"entry", Top.id>> \in Names(output)
  BY <1>1, <1>2 DEF LabelInv, OpenEntriesInv
<1>7. /\ y[1] = end /\ y[2] = d /\ y[3] = a + 1 /\ end[1] = "@__end" /\ end[2] = Top.id
      /\ \A g : <<"entry", g>> # end
  OBVIOUS
<1>8. "@__end" \in NamedKinds /\ NamedKinds \cap NumberedKinds = {}
  BY DEF NamedKinds, NumberedKinds
<1> HIDE DEF end, a, d, y
<1>9. output'.depth = Base(frames', 0)
  <2>1. Base(frames, 0) = Base(frames', 0)
    <3>1. \A i \in 1..0 : frames[i].kind = frames'[i].kind
      OBVIOUS
    <3> QED
      BY <3>1, BaseSame
  <2>2. Base(frames, 0 + 1) = Base(frames, 0) + (IF frames[0 + 1].kind = "for" THEN 3 ELSE 0)
    BY BaseNext
  <2>3. Base(frames, 0) \in Nat
    BY BaseType
  <2> QED
    BY <1>2, <1>4, <1>5, <2>1, <2>2, <2>3
<1>10. /\ \A x \in Places(output') : x \in Places(output) \/ x = y
       /\ Names(output) \subseteq Names(output') /\ end \in Names(output')
  BY <1>4, <1>7, NamesAreDefs DEF Places
<1>11. NumbersInv(frames', uniqueid') /\ CallablesInv(frames')
  BY <1>3 DEF NumbersInv, CallablesInv
<1>12. DepthInv(frames', output', uniqueid')
  <2>1. Used(output, uniqueid) \subseteq Used(output', uniqueid') /\ Top.id \in Used(output', uniqueid')
    BY <1>1, <1>5, <1>6, <1>10 DEF Used
  <2>2. \A x \in Places(output') : x[1][2] \in Used(output', uniqueid')
    BY <1>7, <1>10, <2>1 DEF FlowInv, DepthInv
  <2>3. \A x \in Places(output) : x[1] = end => x[2] = d
    BY <1>2, <1>5, <1>7 DEF FlowInv, DepthInv
  <2>4. \A x, z \in Places(output') : x[1] = z[1] => x[2] = z[2]
    BY <1>7, <1>10, <2>3 DEF FlowInv, DepthInv
  <2> QED
    BY <1>3, <1>9, <2>2, <2>4 DEF DepthInv
<1>13. Forward(output')
  <2>1. \A x \in Uses(output') : x[3] \in Nat /\ x[3] < a /\ x[3] < output'.addr
    BY <1>1, <1>4 DEF FlowInv, Forward, a
  <2>2. \A x \in Defs(output') : x[3] \in Nat /\ x[3] <= output'.addr
    BY <1>1, <1>4, <1>7 DEF FlowInv, Forward, a
  <2>3. \A x \in Uses(output') : ~(y[3] <= x[3])
    BY <1>1, <1>7, <2>1
  <2> QED
    BY <1>4, <2>1, <2>2, <2>3 DEF FlowInv, Forward
<1>14. \A x \in Uses(output) : x[1] \in Names(output) \/ x[1][1] \in {"@while", "@enddo"} \/ x[1] = end
  BY <1>2, <1>5 DEF FlowInv, ResolvedInv
<1>15. ResolvedInv(frames', output')
  BY <1>3, <1>4, <1>10, <1>14 DEF ResolvedInv
<1>16. /\ Bounds(output') = Bounds(output) \cup {y}
       /\ \A x \in Uses(output'), z \in Defs(output'), c \in Bounds(output') :
             (x[1] = z[1] /\ x[1][1] \in NumberedKinds) => (c[3] <= x[3] <=> c[3] <= z[3])
  <2>1. \A x \in Uses(output') : x \in Uses(output) \/ x[1][1] \in NamedKinds
    BY <1>4
  <2>2. \A x \in Uses(output), z \in Defs(output), c \in Bounds(output) :
           (x[1] = z[1] /\ x[1][1] \in NumberedKinds) => (c[3] <= x[3] <=> c[3] <= z[3])
    BY DEF FlowInv, BoundsInv
  <2>3. Forward(output) /\ output.addr \in Nat /\ y[1][1] \in NamedKinds /\ y[3] = output.addr + 1
    BY <1>1, <1>7, <1>8 DEF FlowInv, a
  <2> QED
    BY <1>4, <2>1, <2>2, <2>3, BoundsGrow
<1>17. ASSUME NEW x \in Uses(output'), x[1][1] \in NamedKinds
       PROVE  /\ x[1][1] = "@__end"
              /\ \A c \in Bounds(output') :
                    IF c[1] = <<"entry", x[1][2]>> THEN x[3] < c[3]
                    ELSE \/ c[3] <= x[3]
                         \/ \E z \in Defs(output') : z[1] = x[1] /\ (z = c \/ z[3] < c[3])
  <2>1. x[1][1] = "@__end" /\ x \in Uses(output)
    BY <1>4, <1>17 DEF FlowInv, BoundsInv
  <2>2. \A c \in Bounds(output) :
           IF c[1] = <<"entry", x[1][2]>> THEN x[3] < c[3]
           ELSE \/ c[3] <= x[3]
                \/ \E w \in Defs(output) : w[1] = x[1] /\ (w = c \/ w[3] < c[3])
    BY <1>4, <1>17 DEF FlowInv, BoundsInv
  <2>3. \E z \in Defs(output') : z[1] = x[1] /\ (z = y \/ z[3] < y[3])
    <3>1. CASE x[1] = end
      BY <1>4, <1>7, <3>1
    <3>2. CASE x[1] \in Names(output)
      <4>1. PICK z \in Defs(output) : z[1] = x[1]
        BY <3>2, NamesAreDefs
      <4>2. z[3] < y[3] /\ z \in Defs(output')
        BY <1>1, <1>4, <1>7 DEF FlowInv, Forward, a
      <4> QED
        BY <4>1, <4>2
    <3> QED
      BY <1>14, <2>1, <3>1, <3>2
  <2>4. Defs(output) \subseteq Defs(output')
    BY <1>4
  <2>5. ASSUME NEW c \in Bounds(output')
        PROVE  IF c[1] = <<"entry", x[1][2]>> THEN x[3] < c[3]
               ELSE \/ c[3] <= x[3]
                    \/ \E w \in Defs(output') : w[1] = x[1] /\ (w = c \/ w[3] < c[3])
    <3>1. CASE c \in Bounds(output)
      BY <2>2, <2>4, <3>1
    <3>2. CASE c = y
      BY <1>7, <2>3, <3>2
    <3> QED
      BY <1>16, <3>1, <3>2
  <2> QED
    BY <2>1, <2>5
<1>18. BoundsInv(frames', output')
  BY <1>3, <1>16, <1>17 DEF BoundsInv
<1> QED
  BY <1>11, <1>12, <1>13, <1>15, <1>18, FlowInvNext

-----------------------------------------------------------------------------
(* The theorems.                                                            *)

LEMMA FlowInvHolds == Spec => []FlowInv
<1>1. Init => FlowInv
  <2> SUFFICES ASSUME Init PROVE FlowInv
    OBVIOUS
  <2>1. /\ Len(frames) = 0 /\ Defs(output) = {} /\ Uses(output) = {}
        /\ output.depth = 0 /\ output.addr = 0
    BY DEF Init, Defs, Uses
  <2>2. Base(frames, 0) = 0
    <3>1. {k \in 1..0 : frames[k].kind = "for"} = {}
      OBVIOUS
    <3> QED
      BY <3>1, FS_EmptySet DEF Base
  <2>3. DepthInv(frames, output, uniqueid)
    BY <2>1, <2>2 DEF DepthInv, Places
  <2>4. NumbersInv(frames, uniqueid) /\ CallablesInv(frames)
    BY <2>1 DEF NumbersInv, CallablesInv
  <2>5. Forward(output) /\ ResolvedInv(frames, output) /\ BoundsInv(frames, output)
    BY <2>1 DEF Forward, ResolvedInv, BoundsInv, Places
  <2> QED
    BY <2>3, <2>4, <2>5 DEF FlowInv
<1>2. TypeInv /\ LabelInv /\ FlowInv /\ [Next]_vars => FlowInv'
  <2> SUFFICES ASSUME TypeInv, LabelInv, FlowInv, [Next]_vars PROVE FlowInv'
    OBVIOUS
  <2>1. CASE UNCHANGED vars
    <3>1. frames' = frames /\ output' = output /\ uniqueid' = uniqueid
      BY <2>1 DEF vars
    <3>2. /\ NumbersInv(frames', uniqueid') /\ CallablesInv(frames')
          /\ DepthInv(frames', output', uniqueid') /\ Forward(output')
          /\ ResolvedInv(frames', output') /\ BoundsInv(frames', output')
      BY <3>1 DEF FlowInv
    <3> QED
      BY <3>2, FlowInvNext
  <2>2. CASE SimpleStmt
    BY <2>2, SimpleStmtFlow
  <2>3. CASE LoopStmt
    BY <2>3, OpenWhileFlow, OpenForFlow, OpenDoFlow, CloseWhileFlow, CloseForFlow,
       CloseDoWhileFlow, CloseDoFlow
       DEF LoopStmt
  <2>4. CASE IfStmt
    BY <2>4, OpenIfFlow, ElseFlow, CloseIfFlow, CloseElseFlow DEF IfStmt
  <2>5. CASE Callable
    BY <2>5, OpenCallableFlow, DefaultParamFlow, BeginFunctionBodyFlow, CloseCallableFlow
       DEF Callable, OpenFunction, OpenSyscall, CallableKinds
  <2> QED
    BY <2>1, <2>2, <2>3, <2>4, <2>5 DEF Next
<1> QED
  BY <1>1, <1>2, TypeInvHolds, LabelInvHolds, PTL DEF Spec

\* StatementsAreBalanced holds of every behaviour: between two statements the
\* operand stack holds three operands for every for loop that is being generated,
\* whatever was generated before and however the loops are nested.
THEOREM StatementsAreBalancedHolds == Spec => []StatementsAreBalanced
<1>1. TypeInv /\ FlowInv => StatementsAreBalanced
  <2> SUFFICES ASSUME TypeInv, FlowInv PROVE StatementsAreBalanced
    OBVIOUS
  <2>1. DOMAIN frames = 1..Len(frames)
    BY DEF TypeInv, StackInv
  <2> QED
    BY <2>1 DEF FlowInv, DepthInv, Base, StatementsAreBalanced
<1> QED
  BY <1>1, TypeInvHolds, FlowInvHolds, PTL

\* A jump and the label it targets are places of the code.
LEMMA JumpPlaces ==
    ASSUME NEW o, NEW j \in o.jumps, NEW d \in o.labels
    PROVE  /\ <<j.target, j.depth, j.addr>> \in Uses(o)
           /\ <<d.label, d.depth, d.addr>> \in Defs(o)
BY DEF Uses, Defs

\* JumpsKeepDepth holds of every behaviour: a jump finds the operand stack as deep
\* as the code that falls into its label leaves it, also where break and continue
\* leave several generators at once.
THEOREM JumpsKeepDepthHolds == Spec => []JumpsKeepDepth
<1>1. FlowInv => JumpsKeepDepth
  <2> SUFFICES ASSUME FlowInv, NEW j \in output.jumps, NEW d \in output.labels,
                      j.target = d.label
               PROVE  j.depth = d.depth
    BY DEF JumpsKeepDepth
  <2> DEFINE x == <<j.target, j.depth, j.addr>>
             y == <<d.label, d.depth, d.addr>>
  <2>1. x \in Places(output) /\ y \in Places(output)
    BY JumpPlaces DEF Places
  <2>2. x[1] = y[1] /\ x[2] = j.depth /\ y[2] = d.depth
    OBVIOUS
  <2> HIDE DEF x, y
  <2>3. x[2] = y[2]
    BY <2>1, <2>2 DEF FlowInv, DepthInv
  <2> QED
    BY <2>2, <2>3
<1> QED
  BY <1>1, FlowInvHolds, PTL

\* BackwardJumpsRepeatLoops holds of every behaviour: only the jumps that repeat a
\* loop go backwards.
THEOREM BackwardJumpsRepeatLoopsHolds == Spec => []BackwardJumpsRepeatLoops
<1>1. FlowInv => BackwardJumpsRepeatLoops
  <2> SUFFICES ASSUME FlowInv, NEW j \in output.jumps, NEW d \in output.labels,
                      j.target = d.label, d.addr <= j.addr
               PROVE  d.label[1] \in {"startwhile", "startfor", "@startdo"}
    BY DEF BackwardJumpsRepeatLoops
  <2> DEFINE x == <<j.target, j.depth, j.addr>>
             y == <<d.label, d.depth, d.addr>>
  <2>1. x \in Uses(output) /\ y \in Defs(output)
    BY JumpPlaces
  <2>2. x[1] = d.label /\ y[1] = d.label /\ x[3] = j.addr /\ y[3] = d.addr
    OBVIOUS
  <2> HIDE DEF x, y
  <2>3. Repeats(x[1])
    BY <2>1, <2>2 DEF FlowInv, Forward
  <2> QED
    BY <2>2, <2>3 DEF Repeats
<1> QED
  BY <1>1, FlowInvHolds, PTL

\* JumpsAreResolved holds of every behaviour: a complete program defines every
\* label it jumps to, but for the two labels of a do loop.
THEOREM JumpsAreResolvedHolds == Spec => []JumpsAreResolved
<1>1. FlowInv => JumpsAreResolved
  <2> SUFFICES ASSUME FlowInv, frames = <<>>, NEW j \in output.jumps,
                      j.target[1] \notin {"@while", "@enddo"}
               PROVE  Resolved(j)
    BY DEF JumpsAreResolved
  <2> DEFINE x == <<j.target, j.depth, j.addr>>
  <2>1. x \in Uses(output) /\ x[1] = j.target /\ Len(frames) = 0
    BY DEF Uses
  <2> HIDE DEF x
  <2>2. j.target \in Names(output)
    BY <2>1 DEF FlowInv, ResolvedInv
  <2> QED
    BY <2>2 DEF Names, Resolved
<1> QED
  BY <1>1, FlowInvHolds, PTL

\* JumpsStayInFunction holds of every behaviour: no jump crosses the bounds of a
\* function that is complete, but for the one that passes over it.
THEOREM JumpsStayInFunctionHolds == Spec => []JumpsStayInFunction
<1>1. TypeInv /\ LabelInv /\ FlowInv => JumpsStayInFunction
  <2> SUFFICES ASSUME TypeInv, LabelInv, FlowInv, NEW f \in Functions, Complete(f),
                      NEW j \in output.jumps, NEW d \in output.labels,
                      j.target = d.label, d.label # <<"entry", f>>
               PROVE  j.addr \in BodyOf(f) <=> d.addr \in BodyOf(f)
    BY DEF JumpsStayInFunction
  <2>1. PICK e \in output.labels : e.label = <<"@__end", f>>
    BY DEF Complete
  <2>2. PICK s \in output.labels : s.label = <<"entry", f>>
    <3>1. <<"@__end", f>> \in Names(output)
      BY <2>1 DEF Names
    <3>2. <<"entry", f>> \in Names(output)
      BY <3>1 DEF LabelInv, EndsInv
    <3> QED
      BY <3>2 DEF Names
  <2>3. ASSUME NEW l, NEW c \in output.labels, c.label = l
        PROVE  LabelAt(l) = c.addr
    <3>1. \A b \in output.labels : b.label = l => b = c
      BY <2>3 DEF LabelInv, Unique
    <3>2. (CHOOSE b \in output.labels : b.label = l) = c
      BY <2>3, <3>1
    <3> QED
      BY <3>2 DEF LabelAt
  <2>4. BodyOf(f) = s.addr..(e.addr - 1)
    BY <2>1, <2>2, <2>3 DEF BodyOf
  <2> DEFINE x == <<j.target, j.depth, j.addr>>
             y == <<d.label, d.depth, d.addr>>
             cs == <<s.label, s.depth, s.addr>>
             ce == <<e.label, e.depth, e.addr>>
  <2>5. x \in Uses(output) /\ y \in Defs(output) /\ cs \in Defs(output) /\ ce \in Defs(output)
    BY JumpPlaces
  <2>6. /\ x[1] = d.label /\ x[3] = j.addr /\ y[1] = d.label /\ y[3] = d.addr
        /\ cs[1] = <<"entry", f>> /\ cs[3] = s.addr
        /\ ce[1] = <<"@__end", f>> /\ ce[3] = e.addr
        /\ cs[1][1] = "entry" /\ cs[1][2] = f /\ ce[1][1] = "@__end" /\ ce[1][2] = f
    BY <2>1, <2>2
  <2>7. d.label \in Labels
    BY DEF TypeInv, Output
  <2> HIDE DEF x, y, cs, ce
  <2>8. cs \in Bounds(output) /\ ce \in Bounds(output)
    BY <2>5, <2>6 DEF Bounds, NamedKinds
  <2>9. x[3] \in Nat /\ y[3] \in Nat /\ cs[3] \in Nat /\ ce[3] \in Nat
    BY <2>5 DEF FlowInv, Forward
  <2>10. CASE x[1][1] \in NumberedKinds
    <3>1. (cs[3] <= x[3] <=> cs[3] <= y[3]) /\ (ce[3] <= x[3] <=> ce[3] <= y[3])
      BY <2>5, <2>6, <2>8, <2>10 DEF FlowInv, BoundsInv
    <3> QED
      BY <2>4, <2>6, <2>9, <3>1
  <2>11. CASE x[1][1] \in NamedKinds
    <3>1. /\ x[1][1] = "@__end"
          /\ \A c \in Bounds(output) :
                IF c[1] = <<"entry", x[1][2]>> THEN x[3] < c[3]
                ELSE \/ c[3] <= x[3]
                     \/ \E z \in Defs(output) : z[1] = x[1] /\ (z = c \/ z[3] < c[3])
      BY <2>5, <2>11 DEF FlowInv, BoundsInv
    <3>2. x[3] < y[3]
      <4>1. ~Repeats(x[1])
        BY <3>1 DEF Repeats
      <4>2. ~(y[3] <= x[3])
        BY <2>5, <2>6, <4>1 DEF FlowInv, Forward
      <4> QED
        BY <2>9, <4>2
    <3>3. \A z \in Defs(output) : z[1] = x[1] => z[3] = y[3]
      <4> SUFFICES ASSUME NEW z \in Defs(output), z[1] = x[1] PROVE z[3] = y[3]
        OBVIOUS
      <4>1. PICK b \in output.labels : z = <<b.label, b.depth, b.addr>>
        BY DEF Defs
      <4>2. b.label = d.label /\ z[3] = b.addr
        BY <2>6, <4>1
      <4>3. b = d
        BY <4>2 DEF LabelInv, Unique
      <4> QED
        BY <2>6, <4>2, <4>3
    <3>4. CASE x[1][2] = f
      <4>1. x[3] < cs[3]
        BY <2>6, <2>8, <3>1, <3>4
      <4>2. x[1] = ce[1]
        BY <2>6, <2>7, <3>1, <3>4 DEF Labels
      <4>3. y[3] = ce[3]
        BY <2>5, <3>3, <4>2
      <4> QED
        BY <2>4, <2>6, <2>9, <4>1, <4>3
    <3>5. CASE x[1][2] # f
      <4>1. cs[1] # <<"entry", x[1][2]>> /\ ce[1] # <<"entry", x[1][2]>>
        BY <2>6, <3>5
      <4>2. cs[1] # x[1] /\ ce[1] # x[1]
        BY <2>6, <3>5
      <4>3. cs[3] <= x[3] \/ y[3] < cs[3]
        BY <2>8, <3>1, <3>3, <4>1, <4>2
      <4>4. ce[3] <= x[3] \/ y[3] < ce[3]
        BY <2>8, <3>1, <3>3, <4>1, <4>2
      <4> QED
        BY <2>4, <2>6, <2>9, <3>2, <4>3, <4>4
    <3> QED
      BY <3>4, <3>5
  <2> QED
    BY <2>6, <2>7, <2>10, <2>11 DEF Labels
<1> QED
  BY <1>1, TypeInvHolds, LabelInvHolds, FlowInvHolds, PTL

=============================================================================
