----------------------------- MODULE MCClasses -----------------------------
(* Three classes in every hierarchy, written in an order that puts a class  *)
(* before its parent, with initializers and methods that use super.         *)
EXTENDS Classes

MCClassNames == <<"B", "A", "C">>
MCLibrary == [n \in {"k"} |-> "A"]

Set == <<"set", "f">>
Call(m) == <<"call", m>>
SuperCall(m) == <<"super", m>>

\* Nothing, or a method of this name and body.
Absent == <<<<"absent", "">>>>
Methods(m, new) ==
    [n \in (IF m = Absent THEN {} ELSE {"m"}) \cup (IF new = Absent THEN {} ELSE {"new"}) |->
        IF n = "m" THEN m ELSE new]

ClassDecl(extends, fields, m, new) ==
    [extends |-> extends, fields |-> fields, methods |-> Methods(m, new)]

Bodies(m) == {Absent, <<SuperCall(m)>>, <<Set>>}

MCPrograms ==
    {[c \in {"A", "B", "C"} |->
        CASE c = "A" -> ClassDecl(<<>>, {"f"}, <<Set>>, newA)
          [] c = "B" -> ClassDecl(extendsB, {}, mB, newB)
          [] c = "C" -> ClassDecl(extendsC, {}, mC, newC)] :
        extendsB \in {<<>>, <<"A">>},
        extendsC \in {<<"A">>, <<"B">>, <<"lib", "k">>},
        newA \in {Absent, <<Call("m")>>},
        mB \in Bodies("m"), newB \in {Absent, <<SuperCall("new"), Call("m")>>},
        mC \in Bodies("m"), newC \in Bodies("new")}

=============================================================================
