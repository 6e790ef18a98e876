------------------------------ MODULE Classes ------------------------------
(***************************************************************************)
(* Classes as generator_class.c compiles them: a class is a map that holds *)
(* its methods, its fields with their defaults and its allocator, and has  *)
(* the map of the class it extends as its prototype; an instance is a map  *)
(* with the class as its prototype.  The maps themselves and the way a     *)
(* missing item is looked up in the prototype are the machine's.           *)
(*                                                                         *)
(* A program is a record: for each class the path it extends (a sequence   *)
(* of names, <<>> for none), its fields and its methods.  The body of a    *)
(* method is a sequence of <<"set", f>> (this.f = something new),          *)
(* <<"call", m>> (this.m()) and <<"super", m>> (super.m()).                *)
(***************************************************************************)
EXTENDS Naturals, Sequences, SequencesExt

CONSTANTS
    ClassNames, \* the classes, in the order in which they are written
    Programs,   \* the programs
    Library,    \* classes by their names in an imported module
    MaxStmts    \* bound: statements of the main program

VARIABLES
    program,
    heap,    \* the maps: their items and their prototypes
    built,   \* classes built so far
    stmts,   \* statements begun so far
    frames,  \* methods that are running, innermost last
    root,    \* the instance that the statement is about
    reached, \* the last super call: whose method made it, and whose it reached
    failed   \* something that is no function was called

vars == <<program, heap, built, stmts, frames, root, reached, failed>>

Class(c) == <<"class", c>>
Object(n) == <<"object", n>>
Module == <<"module", "lib">>
None == <<"none", 0>>
Empty == <<"empty", 0>>

-----------------------------------------------------------------------------
(* Programs.                                                                *)

Names == ToSet(ClassNames)

\* The class that a path names.
Named(path) == IF Len(path) = 1 THEN path[1] ELSE Library[Last(path)]

\* The statements of all methods, and the names that those of some kinds use.
Statements(p) ==
    UNION {UNION {ToSet(p[c].methods[m]) : m \in DOMAIN p[c].methods} : c \in Names}

Used(p, kinds) == {s[2] : s \in {t \in Statements(p) : t[1] \in kinds}}

FieldNames(p) == (UNION {p[c].fields : c \in Names}) \cup Used(p, {"set"})

MethodNames(p) ==
    {"m", "new"} \cup (UNION {DOMAIN p[c].methods : c \in Names}) \cup Used(p, {"call", "super"})

ASSUME ProgramsAssumption ==
    /\ ClassNames \in Seq(STRING)
    /\ DOMAIN Library \subseteq STRING \ {""}
    /\ \A p \in Programs, c \in Names :
           /\ p[c].extends \in Seq(STRING)
           /\ \A m \in DOMAIN p[c].methods :
                  p[c].methods[m] \in Seq({"set", "call", "super"} \X STRING)

\* Hierarchies have no cycles.
ASSUME HierarchyAssumption ==
    \A p \in Programs : \E rank \in [Names -> 1..Len(ClassNames)] :
        \A c \in Names : p[c].extends # <<>> =>
            /\ Named(p[c].extends) \in Names
            /\ rank[Named(p[c].extends)] < rank[c]

\* No name is both that of a field and of a method; names are identifiers.
ASSUME NamesAssumption ==
    \A p \in Programs :
        /\ FieldNames(p) \cap MethodNames(p) = {}
        /\ {"@alloc", "@is_instance"} \cap (FieldNames(p) \cup MethodNames(p)) = {}

-----------------------------------------------------------------------------
(* Maps and prototypes.                                                     *)

Store(h, o, name, value) ==
    [h EXCEPT ![o].items = [n \in DOMAIN @ \cup {name} |-> IF n = name THEN value ELSE @[n]]]

\* An item is found in the map or along its prototypes.
LoadItem(o, name) ==
    LET Load[x \in DOMAIN heap] ==
            IF name \in DOMAIN heap[x].items THEN heap[x].items[name]
            ELSE IF heap[x].proto \in DOMAIN heap THEN Load[heap[x].proto]
            ELSE Empty
    IN  IF o \in DOMAIN heap THEN Load[o] ELSE Empty

Map(proto) == [items |-> <<>>, proto |-> proto]

-----------------------------------------------------------------------------
(* Building the classes.                                                    *)

\* A faulty variant: a class is linked to its prototype only if that was built.
ExtendedIfBuilt(path) ==
    CASE path = <<>> -> None
      [] Len(path) = 1 ->
           IF heap[Class(path[1])].items = <<>> THEN None ELSE Class(path[1])
      [] OTHER -> LoadItem(Module, "")

\* generate_extends: the first name is loaded; for each further name the item
\* that is loaded is named by the contents of the whole node, which are empty.
Extended(path) ==
    CASE path = <<>> -> None
      [] Len(path) = 1 -> Class(path[1])
      [] OTHER -> LoadItem(Module, "")

\* The items that the class stores into its own map.
Members(c) ==
    [n \in program[c].fields \cup DOMAIN program[c].methods \cup {"@alloc"} |->
        CASE n = "@alloc" -> <<"alloc", c>>
          [] n \in DOMAIN program[c].methods -> <<"method", c>>
          [] OTHER -> <<"default", 0>>]

generate_class ==
    /\ built < Len(ClassNames)
    /\ built' = built + 1
    /\ LET c == ClassNames[built']
       IN  heap' = [heap EXCEPT ![Class(c)] =
                       [items |-> Members(c), proto |-> Extended(program[c].extends)]]
    /\ UNCHANGED <<program, stmts, frames, root, reached, failed>>

-----------------------------------------------------------------------------
(* Statements of the main program.                                          *)

Statement ==
    /\ built = Len(ClassNames)
    /\ frames = <<>>
    /\ ~failed
    /\ stmts < MaxStmts
    /\ stmts' = stmts + 1
    /\ UNCHANGED <<program, built, reached>>

\* The function that an item holds runs with a map as its this.
Invoke(fs, this, name) ==
    LET f == LoadItem(this, name)
    IN  IF f[1] = "method"
        THEN /\ frames' = Append(fs, [this |-> this, class |-> f[2], name |-> name,
                                      rest |-> program[f[2]].methods[name]])
             /\ UNCHANGED failed
        ELSE frames' = <<>> /\ failed' = TRUE

\* The map that the allocator of a class makes.
Allocated(c) == [items |-> [n \in {"@is_instance"} |-> <<"value", 1>>], proto |-> Class(c)]

\* generate_new: the allocator that the class finds makes the map, and the
\* initializer that the map finds, if there is one, is run.
generate_new(c) ==
    /\ Statement
    /\ LET o == Object(stmts')
           alloc == LoadItem(Class(c), "@alloc")
           new == [x \in DOMAIN heap \cup {o} |-> IF x = o THEN Allocated(alloc[2]) ELSE heap[x]]
           init == LoadItem(Class(c), "new")
       IN  /\ heap' = new
           /\ root' = o
           /\ frames' = IF init = Empty THEN <<>>
                        ELSE <<[this |-> o, class |-> init[2], name |-> "new",
                                rest |-> program[init[2]].methods["new"]]>>
    /\ UNCHANGED failed

CallMethod(o, m) ==
    /\ Statement
    /\ root' = o
    /\ Invoke(<<>>, o, m)
    /\ UNCHANGED heap

-----------------------------------------------------------------------------
(* Methods.                                                                 *)

Top == Last(frames)
Callers == Append(Front(frames), [Top EXCEPT !.rest = Tail(@)])

Does(what) ==
    /\ frames # <<>>
    /\ Top.rest # <<>>
    /\ Head(Top.rest)[1] = what
    /\ UNCHANGED <<program, built, stmts, root>>

\* A faulty variant: a field that is inherited is changed where it was found.
Holder(o, name) ==
    LET From[x \in DOMAIN heap] ==
            IF name \in DOMAIN heap[x].items THEN x
            ELSE IF heap[x].proto \in DOMAIN heap THEN From[heap[x].proto]
            ELSE None
    IN  From[o]

SetFieldInClass ==
    /\ Does("set")
    /\ LET f == Head(Top.rest)[2]
           holder == Holder(root, f)
       IN  heap' = Store(heap, IF holder = None THEN root ELSE holder, f, <<"of", root>>)
    /\ frames' = Callers
    /\ UNCHANGED <<reached, failed>>

SetField ==
    /\ Does("set")
    /\ heap' = Store(heap, Top.this, Head(Top.rest)[2], <<"of", root>>)
    /\ frames' = Callers
    /\ UNCHANGED <<reached, failed>>

CallThis ==
    /\ Does("call")
    /\ Invoke(Callers, Top.this, Head(Top.rest)[2])
    /\ UNCHANGED <<heap, reached>>

\* A faulty variant: the prototype of this, whatever it is.
SuperOfAny(this) == heap[this].proto

\* super: the prototype of the class of an instance, or of a class itself.
Super(this) ==
    IF LoadItem(this, "@is_instance") # Empty THEN heap[heap[this].proto].proto
    ELSE heap[this].proto

\* The method runs with the map of the class as its this.
CallSuper ==
    /\ Does("super")
    /\ LET m == Head(Top.rest)[2]
       IN  /\ Invoke(Callers, Super(Top.this), m)
           /\ reached' = [from |-> Top.class, name |-> m, to |-> LoadItem(Super(Top.this), m)]
    /\ UNCHANGED heap

Return ==
    /\ frames # <<>>
    /\ Top.rest = <<>>
    /\ frames' = Front(frames)
    /\ UNCHANGED <<program, heap, built, stmts, root, reached, failed>>

-----------------------------------------------------------------------------

Init ==
    /\ program \in Programs
    \* populate_symbol_table makes an empty map for each class.
    /\ heap = [o \in {Class(c) : c \in Names} \cup {Module} |->
                  IF o = Module THEN [items |-> [n \in DOMAIN Library |-> Class(Library[n])], proto |-> None]
                  ELSE Map(None)]
    /\ built = 0 /\ stmts = 0
    /\ frames = <<>>
    /\ root = None
    /\ reached = [from |-> "", name |-> "", to |-> Empty]
    /\ failed = FALSE

Step == generate_class \/ SetField \/ CallThis \/ CallSuper \/ Return

Next ==
    \/ Step
    \/ \E c \in Names : generate_new(c)
    \/ \E n \in 1..stmts : Object(n) \in DOMAIN heap /\ CallMethod(Object(n), "m")

Spec == Init /\ [][Next]_vars /\ WF_vars(Step)

-----------------------------------------------------------------------------
(* Properties.                                                              *)

\* The classes from which a class inherits, itself included, as they are written.
Ancestors(p, c) ==
    LET From[d \in Names] ==
            {d} \cup (IF p[d].extends = <<>> THEN {} ELSE From[Named(p[d].extends)])
    IN  From[c]

\* The nearest of them that has a method of a name.
Definer(p, c, m) ==
    LET has == {a \in Ancestors(p, c) : m \in DOMAIN p[a].methods}
    IN  IF has = {} THEN Empty ELSE <<"method", CHOOSE a \in has : has \subseteq Ancestors(p, a)>>

\* Classes extend classes of their own file.
ExtendsByName(p) == \A c \in Names : Len(p[c].extends) <= 1

\* A class that inherits a method does not inherit one that uses super.
SuperIsNotInherited(p) ==
    \A c \in Names : p[c].extends # <<>> =>
        LET parent == p[Named(p[c].extends)].methods
        IN  \A m \in DOMAIN parent \ DOMAIN p[c].methods :
                \A i \in DOMAIN parent[m] : parent[m][i][1] # "super"

\* super.m() in a method of a class runs the method m that its parent has.
SuperReachesParent ==
    reached.from # "" /\ ExtendsByName(program) /\ SuperIsNotInherited(program) =>
        LET parent == program[reached.from].extends
        IN  reached.to = IF parent = <<>> THEN Empty ELSE Definer(program, Named(parent), reached.name)

\* The class of an instance, and a class itself.
ClassOf(o) == IF o[1] = "class" THEN o[2] ELSE heap[o].proto[2]

\* A class and its instances have its methods, and those it inherits, whatever was
\* stored into them.
InstancesHaveTheirMethods ==
    built = Len(ClassNames) /\ ExtendsByName(program) =>
        \A o \in DOMAIN heap \ {Module}, m \in MethodNames(program) :
            LoadItem(o, m) = Definer(program, ClassOf(o), m)

\* What a statement does to an instance changes the items of that instance.
\* It changes those of a class only where super made that class the this of a
\* method, and then only if the instance is one of that class.
Family == {Class(c) : c \in Ancestors(program, ClassOf(root))}

WritesStayInFamily ==
    [][built = Len(ClassNames) =>
          \A o \in DOMAIN heap \ {root} : heap'[o] # heap[o] =>
              o \in Family /\ \E i \in DOMAIN frames : frames[i].this = o]_vars

=============================================================================
