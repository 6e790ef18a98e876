---------------------------- MODULE ClassesProofs ----------------------------
(***************************************************************************)
(* Proofs about classes: every class and instance has the methods that the *)
(* hierarchy says, super reaches the parent of the class whose method uses *)
(* it, and what a statement stores stays with the instance that it is about *)
(* and the classes of that.                                                *)
(***************************************************************************)
EXTENDS Classes, ProofLemmas

-----------------------------------------------------------------------------
(* Hierarchies, as they are written.                                        *)

Parent(c) == Named(program[c].extends)
HasParent(c) == program[c].extends # <<>>

\* Of any classes there is one whose parent is none of them.
LEMMA FirstOfHierarchy ==
    ASSUME program \in Programs, NEW T, T \subseteq Names, T # {}
    PROVE  \E c \in T : HasParent(c) => Parent(c) \in Names \ T
<1>1. PICK rank \in [Names -> 1..Len(ClassNames)] :
          \A d \in Names : HasParent(d) => Parent(d) \in Names /\ rank[Parent(d)] < rank[d]
  BY HierarchyAssumption DEF HierarchyAssumption, HasParent, Parent
<1>2. Len(ClassNames) \in Nat
  <2>1. ClassNames \in Seq(STRING)
    BY ProgramsAssumption DEF ProgramsAssumption
  <2> QED BY <2>1, LenProperties
<1>3. \A d \in Names : rank[d] \in Nat
  BY <1>1, <1>2
<1>4. {rank[d] : d \in T} \subseteq Nat /\ {rank[d] : d \in T} # {}
  BY <1>3
<1>5. PICK k \in {rank[d] : d \in T} : \A l \in {rank[d] : d \in T} : k <= l
  BY <1>4, SmallestElement
<1>6. PICK c \in T : k = rank[c]
  BY <1>5
<1>7. HasParent(c) => Parent(c) \in Names /\ rank[Parent(c)] < rank[c]
  BY <1>1
<1>8. ASSUME HasParent(c), Parent(c) \in T
      PROVE  FALSE
  <2>1. rank[c] <= rank[Parent(c)]
    BY <1>5, <1>6, <1>8
  <2>2. rank[c] \in Nat /\ rank[Parent(c)] \in Nat
    BY <1>3, <1>8
  <2> QED BY <1>7, <1>8, <2>1, <2>2
<1> QED BY <1>7, <1>8

\* A class inherits from itself and from what its parent inherits from.
LEMMA AncestorsEquation ==
    ASSUME program \in Programs, NEW c \in Names
    PROVE  /\ Ancestors(program, c) = {c} \cup (IF HasParent(c) THEN Ancestors(program, Parent(c)) ELSE {})
           /\ Ancestors(program, c) \subseteq Names
<1> DEFINE More(f, d) == {d} \cup (IF program[d].extends = <<>> THEN {} ELSE f[Named(program[d].extends)])
           From == CHOOSE f : f = [d \in Names |-> More(f, d)]
           V == SUBSET Names
<1>1. PICK rank \in [Names -> 1..Len(ClassNames)] :
          \A d \in Names : HasParent(d) => Parent(d) \in Names /\ rank[Parent(d)] < rank[d]
  BY HierarchyAssumption DEF HierarchyAssumption, HasParent, Parent
<1>2. Len(ClassNames) \in Nat /\ rank \in [Names -> 0..Len(ClassNames)]
  <2>1. Len(ClassNames) \in Nat
    <3>1. ClassNames \in Seq(STRING)
      BY ProgramsAssumption DEF ProgramsAssumption
    <3> QED BY <3>1, LenProperties
  <2>2. 1..Len(ClassNames) \subseteq 0..Len(ClassNames)
    BY <2>1
  <2> QED BY <2>1, <2>2
<1> DEFINE step == [d \in Names |-> [f \in [Names -> V] |-> More(f, d)]]
<1>3. \A d \in Names, f \in [Names -> V] : More(f, d) \in V
  BY <1>1 DEF HasParent, Parent
<1>4. step \in [Names -> [[Names -> V] -> V]]
  <2> HIDE DEF More, V
  <2> QED BY <1>3
<1>5. \A d \in Names, f, g \in [Names -> V] :
          (\A e \in Names : rank[e] < rank[d] => f[e] = g[e]) => More(f, d) = More(g, d)
  BY <1>1 DEF HasParent, Parent
<1>6. \A d \in Names, f \in [Names -> V] : step[d][f] = More(f, d)
  <2> HIDE DEF More, V
  <2> QED OBVIOUS
<1>7. \E f \in [Names -> V] : \A d \in Names : f[d] = step[d][f]
  <2>1. V # {}
    OBVIOUS
  <2>2. \A d \in Names, f, g \in [Names -> V] :
          (\A e \in Names : rank[e] < rank[d] => f[e] = g[e]) => step[d][f] = step[d][g]
    <3> HIDE DEF More, step, V
    <3> QED BY <1>5, <1>6
  <2> DEFINE N == Len(ClassNames)
  <2>3. N \in Nat /\ rank \in [Names -> 0..N]
    BY <1>2
  <2> HIDE DEF step, V, N
  <2>4. DefinesByRank(Names, V, N, rank, step)
    BY <2>3, <1>4, <2>1, <2>2 DEF DefinesByRank
  <2> QED BY <2>4, RecursionOnRank
<1>8. \E f : f = [d \in Names |-> More(f, d)]
  <2> HIDE DEF More, step, V
  <2> QED BY <1>6, <1>7
<1>9. From = [d \in Names |-> More(From, d)]
  <2> HIDE DEF More
  <2> QED BY <1>8
<1>10. \A d \in Names : Ancestors(program, d) = From[d]
  BY DEF Ancestors
<1>11. \A d \in Names : Ancestors(program, d) = {d} \cup (IF HasParent(d) THEN From[Parent(d)] ELSE {})
  <2>1. \A d \in Names : From[d] = More(From, d)
    <3> HIDE DEF From, More
    <3> QED BY <1>9
  <2> HIDE DEF From
  <2> QED BY <1>10, <2>1 DEF HasParent, Parent
<1>12. ASSUME \E d \in Names : From[d] \notin V
       PROVE  FALSE
  <2> DEFINE T == {d \in Names : From[d] \notin V}
  <2> HIDE DEF From
  <2>1. PICK d \in T : HasParent(d) => Parent(d) \in Names \ T
    BY <1>12, FirstOfHierarchy
  <2> QED BY <1>10, <1>11, <2>1
<1>13. \A d \in Names : HasParent(d) => Parent(d) \in Names
  BY <1>1
<1> HIDE DEF From
<1> QED BY <1>10, <1>11, <1>12, <1>13

\* No class inherits from what inherits from it.
LEMMA AncestorsAreAbove ==
    ASSUME program \in Programs, NEW c \in Names, NEW a \in Ancestors(program, c), c \in Ancestors(program, a)
    PROVE  a = c
<1>1. PICK rank \in [Names -> 1..Len(ClassNames)] :
          \A d \in Names : HasParent(d) => Parent(d) \in Names /\ rank[Parent(d)] < rank[d]
  BY HierarchyAssumption DEF HierarchyAssumption, HasParent, Parent
<1>2. \A d \in Names : rank[d] \in Int
  BY <1>1
<1> DEFINE T == {d \in Names : \E b \in Ancestors(program, d) : b # d /\ ~ rank[b] < rank[d]}
<1>3. ASSUME T # {}
      PROVE  FALSE
  <2>1. PICK d \in T : HasParent(d) => Parent(d) \in Names \ T
    BY <1>3, FirstOfHierarchy
  <2>2. PICK b \in Ancestors(program, d) : b # d /\ ~ rank[b] < rank[d]
    BY <2>1
  <2>3. HasParent(d) /\ b \in Ancestors(program, Parent(d))
    BY <2>1, <2>2, AncestorsEquation
  <2>4. b = Parent(d) \/ rank[b] < rank[Parent(d)]
    BY <2>1, <2>3
  <2>5. b \in Names /\ Parent(d) \in Names /\ d \in Names
    BY <2>1, <2>2, AncestorsEquation, <1>1, <2>3
  <2> HIDE DEF T
  <2>6. rank[Parent(d)] < rank[d]
    BY <1>1, <2>3, <2>5
  <2> QED BY <1>2, <2>2, <2>4, <2>5, <2>6
<1>4. a \in Names
  BY AncestorsEquation
<1>5. \A d \in Names : \A b \in Ancestors(program, d) : b # d => rank[b] < rank[d]
  BY <1>3
<1>6. a # c => rank[a] < rank[c] /\ rank[c] < rank[a]
  BY <1>4, <1>5
<1> QED BY <1>2, <1>4, <1>6

\* A class has the method of its own, or that of its parent.
LEMMA DefinerEquation ==
    ASSUME program \in Programs, NEW c \in Names, NEW m
    PROVE  Definer(program, c, m) = IF m \in DOMAIN program[c].methods THEN <<"method", c>>
                           ELSE IF HasParent(c) THEN Definer(program, Parent(c), m)
                           ELSE Empty
<1> DEFINE has(d) == {a \in Ancestors(program, d) : m \in DOMAIN program[a].methods}
<1>1. \A d : Definer(program, d, m) = IF has(d) = {} THEN Empty
                             ELSE <<"method", CHOOSE a \in has(d) : has(d) \subseteq Ancestors(program, a)>>
  BY DEF Definer
<1>2. CASE m \in DOMAIN program[c].methods
  <2>1. c \in has(c) /\ has(c) \subseteq Ancestors(program, c)
    BY <1>2, AncestorsEquation
  <2>2. \A a \in has(c) : has(c) \subseteq Ancestors(program, a) => a = c
    BY <2>1, AncestorsAreAbove
  <2>3. (CHOOSE a \in has(c) : has(c) \subseteq Ancestors(program, a)) = c
    <3> HIDE DEF has
    <3> QED BY <2>1, <2>2
  <2> QED BY <1>1, <1>2, <2>1, <2>3
<1>3. CASE m \notin DOMAIN program[c].methods /\ HasParent(c)
  <2>1. Ancestors(program, c) = {c} \cup Ancestors(program, Parent(c))
    BY <1>3, AncestorsEquation
  <2>2. has(c) = has(Parent(c))
    BY <1>3, <2>1
  <2> DEFINE Nearest(S) == CHOOSE a \in S : S \subseteq Ancestors(program, a)
  <2>3. \A d : Definer(program, d, m) = IF has(d) = {} THEN Empty ELSE <<"method", Nearest(has(d))>>
    BY <1>1
  <2> HIDE DEF has, Nearest
  <2> QED BY <1>3, <2>2, <2>3
<1>4. CASE m \notin DOMAIN program[c].methods /\ ~ HasParent(c)
  <2>1. has(c) = {}
    BY <1>4, AncestorsEquation
  <2> QED BY <1>1, <1>4, <2>1
<1> QED BY <1>2, <1>3, <1>4

\* What a class has is a method of a class.
LEMMA DefinerType ==
    ASSUME program \in Programs, NEW c \in Names, NEW m
    PROVE  \/ Definer(program, c, m) = Empty
           \/ \E d \in Names : Definer(program, c, m) = <<"method", d>> /\ m \in DOMAIN program[d].methods
<1> DEFINE Typed(d) ==
               \/ Definer(program, d, m) = Empty
               \/ \E e \in Names : Definer(program, d, m) = <<"method", e>> /\ m \in DOMAIN program[e].methods
           T == {d \in Names : ~ Typed(d)}
<1>1. ASSUME T # {}
      PROVE  FALSE
  <2>1. PICK d \in T : HasParent(d) => Parent(d) \in Names \ T
    BY <1>1, FirstOfHierarchy
  <2>2. CASE m \in DOMAIN program[d].methods
    <3>1. Definer(program, d, m) = <<"method", d>>
      BY <2>2, DefinerEquation
    <3> QED BY <2>1, <2>2, <3>1
  <2>3. CASE m \notin DOMAIN program[d].methods
    <3>1. Definer(program, d, m) = IF HasParent(d) THEN Definer(program, Parent(d), m) ELSE Empty
      BY <2>3, DefinerEquation
    <3> QED BY <2>1, <3>1
  <2> QED BY <2>2, <2>3
<1> QED BY <1>1

\* A class that has a method with super wrote that method itself.
LEMMA SuperIsOwn ==
    ASSUME program \in Programs, SuperIsNotInherited(program), NEW c \in Names, NEW d \in Names, NEW m,
           Definer(program, c, m) = <<"method", d>>, m \in DOMAIN program[d].methods,
           \E i \in DOMAIN program[d].methods[m] : program[d].methods[m][i][1] = "super"
    PROVE  d = c
<1> DEFINE T == {e \in Names : e # d /\ Definer(program, e, m) = <<"method", d>>}
<1>1. ASSUME T # {}
      PROVE  FALSE
  <2>1. PICK e \in T : HasParent(e) => Parent(e) \in Names \ T
    BY <1>1, FirstOfHierarchy
  <2>2. m \notin DOMAIN program[e].methods
    <3>1. m \in DOMAIN program[e].methods => Definer(program, e, m) = <<"method", e>>
      BY DefinerEquation
    <3> QED BY <2>1, <3>1
  <2>3. HasParent(e) /\ Definer(program, Parent(e), m) = <<"method", d>>
    <3>1. Definer(program, e, m) = IF HasParent(e) THEN Definer(program, Parent(e), m) ELSE Empty
      BY <2>1, <2>2, DefinerEquation
    <3>2. <<"method", d>> # Empty
      BY DEF Empty
    <3> QED BY <2>1, <3>1, <3>2
  <2>4. Parent(e) = d
    BY <2>1, <2>3
  <2> QED BY <2>1, <2>2, <2>3, <2>4 DEF SuperIsNotInherited, HasParent, Parent
<1> QED BY <1>1

-----------------------------------------------------------------------------
(* Maps and their prototypes.                                               *)

\* Prototypes have no cycles.
Descends(rank, N) ==
    /\ N \in Nat /\ rank \in [DOMAIN heap -> 0..N]
    /\ \A x \in DOMAIN heap : heap[x].proto \in DOMAIN heap => rank[heap[x].proto] < rank[x]

\* An item of a map is its own, or that of its prototype.
LEMMA LoadItemEquation ==
    ASSUME NEW N, NEW rank, Descends(rank, N), NEW name
    PROVE  /\ \A o : o \notin DOMAIN heap => LoadItem(o, name) = Empty
           /\ \A o \in DOMAIN heap :
                  LoadItem(o, name) = IF name \in DOMAIN heap[o].items THEN heap[o].items[name]
                                      ELSE LoadItem(heap[o].proto, name)
<1> DEFINE D == DOMAIN heap
           Found(f, x) == IF name \in DOMAIN heap[x].items THEN heap[x].items[name]
                          ELSE IF heap[x].proto \in DOMAIN heap THEN f[heap[x].proto]
                          ELSE Empty
           Load == CHOOSE f : f = [x \in DOMAIN heap |-> Found(f, x)]
           V == {heap[x].items[name] : x \in D} \cup {Empty}
           step == [x \in D |-> [f \in [D -> V] |-> Found(f, x)]]
<1>1. \A x \in D, f \in [D -> V] : Found(f, x) \in V
  OBVIOUS
<1>2. \A x \in D, f, g \in [D -> V] :
          (\A y \in D : rank[y] < rank[x] => f[y] = g[y]) => Found(f, x) = Found(g, x)
  BY DEF Descends
<1>3. \A x \in D, f \in [D -> V] : step[x][f] = Found(f, x)
  <2> HIDE DEF Found, V, D
  <2> QED OBVIOUS
<1>4. DefinesByRank(D, V, N, rank, step)
  <2>1. V # {} /\ N \in Nat /\ rank \in [D -> 0..N]
    BY DEF Descends
  <2>2. step \in [D -> [[D -> V] -> V]]
    <3> HIDE DEF Found, V, D
    <3> QED BY <1>1
  <2>3. \A x \in D, f, g \in [D -> V] :
            (\A y \in D : rank[y] < rank[x] => f[y] = g[y]) => step[x][f] = step[x][g]
    <3> HIDE DEF Found, V, D, step
    <3> QED BY <1>2, <1>3
  <2> HIDE DEF V, D, step
  <2> QED BY <2>1, <2>2, <2>3 DEF DefinesByRank
<1>5. \E f : f = [x \in D |-> Found(f, x)]
  <2> HIDE DEF Found, V, D, step
  <2>1. PICK f \in [D -> V] : \A x \in D : f[x] = step[x][f]
    BY <1>4, RecursionOnRank
  <2>2. f = [x \in D |-> Found(f, x)]
    BY <1>3, <2>1
  <2> QED BY <2>2
<1>6. Load = [x \in D |-> Found(Load, x)]
  <2> HIDE DEF Found
  <2> QED BY <1>5
<1>7. \A o : LoadItem(o, name) = IF o \in D THEN Load[o] ELSE Empty
  BY DEF LoadItem
<1>8. \A x \in D : Load[x] = Found(Load, x)
  <2> HIDE DEF Load, Found, V
  <2> QED BY <1>6
<1> HIDE DEF Load
<1> QED BY <1>7, <1>8

-----------------------------------------------------------------------------
(* The invariants.                                                          *)

AllBuilt == built = Len(ClassNames)
IsBuilt(c) == \E i \in 1..built : ClassNames[i] = c

\* What a class is linked to: the class that it names, if that is one of this file.
Prototype(c) ==
    CASE program[c].extends = <<>> -> None
      [] Len(program[c].extends) = 1 -> Class(program[c].extends[1])
      [] OTHER -> Empty

\* A class that is not built has neither items nor a prototype.  The allocator and
\* the methods of one that is built stay as they are.
ClassInv(c) ==
    LET map == heap[Class(c)]
    IN  /\ "@is_instance" \notin DOMAIN map.items
        /\ ~ IsBuilt(c) => map = Map(None)
        /\ IsBuilt(c) =>
               /\ map.proto = Prototype(c)
               /\ "@alloc" \in DOMAIN map.items /\ map.items["@alloc"] = <<"alloc", c>>
               /\ \A m \in MethodNames(program) :
                      IF m \in DOMAIN program[c].methods
                      THEN m \in DOMAIN map.items /\ map.items[m] = <<"method", c>>
                      ELSE m \notin DOMAIN map.items

\* An instance has its class, the mark of an instance, and no methods of its own.
ObjectInv(n) ==
    LET map == heap[Object(n)]
    IN  /\ \E c \in Names : map.proto = Class(c)
        /\ "@is_instance" \in DOMAIN map.items /\ map.items["@is_instance"] # Empty
        /\ MethodNames(program) \cap DOMAIN map.items = {}

HeapInv ==
    /\ program \in Programs
    /\ built \in 0..Len(ClassNames)
    /\ stmts \in Nat
    /\ stmts > 0 => AllBuilt
    /\ DOMAIN heap \subseteq {Module} \cup {Class(c) : c \in Names} \cup {Object(n) : n \in 1..stmts}
    /\ Module \in DOMAIN heap
    /\ heap[Module].proto = None /\ DOMAIN heap[Module].items = DOMAIN Library
    /\ \A c \in Names : Class(c) \in DOMAIN heap /\ ClassInv(c)
    /\ \A n \in 1..stmts : Object(n) \in DOMAIN heap => ObjectInv(n)
    /\ \A x \in DOMAIN heap : DOMAIN heap[x] = {"items", "proto"}

\* The methods of a program that may be running, with one of certain maps as this:
\* what one of them has still to do is part of its body.
Running(p, maps) ==
    {fr \in [this : maps, class : Names, name : MethodNames(p),
             rest : Seq({"set", "call", "super"} \X STRING)] :
        /\ fr.name \in DOMAIN p[fr.class].methods
        /\ ToSet(fr.rest) \subseteq ToSet(p[fr.class].methods[fr.name])}

\* The this of a method is the instance that the statement is about or one of the
\* classes of that.
Involved == {root} \cup Family

RunInv ==
    frames # <<>> =>
        /\ AllBuilt
        /\ \E n \in 1..stmts : root = Object(n)
        /\ root \in DOMAIN heap
        /\ frames \in Seq(Running(program, Involved))

\* The method is the one that the class of its this has.
FramesAreDefined ==
    ExtendsByName(program) =>
        \A i \in 1..Len(frames) :
            Definer(program, ClassOf(frames[i].this), frames[i].name) = <<"method", frames[i].class>>

-----------------------------------------------------------------------------
(* What the invariant of the maps says of lookups.                          *)

LEMMA Places ==
    /\ \A c, n : Class(c) # Object(n)
    /\ \A c : Class(c) # Module /\ Class(c) # None /\ Class(c) # Empty
    /\ \A n : Object(n) # Module /\ Object(n) # None /\ Object(n) # Empty
    /\ \A c, d : Class(c) = Class(d) => c = d
    /\ \A n, k : Object(n) = Object(k) => n = k
    /\ \A c : Class(c)[1] = "class" /\ Class(c)[2] = c
    /\ \A n : Object(n)[1] # "class"
    /\ Module # None /\ Module # Empty
BY DEF Class, Object, Module, None, Empty

LEMMA PrototypeType ==
    ASSUME program \in Programs, NEW c \in Names
    PROVE  \/ Prototype(c) \in {None, Empty}
           \/ HasParent(c) /\ Parent(c) \in Names /\ Prototype(c) = Class(Parent(c))
<1>1. CASE program[c].extends = <<>>
  BY <1>1 DEF Prototype
<1>2. CASE program[c].extends # <<>> /\ Len(program[c].extends) = 1
  <2>1. HasParent(c) /\ Parent(c) \in Names
    BY <1>2, HierarchyAssumption DEF HierarchyAssumption, HasParent, Parent
  <2>2. Parent(c) = program[c].extends[1]
    BY <1>2 DEF Parent, Named
  <2> QED BY <1>2, <2>1, <2>2 DEF Prototype
<1>3. CASE program[c].extends # <<>> /\ Len(program[c].extends) # 1
  BY <1>3 DEF Prototype
<1> QED BY <1>1, <1>2, <1>3

LEMMA EveryClassIsBuilt ==
    ASSUME HeapInv, AllBuilt, NEW c \in Names
    PROVE  IsBuilt(c)
<1>1. ClassNames \in Seq(STRING)
  BY ProgramsAssumption DEF ProgramsAssumption
<1>2. DOMAIN ClassNames = 1..Len(ClassNames)
  BY <1>1, LenProperties
<1> QED BY <1>2 DEF AllBuilt, IsBuilt, Names, ToSet

\* The kinds of maps, each with what its prototype is.
LEMMA Kinds ==
    ASSUME HeapInv, NEW x \in DOMAIN heap
    PROVE  \/ x = Module /\ heap[x].proto \notin DOMAIN heap
           \/ \E c \in Names :
                  /\ x = Class(c)
                  /\ \/ heap[x].proto \notin DOMAIN heap
                     \/ /\ IsBuilt(c) /\ HasParent(c) /\ Parent(c) \in Names
                        /\ heap[x].proto = Class(Parent(c))
           \/ \E n \in 1..stmts, c \in Names : x = Object(n) /\ heap[x].proto = Class(c)
<1>1. None \notin DOMAIN heap /\ Empty \notin DOMAIN heap
  BY Places DEF HeapInv
<1>2. CASE x = Module
  BY <1>1, <1>2 DEF HeapInv
<1>3. ASSUME NEW c \in Names, x = Class(c)
      PROVE  \/ heap[x].proto \notin DOMAIN heap
             \/ /\ IsBuilt(c) /\ HasParent(c) /\ Parent(c) \in Names
                /\ heap[x].proto = Class(Parent(c))
  <2>1. program \in Programs /\ ClassInv(c)
    BY DEF HeapInv
  <2>2. CASE IsBuilt(c)
    <3>1. heap[x].proto = Prototype(c)
      BY <1>3, <2>1, <2>2 DEF ClassInv
    <3> QED BY <1>1, <2>1, <2>2, <3>1, PrototypeType
  <2>3. CASE ~ IsBuilt(c)
    <3>1. heap[x].proto = None
      BY <1>3, <2>1, <2>3 DEF ClassInv, Map
    <3> QED BY <1>1, <3>1
  <2> QED BY <2>2, <2>3
<1>4. ASSUME NEW n \in 1..stmts, x = Object(n)
      PROVE  \E c \in Names : heap[x].proto = Class(c)
  BY <1>4 DEF HeapInv, ObjectInv
<1>5. x = Module \/ (\E c \in Names : x = Class(c)) \/ (\E n \in 1..stmts : x = Object(n))
  BY DEF HeapInv
<1> QED BY <1>2, <1>3, <1>4, <1>5

LEMMA HeapDescends ==
    ASSUME HeapInv
    PROVE  \E N, rank : Descends(rank, N)
<1>1. program \in Programs /\ ClassNames \in Seq(STRING)
  BY ProgramsAssumption DEF HeapInv, ProgramsAssumption
<1>2. Len(ClassNames) \in Nat
  BY <1>1, LenProperties
<1>3. PICK order \in [Names -> 1..Len(ClassNames)] :
          \A d \in Names : HasParent(d) => Parent(d) \in Names /\ order[Parent(d)] < order[d]
  BY <1>1, HierarchyAssumption DEF HierarchyAssumption, HasParent, Parent
<1> DEFINE N == Len(ClassNames) + 1
           rank == [x \in DOMAIN heap |->
                       IF x = Module THEN 0 ELSE IF x[1] = "class" THEN order[x[2]] ELSE N]
<1>4. \A c \in Names : order[c] \in 1..Len(ClassNames)
  BY <1>3
<1>5. /\ rank[Module] = 0
      /\ \A c \in Names : rank[Class(c)] = order[c]
      /\ \A n \in 1..stmts : Object(n) \in DOMAIN heap => rank[Object(n)] = N
  BY Places DEF HeapInv
<1>6. N \in Nat /\ rank \in [DOMAIN heap -> 0..N]
  <2>1. \A x \in DOMAIN heap : rank[x] \in 0..N
    <3> SUFFICES ASSUME NEW x \in DOMAIN heap PROVE rank[x] \in 0..N
      OBVIOUS
    <3>1. x = Module \/ (\E c \in Names : x = Class(c)) \/ (\E n \in 1..stmts : x = Object(n))
      BY DEF HeapInv
    <3> HIDE DEF rank
    <3> QED BY <1>2, <1>4, <1>5, <3>1
  <2> QED BY <1>2, <2>1
<1>7. ASSUME NEW x \in DOMAIN heap, heap[x].proto \in DOMAIN heap
      PROVE  rank[heap[x].proto] < rank[x]
  <2> HIDE DEF rank, N
  <2>1. CASE \E c \in Names : x = Class(c) /\ HasParent(c) /\ Parent(c) \in Names /\ heap[x].proto = Class(Parent(c))
    BY <1>3, <1>5, <2>1
  <2>2. CASE \E n \in 1..stmts, c \in Names : x = Object(n) /\ heap[x].proto = Class(c)
    BY <1>2, <1>4, <1>5, <2>2 DEF N
  <2> QED BY <1>7, <2>1, <2>2, Kinds
<1>8. Descends(rank, N)
  <2> HIDE DEF rank, N
  <2> QED BY <1>6, <1>7 DEF Descends
<1> QED BY <1>8

\* Of any maps there is one whose prototype is none of them.
LEMMA FirstOfHeap ==
    ASSUME HeapInv, NEW T, T \subseteq DOMAIN heap, T # {}
    PROVE  \E x \in T : heap[x].proto \notin T
<1>1. PICK N, rank : Descends(rank, N)
  BY HeapDescends
<1>2. N \in Nat /\ \A x \in DOMAIN heap : rank[x] \in 0..N
  BY <1>1 DEF Descends
<1>3. {rank[x] : x \in T} \subseteq Nat /\ {rank[x] : x \in T} # {}
  BY <1>2
<1>4. PICK k \in {rank[x] : x \in T} : \A l \in {rank[x] : x \in T} : k <= l
  BY <1>3, SmallestElement
<1>5. PICK x \in T : k = rank[x]
  BY <1>4
<1>6. ASSUME heap[x].proto \in T
      PROVE  FALSE
  <2>1. rank[x] <= rank[heap[x].proto]
    BY <1>4, <1>5, <1>6
  <2>2. rank[heap[x].proto] < rank[x]
    BY <1>1, <1>6 DEF Descends
  <2>3. rank[x] \in Int /\ rank[heap[x].proto] \in Int
    BY <1>2, <1>6
  <2> QED BY <2>1, <2>2, <2>3
<1> QED BY <1>6

LEMMA Lookups ==
    ASSUME HeapInv
    PROVE  /\ \A o, name : o \notin DOMAIN heap => LoadItem(o, name) = Empty
           /\ \A o \in DOMAIN heap : \A name :
                  LoadItem(o, name) = IF name \in DOMAIN heap[o].items THEN heap[o].items[name]
                                      ELSE LoadItem(heap[o].proto, name)
BY HeapDescends, LoadItemEquation

\* The own item of a map under the name of a method is a method of its class.
LEMMA OwnMethods ==
    ASSUME HeapInv, NEW o \in DOMAIN heap, o # Module, NEW m \in MethodNames(program),
           m \in DOMAIN heap[o].items
    PROVE  \E c \in Names : /\ o = Class(c) /\ IsBuilt(c)
                            /\ heap[o].items[m] = <<"method", c>> /\ m \in DOMAIN program[c].methods
<1>1. CASE \E c \in Names : o = Class(c)
  <2>1. PICK c \in Names : o = Class(c)
    BY <1>1
  <2>2. ClassInv(c)
    BY DEF HeapInv
  <2>3. IsBuilt(c)
    <3>1. ~ IsBuilt(c) => DOMAIN heap[o].items = {}
      BY <2>1, <2>2 DEF ClassInv, Map
    <3> QED BY <3>1
  <2> QED BY <2>1, <2>2, <2>3 DEF ClassInv
<1>2. CASE \E n \in 1..stmts : o = Object(n)
  BY <1>2 DEF HeapInv, ObjectInv
<1> QED BY <1>1, <1>2 DEF HeapInv

\* Whatever is found under the name of a method is a method.
LEMMA MethodsFound ==
    ASSUME HeapInv, NEW o, o # Module, NEW m \in MethodNames(program)
    PROVE  \/ LoadItem(o, m) = Empty
           \/ \E d \in Names : LoadItem(o, m) = <<"method", d>> /\ m \in DOMAIN program[d].methods
<1> DEFINE Typed(x) == \/ LoadItem(x, m) = Empty
                       \/ \E d \in Names : LoadItem(x, m) = <<"method", d>> /\ m \in DOMAIN program[d].methods
           T == {x \in DOMAIN heap : x # Module /\ ~ Typed(x)}
<1>1. ASSUME T # {}
      PROVE  FALSE
  <2>1. PICK x \in T : heap[x].proto \notin T
    BY <1>1, FirstOfHeap
  <2>2. m \notin DOMAIN heap[x].items
    <3>1. m \in DOMAIN heap[x].items => LoadItem(x, m) = heap[x].items[m]
      BY <2>1, Lookups
    <3> QED BY <2>1, <3>1, OwnMethods
  <2>3. LoadItem(x, m) = LoadItem(heap[x].proto, m)
    BY <2>1, <2>2, Lookups
  <2>4. heap[x].proto # Module \/ heap[x].proto \notin DOMAIN heap
    BY <2>1, Kinds, Places
  <2>5. heap[x].proto \in DOMAIN heap
    BY <2>1, <2>3, Lookups
  <2> QED BY <2>1, <2>3, <2>4, <2>5
<1>2. CASE o \in DOMAIN heap
  BY <1>1, <1>2
<1>3. CASE o \notin DOMAIN heap
  BY <1>3, Lookups
<1> QED BY <1>2, <1>3

\* No class has the mark of an instance.
LEMMA ClassesAreUnmarked ==
    ASSUME HeapInv, NEW c \in Names
    PROVE  LoadItem(Class(c), "@is_instance") = Empty
<1> DEFINE mark == "@is_instance"
           T == {x \in DOMAIN heap : (\E d \in Names : x = Class(d)) /\ LoadItem(x, mark) # Empty}
<1>1. ASSUME T # {}
      PROVE  FALSE
  <2>1. PICK x \in T : heap[x].proto \notin T
    BY <1>1, FirstOfHeap
  <2>2. PICK d \in Names : x = Class(d)
    BY <2>1
  <2>3. mark \notin DOMAIN heap[x].items
    BY <2>2 DEF HeapInv, ClassInv
  <2>4. LoadItem(x, mark) = LoadItem(heap[x].proto, mark)
    BY <2>1, <2>3, Lookups
  <2>5. heap[x].proto \in DOMAIN heap
    BY <2>1, <2>4, Lookups
  <2>6. \E e \in Names : heap[x].proto = Class(e)
    BY <2>1, <2>2, <2>5, Kinds, Places
  <2> QED BY <2>1, <2>4, <2>5, <2>6
<1>2. Class(c) \in DOMAIN heap
  BY DEF HeapInv
<1> QED BY <1>1, <1>2

\* What an ancestor inherits from, a class inherits from.
LEMMA AncestorsAreTransitive ==
    ASSUME program \in Programs, NEW c \in Names, NEW a \in Ancestors(program, c)
    PROVE  Ancestors(program, a) \subseteq Ancestors(program, c)
<1> DEFINE T == {d \in Names : \E b \in Ancestors(program, d) : ~ Ancestors(program, b) \subseteq Ancestors(program, d)}
<1>1. ASSUME T # {}
      PROVE  FALSE
  <2>1. PICK d \in T : HasParent(d) => Parent(d) \in Names \ T
    BY <1>1, FirstOfHierarchy
  <2>2. PICK b \in Ancestors(program, d) : ~ Ancestors(program, b) \subseteq Ancestors(program, d)
    BY <2>1
  <2>3. Ancestors(program, d) = {d} \cup (IF HasParent(d) THEN Ancestors(program, Parent(d)) ELSE {})
    BY <2>1, AncestorsEquation
  <2>4. HasParent(d) /\ b \in Ancestors(program, Parent(d))
    BY <2>2, <2>3
  <2>5. Ancestors(program, b) \subseteq Ancestors(program, Parent(d))
    BY <2>1, <2>4
  <2> QED BY <2>2, <2>3, <2>4, <2>5
<1> QED BY <1>1

\* A class is linked to the map of its parent.
LEMMA LinkedAsWritten ==
    ASSUME HeapInv, AllBuilt, ExtendsByName(program), NEW c \in Names
    PROVE  heap[Class(c)].proto = IF HasParent(c) THEN Class(Parent(c)) ELSE None
<1>0. program \in Programs
  BY DEF HeapInv
<1>1. heap[Class(c)].proto = Prototype(c)
  BY EveryClassIsBuilt DEF HeapInv, ClassInv
<1>2. ~ HasParent(c) => Prototype(c) = None
  BY DEF HasParent, Prototype
<1>3. HasParent(c) => Prototype(c) = Class(Parent(c))
  <2>1. program[c].extends \in Seq(STRING) /\ Len(program[c].extends) <= 1
    BY <1>0, ProgramsAssumption DEF ProgramsAssumption, ExtendsByName
  <2>2. HasParent(c) => Len(program[c].extends) = 1
    <3>1. ASSUME NEW path \in Seq(STRING), Len(path) <= 1, path # <<>>
          PROVE  Len(path) = 1
      <4>1. Len(path) \in Nat \ {0}
        BY <3>1, EmptySeq
      <4>2. \A n \in Nat \ {0} : n <= 1 => n = 1
        OBVIOUS
      <4> QED BY <3>1, <4>1, <4>2, Zenon
    <3> QED BY <2>1, <3>1, Zenon DEF HasParent
  <2> QED BY <2>2 DEF HasParent, Prototype, Parent, Named
<1> QED BY <1>1, <1>2, <1>3

\* Lookups follow the hierarchy as it is written.
LEMMA LookupsAreDefined ==
    ASSUME HeapInv, AllBuilt, ExtendsByName(program),
           NEW o \in DOMAIN heap, o # Module, NEW m \in MethodNames(program)
    PROVE  LoadItem(o, m) = Definer(program, ClassOf(o), m)
<1>0. program \in Programs
  BY DEF HeapInv
<1>1. \A c \in Names : heap[Class(c)].proto = IF HasParent(c) THEN Class(Parent(c)) ELSE None
  BY LinkedAsWritten
<1> DEFINE T == {c \in Names : LoadItem(Class(c), m) # Definer(program, c, m)}
<1>2. ASSUME T # {}
      PROVE  FALSE
  <2>1. PICK c \in T : HasParent(c) => Parent(c) \in Names \ T
    BY <1>0, <1>2, FirstOfHierarchy
  <2>2. Class(c) \in DOMAIN heap /\ ClassInv(c) /\ IsBuilt(c)
    BY <2>1, EveryClassIsBuilt DEF HeapInv
  <2>3. Definer(program, c, m) = IF m \in DOMAIN program[c].methods THEN <<"method", c>>
                        ELSE IF HasParent(c) THEN Definer(program, Parent(c), m)
                        ELSE Empty
    BY <1>0, <2>1, DefinerEquation
  <2>4. LoadItem(Class(c), m) = IF m \in DOMAIN heap[Class(c)].items THEN heap[Class(c)].items[m]
                                ELSE LoadItem(heap[Class(c)].proto, m)
    BY <2>2, Lookups
  <2>5. CASE m \in DOMAIN program[c].methods
    BY <2>1, <2>2, <2>3, <2>4, <2>5 DEF ClassInv
  <2>6. CASE m \notin DOMAIN program[c].methods
    <3>1. LoadItem(Class(c), m) = LoadItem(heap[Class(c)].proto, m)
      BY <2>2, <2>4, <2>6 DEF ClassInv
    <3>2. CASE HasParent(c)
      BY <1>1, <2>1, <2>3, <2>6, <3>1, <3>2
    <3>3. CASE ~ HasParent(c)
      <4>1. None \notin DOMAIN heap
        BY Places DEF HeapInv
      <4>2. LoadItem(None, m) = Empty
        BY <4>1, Lookups
      <4> QED BY <1>1, <2>1, <2>3, <2>6, <3>1, <3>3, <4>2
    <3> QED BY <3>2, <3>3
  <2> QED BY <2>5, <2>6
<1>3. CASE \E c \in Names : o = Class(c)
  BY <1>2, <1>3, Places DEF ClassOf
<1>4. CASE \E n \in 1..stmts : o = Object(n)
  <2>1. PICK n \in 1..stmts : o = Object(n)
    BY <1>4
  <2>2. m \notin DOMAIN heap[o].items
    BY <2>1 DEF HeapInv, ObjectInv
  <2>3. PICK c \in Names : heap[o].proto = Class(c)
    BY <2>1 DEF HeapInv, ObjectInv
  <2>4. LoadItem(o, m) = LoadItem(Class(c), m)
    BY <2>2, <2>3, Lookups
  <2>5. ClassOf(o) = c
    BY <2>1, <2>3, Places DEF ClassOf
  <2> QED BY <1>2, <2>4, <2>5
<1> QED BY <1>3, <1>4 DEF HeapInv

-----------------------------------------------------------------------------
(* The methods that run.                                                    *)

LEMMA HeadAndTail ==
    ASSUME NEW S, NEW s \in Seq(S), s # <<>>
    PROVE  /\ Head(s) \in S /\ Head(s) \in ToSet(s)
           /\ Tail(s) \in Seq(S) /\ ToSet(Tail(s)) \subseteq ToSet(s)
<1>1. Len(s) \in Nat \ {0} /\ DOMAIN s = 1..Len(s) /\ Head(s) = s[1]
  BY EmptySeq, LenProperties
<1>2. /\ Head(s) \in S /\ Tail(s) \in Seq(S) /\ Len(Tail(s)) = Len(s) - 1
      /\ \A i \in 1..Len(Tail(s)) : Tail(s)[i] = s[i + 1]
  BY HeadTailProperties
<1>3. DOMAIN Tail(s) = 1..Len(Tail(s))
  BY <1>2, LenProperties
<1>4. 1 \in DOMAIN s /\ \A i \in DOMAIN Tail(s) : i + 1 \in DOMAIN s
  BY <1>1, <1>2, <1>3
<1>5. \A i \in DOMAIN Tail(s) : Tail(s)[i] \in ToSet(s)
  BY <1>2, <1>3, <1>4 DEF ToSet
<1> QED BY <1>1, <1>2, <1>4, <1>5 DEF ToSet

MethodStatement == {"set", "call", "super"} \X STRING

\* The names that a statement of a method uses are among those of the program.
LEMMA NamesOfStatements ==
    ASSUME program \in Programs, NEW c \in Names, NEW m \in DOMAIN program[c].methods,
           NEW s \in ToSet(program[c].methods[m]), s \in MethodStatement
    PROVE  IF s[1] = "set" THEN s[2] \in FieldNames(program) ELSE s[2] \in MethodNames(program)
<1>1. s \in Statements(program)
  BY DEF Statements
<1>2. s[1] \in {"set", "call", "super"}
  BY DEF MethodStatement
<1>3. \A kinds : s[1] \in kinds => s[2] \in Used(program, kinds)
  BY <1>1, Zenon DEF Used
<1>4. Used(program, {"set"}) \subseteq FieldNames(program)
  BY DEF FieldNames
<1>5. Used(program, {"call", "super"}) \subseteq MethodNames(program)
  BY DEF MethodNames
<1> QED BY <1>2, <1>3, <1>4, <1>5

\* The innermost method and its callers, before and after its next statement.
LEMMA RunningMethods ==
    ASSUME HeapInv, RunInv, frames # <<>>
    PROVE  /\ Top \in Running(program, Involved)
           /\ Len(frames) \in Nat \ {0} /\ Top = frames[Len(frames)]
           /\ Front(frames) \in Seq(Running(program, Involved))
           /\ Top.rest # <<>> =>
                  /\ Head(Top.rest) \in MethodStatement
                  /\ Head(Top.rest) \in ToSet(program[Top.class].methods[Top.name])
                  /\ [Top EXCEPT !.rest = Tail(@)] \in Running(program, Involved)
                  /\ Callers \in Seq(Running(program, Involved))
<1> DEFINE R == Running(program, Involved)
<1>1. frames \in Seq(R)
  BY DEF RunInv
<1>2. Len(frames) \in Nat \ {0} /\ Front(frames) \in Seq(R)
  <2> HIDE DEF R
  <2> QED BY <1>1, FrontProperties
<1>3. Top = frames[Len(frames)]
  BY DEF Top, Last
<1>4. Top \in R
  <2> HIDE DEF R
  <2> QED BY <1>1, <1>2, <1>3, ElementOfSeq
<1>5. ASSUME Top.rest # <<>>
      PROVE  /\ Head(Top.rest) \in MethodStatement
             /\ Head(Top.rest) \in ToSet(program[Top.class].methods[Top.name])
             /\ [Top EXCEPT !.rest = Tail(@)] \in R
  <2>1. /\ Top \in [this : Involved, class : Names, name : MethodNames(program), rest : Seq(MethodStatement)]
        /\ Top.name \in DOMAIN program[Top.class].methods
        /\ ToSet(Top.rest) \subseteq ToSet(program[Top.class].methods[Top.name])
    BY <1>4 DEF Running, MethodStatement
  <2>2. Top.rest \in Seq(MethodStatement)
    BY <2>1
  <2>3. /\ Head(Top.rest) \in MethodStatement /\ Head(Top.rest) \in ToSet(Top.rest)
        /\ Tail(Top.rest) \in Seq(MethodStatement) /\ ToSet(Tail(Top.rest)) \subseteq ToSet(Top.rest)
    BY <1>5, <2>2, HeadAndTail
  <2> DEFINE t == [Top EXCEPT !.rest = Tail(@)]
  <2>4. /\ t \in [this : Involved, class : Names, name : MethodNames(program), rest : Seq(MethodStatement)]
        /\ t.name = Top.name /\ t.class = Top.class /\ t.rest = Tail(Top.rest)
    BY <2>1, <2>3
  <2>5. t \in R
    <3> HIDE DEF t
    <3> QED BY <2>1, <2>3, <2>4 DEF Running, MethodStatement
  <2> QED BY <2>1, <2>3, <2>5
<1>6. ASSUME Top.rest # <<>>
      PROVE  Callers \in Seq(R)
  <2>1. [Top EXCEPT !.rest = Tail(@)] \in R
    BY <1>5, <1>6
  <2> HIDE DEF R
  <2> QED BY <1>2, <2>1, AppendProperties DEF Callers
<1> QED BY <1>2, <1>3, <1>4, <1>5, <1>6

\* The name that the next statement uses.
LEMMA NextName ==
    ASSUME HeapInv, RunInv, frames # <<>>, Top.rest # <<>>
    PROVE  IF Head(Top.rest)[1] = "set" THEN Head(Top.rest)[2] \in FieldNames(program)
           ELSE Head(Top.rest)[2] \in MethodNames(program)
<1>1. /\ Top.class \in Names /\ Top.name \in DOMAIN program[Top.class].methods
      /\ Head(Top.rest) \in MethodStatement
      /\ Head(Top.rest) \in ToSet(program[Top.class].methods[Top.name])
  BY RunningMethods DEF Running
<1>2. program \in Programs
  BY DEF HeapInv
<1> QED BY <1>1, <1>2, NamesOfStatements

\* A method that is called runs with one of certain maps as its this, as its callers do.
Frame(this, d, m) == [this |-> this, class |-> d, name |-> m, rest |-> program[d].methods[m]]

LEMMA Invoked ==
    ASSUME HeapInv, NEW maps, NEW fs \in Seq(Running(program, maps)),
           NEW this, this # Module, NEW m \in MethodNames(program),
           LoadItem(this, m) # Empty => this \in maps,
           Invoke(fs, this, m)
    PROVE  \/ frames' = <<>> /\ LoadItem(this, m) = Empty
           \/ \E d \in Names :
                  /\ this \in maps /\ LoadItem(this, m) = <<"method", d>>
                  /\ Frame(this, d, m) \in Running(program, maps)
                  /\ frames' = Append(fs, Frame(this, d, m))
                  /\ frames' \in Seq(Running(program, maps))
<1> DEFINE R == Running(program, maps)
<1>0. fs \in Seq(R)
  OBVIOUS
<1>1. CASE LoadItem(this, m) = Empty
  <2>1. LoadItem(this, m)[1] # "method"
    BY <1>1 DEF Empty
  <2> QED BY <1>1, <2>1 DEF Invoke
<1>2. ASSUME NEW d \in Names, LoadItem(this, m) = <<"method", d>>, m \in DOMAIN program[d].methods
      PROVE  /\ this \in maps /\ Frame(this, d, m) \in R
             /\ frames' = Append(fs, Frame(this, d, m)) /\ frames' \in Seq(R)
  <2> DEFINE fr == Frame(this, d, m)
  <2>1. LoadItem(this, m) # Empty /\ LoadItem(this, m)[1] = "method" /\ LoadItem(this, m)[2] = d
    BY <1>2 DEF Empty
  <2>2. frames' = Append(fs, fr)
    BY <2>1 DEF Invoke, Frame
  <2>3. program[d].methods[m] \in Seq(MethodStatement)
    BY <1>2, ProgramsAssumption DEF HeapInv, ProgramsAssumption, MethodStatement
  <2>4. fr \in R
    BY <1>2, <2>1, <2>3 DEF Frame, Running, MethodStatement
  <2>5. Append(fs, fr) \in Seq(R)
    <3> HIDE DEF R, fr
    <3> QED BY <1>0, <2>4, AppendProperties
  <2> QED BY <2>1, <2>2, <2>4, <2>5
<1>3. \/ LoadItem(this, m) = Empty
      \/ \E d \in Names : LoadItem(this, m) = <<"method", d>> /\ m \in DOMAIN program[d].methods
  BY MethodsFound
<1> QED BY <1>1, <1>2, <1>3

-----------------------------------------------------------------------------
(* What a statement does to the maps.                                       *)

\* What is stored under a name leaves the prototypes and the other names alone.
LEMMA StoreKeeps ==
    ASSUME NEW o \in DOMAIN heap, DOMAIN heap[o] = {"items", "proto"}, NEW name, NEW value,
           heap' = Store(heap, o, name, value)
    PROVE  /\ DOMAIN heap' = DOMAIN heap
           /\ \A x \in DOMAIN heap : x # o => heap'[x] = heap[x]
           /\ DOMAIN heap'[o] = {"items", "proto"} /\ heap'[o].proto = heap[o].proto
           /\ DOMAIN heap'[o].items = DOMAIN heap[o].items \cup {name}
           /\ \A n \in DOMAIN heap[o].items : n # name => heap'[o].items[n] = heap[o].items[n]
<1> DEFINE items == [n \in DOMAIN heap[o].items \cup {name} |-> IF n = name THEN value ELSE heap[o].items[n]]
<1>1. heap' = [heap EXCEPT ![o] = [heap[o] EXCEPT !.items = items]]
  BY DEF Store
<1>2. /\ DOMAIN items = DOMAIN heap[o].items \cup {name}
      /\ \A n \in DOMAIN heap[o].items : n # name => items[n] = heap[o].items[n]
  OBVIOUS
<1> HIDE DEF items
<1>3. DOMAIN heap' = DOMAIN heap /\ (\A x \in DOMAIN heap : x # o => heap'[x] = heap[x])
  BY <1>1
<1>4. heap'[o] = [heap[o] EXCEPT !.items = items]
  BY <1>1
<1>5. heap'[o].items = items /\ heap'[o].proto = heap[o].proto /\ DOMAIN heap'[o] = {"items", "proto"}
  BY <1>4
<1> QED BY <1>2, <1>3, <1>5

\* The instance of a statement, and the classes that it inherits from.
LEMMA Involvement ==
    ASSUME HeapInv, NEW n \in 1..stmts, root = Object(n), root \in DOMAIN heap, NEW this \in Involved
    PROVE  /\ this \in DOMAIN heap \ {Module}
           /\ ClassOf(this) \in Ancestors(program, ClassOf(root)) /\ ClassOf(this) \in Names
           /\ this = root \/ this = Class(ClassOf(this))
           /\ heap[root].proto = Class(ClassOf(root)) /\ ClassOf(root) \in Names
<1>1. PICK c \in Names : heap[root].proto = Class(c)
  BY DEF HeapInv, ObjectInv
<1>2. ClassOf(root) = c
  BY <1>1, Places DEF ClassOf
<1>3. program \in Programs
  BY DEF HeapInv
<1>4. Ancestors(program, c) \subseteq Names /\ c \in Ancestors(program, c)
  BY <1>3, AncestorsEquation
<1>5. CASE this = root
  BY <1>1, <1>2, <1>4, <1>5, Places
<1>6. CASE this # root
  <2>1. PICK a \in Ancestors(program, c) : this = Class(a)
    BY <1>2, <1>6 DEF Involved, Family
  <2>2. ClassOf(this) = a
    BY <2>1, Places DEF ClassOf
  <2>3. Class(a) \in DOMAIN heap /\ Class(a) # Module
    BY <1>4, <2>1, Places DEF HeapInv
  <2> QED BY <1>1, <1>2, <1>4, <2>1, <2>2, <2>3
<1> QED BY <1>5, <1>6

\* super of a map that is involved is the map of a class that is, if it is one at all.
LEMMA SuperIsInvolved ==
    ASSUME HeapInv, NEW n \in 1..stmts, root = Object(n), root \in DOMAIN heap, NEW this \in Involved
    PROVE  /\ Super(this) = heap[Class(ClassOf(this))].proto
           /\ Super(this) # Module
           /\ Super(this) \in DOMAIN heap => Super(this) \in Family
<1> DEFINE a == ClassOf(this)
<1>1. /\ a \in Ancestors(program, ClassOf(root)) /\ a \in Names
      /\ this = root \/ this = Class(a)
      /\ heap[root].proto = Class(ClassOf(root)) /\ ClassOf(root) \in Names
  BY Involvement
<1>2. program \in Programs /\ Class(a) \in DOMAIN heap /\ Module \in DOMAIN heap
  BY <1>1 DEF HeapInv
<1>3. Super(this) = heap[Class(a)].proto
  <2>1. CASE this = root
    <3>1. "@is_instance" \in DOMAIN heap[root].items /\ heap[root].items["@is_instance"] # Empty
      BY DEF HeapInv, ObjectInv
    <3>2. LoadItem(root, "@is_instance") # Empty
      BY <3>1, Lookups
    <3> QED BY <1>1, <2>1, <3>2 DEF Super
  <2>2. CASE this = Class(a)
    <3>1. LoadItem(this, "@is_instance") = Empty
      BY <1>1, <2>2, ClassesAreUnmarked
    <3> QED BY <2>2, <3>1 DEF Super
  <2> HIDE DEF a
  <2> QED BY <1>1, <2>1, <2>2
<1> HIDE DEF a
<1>4. \/ Super(this) \notin DOMAIN heap
      \/ HasParent(a) /\ Parent(a) \in Names /\ Super(this) = Class(Parent(a))
  BY <1>1, <1>2, <1>3, Kinds, Places
<1>5. ASSUME HasParent(a), Parent(a) \in Names
      PROVE  Parent(a) \in Ancestors(program, ClassOf(root))
  <2>1. Parent(a) \in Ancestors(program, Parent(a))
    BY <1>2, <1>5, AncestorsEquation
  <2>2. Parent(a) \in Ancestors(program, a)
    BY <1>1, <1>2, <1>5, <2>1, AncestorsEquation
  <2> QED BY <1>1, <1>2, <2>2, AncestorsAreTransitive
<1>6. Super(this) # Module
  BY <1>2, <1>4, Places
<1>7. Super(this) \in DOMAIN heap => Super(this) \in Family
  BY <1>4, <1>5 DEF Family
<1> QED BY <1>3, <1>6, <1>7 DEF a

-----------------------------------------------------------------------------
(* The maps stay as they should be.                                         *)

\* Names of fields are neither those of methods nor those of what a class adds itself.
LEMMA NamesDiffer ==
    ASSUME program \in Programs
    PROVE  /\ \A f \in FieldNames(program) :
                  f \notin MethodNames(program) /\ f # "@alloc" /\ f # "@is_instance"
           /\ "@alloc" \notin MethodNames(program) /\ "@is_instance" \notin MethodNames(program)
           /\ \A c \in Names : /\ program[c].fields \subseteq FieldNames(program)
                               /\ DOMAIN program[c].methods \subseteq MethodNames(program)
<1>1. /\ FieldNames(program) \cap MethodNames(program) = {}
      /\ {"@alloc", "@is_instance"} \cap (FieldNames(program) \cup MethodNames(program)) = {}
  BY NamesAssumption DEF NamesAssumption
<1>2. \A c \in Names : program[c].fields \subseteq FieldNames(program)
  BY DEF FieldNames
<1>3. \A c \in Names : DOMAIN program[c].methods \subseteq MethodNames(program)
  BY DEF MethodNames
<1> QED BY <1>1, <1>2, <1>3

LEMMA InitHeap ==
    ASSUME Init
    PROVE  HeapInv
<1>1. ClassNames \in Seq(STRING)
  BY ProgramsAssumption DEF ProgramsAssumption
<1>2. Len(ClassNames) \in Nat
  BY <1>1, LenProperties
<1>3. /\ DOMAIN heap = {Class(c) : c \in Names} \cup {Module}
      /\ heap[Module] = [items |-> [n \in DOMAIN Library |-> Class(Library[n])], proto |-> None]
      /\ \A c \in Names : heap[Class(c)] = Map(None)
  BY Places DEF Init
<1>0. program \in Programs /\ built = 0 /\ stmts = 0
  BY DEF Init
<1>4. \A c : ~ IsBuilt(c)
  <2>1. 1..built = {}
    BY <1>0
  <2> QED BY <2>1 DEF IsBuilt
<1>5. \A c \in Names : "@is_instance" \notin DOMAIN heap[Class(c)].items
  BY <1>3 DEF Map
<1>6. \A c \in Names : Class(c) \in DOMAIN heap /\ ClassInv(c)
  BY <1>3, <1>4, <1>5 DEF ClassInv
<1>7. \A x \in DOMAIN heap : DOMAIN heap[x] = {"items", "proto"}
  BY <1>3 DEF Map
<1>8. heap[Module].proto = None /\ DOMAIN heap[Module].items = DOMAIN Library
  BY <1>3
<1>9. \A n : Object(n) \notin DOMAIN heap
  BY <1>3, Places
<1>10. program \in Programs /\ built \in 0..Len(ClassNames) /\ stmts \in Nat /\ ~ (stmts > 0)
  BY <1>0, <1>2
<1>11. /\ DOMAIN heap \subseteq {Module} \cup {Class(c) : c \in Names} \cup {Object(n) : n \in 1..stmts}
       /\ Module \in DOMAIN heap
  BY <1>3
<1> QED BY <1>6, <1>7, <1>8, <1>9, <1>10, <1>11 DEF HeapInv

\* A step that leaves the maps alone, and begins at most one statement.
LEMMA SameHeap ==
    ASSUME HeapInv, UNCHANGED <<program, heap, built>>,
           stmts' = stmts \/ (AllBuilt /\ stmts' = stmts + 1)
    PROVE  HeapInv'
<1>1. stmts \in Nat /\ stmts' \in Nat /\ 1..stmts \subseteq 1..stmts' /\ (stmts' > 0 => AllBuilt)
  BY DEF HeapInv
<1>2. \A c \in Names : ClassInv(c)'
  BY DEF HeapInv, ClassInv, IsBuilt, Prototype
<1>3. \A n \in 1..stmts' : Object(n) \in DOMAIN heap' => ObjectInv(n)'
  <2> SUFFICES ASSUME NEW n \in 1..stmts', Object(n) \in DOMAIN heap
               PROVE  ObjectInv(n)'
    OBVIOUS
  <2>1. n \in 1..stmts
    BY Places DEF HeapInv
  <2>2. ObjectInv(n)
    BY <2>1 DEF HeapInv
  <2> QED BY <2>2 DEF ObjectInv
<1>4. DOMAIN heap' \subseteq {Module} \cup {Class(c) : c \in Names} \cup {Object(n) : n \in 1..stmts'}
  BY <1>1 DEF HeapInv
<1>5. /\ program' \in Programs /\ built' \in 0..Len(ClassNames) /\ (stmts' > 0 => AllBuilt')
      /\ Module \in DOMAIN heap' /\ heap'[Module].proto = None
      /\ DOMAIN heap'[Module].items = DOMAIN Library
      /\ \A c \in Names : Class(c) \in DOMAIN heap'
      /\ \A x \in DOMAIN heap' : DOMAIN heap'[x] = {"items", "proto"}
  BY <1>1 DEF HeapInv, AllBuilt
<1> QED BY <1>1, <1>2, <1>3, <1>4, <1>5 DEF HeapInv

LEMMA BuildClass ==
    ASSUME HeapInv, generate_class
    PROVE  HeapInv' /\ ~ AllBuilt
<1>0. PICK c : c = ClassNames[built + 1]
  OBVIOUS
<1> DEFINE new == [items |-> Members(c), proto |-> Extended(program[c].extends)]
<1>1. ClassNames \in Seq(STRING) /\ Len(ClassNames) \in Nat /\ DOMAIN ClassNames = 1..Len(ClassNames)
  BY ProgramsAssumption, LenProperties DEF ProgramsAssumption
<1>2. /\ built \in Nat /\ built' = built + 1 /\ built < Len(ClassNames)
      /\ heap' = [heap EXCEPT ![Class(c)] = new] /\ program' = program /\ stmts' = stmts
  BY <1>0, <1>1 DEF generate_class, HeapInv
<1>3. ~ AllBuilt /\ stmts = 0 /\ built' \in 0..Len(ClassNames)
  <2>1. ~ AllBuilt /\ built' \in 0..Len(ClassNames)
    <3>1. PICK N \in Nat : N = Len(ClassNames)
      BY <1>1
    <3>2. built \in Nat /\ built < N /\ built' = built + 1
      BY <1>2, <3>1
    <3>3. built # N /\ built' \in 0..N
      BY <3>2
    <3> QED BY <3>1, <3>3 DEF AllBuilt
  <2>2. stmts \in Nat /\ (stmts > 0 => AllBuilt)
    BY DEF HeapInv
  <2> QED BY <2>1, <2>2
<1>4. c \in Names
  BY <1>0, <1>1, <1>2 DEF Names, ToSet
<1>5. \A d : IsBuilt(d)' <=> IsBuilt(d) \/ d = c
  <2>1. 1..built' = 1..built \cup {built + 1}
    BY <1>2
  <2> QED BY <1>0, <2>1 DEF IsBuilt
<1>6. /\ DOMAIN heap' = DOMAIN heap /\ heap'[Class(c)] = new
      /\ \A x \in DOMAIN heap : x # Class(c) => heap'[x] = heap[x]
  <2>1. Class(c) \in DOMAIN heap
    BY <1>4 DEF HeapInv
  <2> HIDE DEF new
  <2> QED BY <1>2, <2>1
<1>7. Extended(program[c].extends) = Prototype(c)
  <2>1. LoadItem(Module, "") = Empty
    <3>1. "" \notin DOMAIN heap[Module].items /\ Module \in DOMAIN heap /\ heap[Module].proto = None
      BY ProgramsAssumption DEF ProgramsAssumption, HeapInv
    <3>2. None \notin DOMAIN heap
      BY Places DEF HeapInv
    <3>3. LoadItem(None, "") = Empty
      BY <3>2, Lookups
    <3> QED BY <3>1, <3>3, Lookups
  <2> QED BY <2>1 DEF Extended, Prototype
<1>8. ClassInv(c)'
  <2>1. program \in Programs
    BY DEF HeapInv
  <2>2. /\ heap'[Class(c)].items = Members(c) /\ heap'[Class(c)].proto = Prototype(c)
    BY <1>6, <1>7
  <2>3. Prototype(c)' = Prototype(c)
    BY <1>2 DEF Prototype
  <2> HIDE DEF new
  <2>5. /\ program[c].fields \subseteq FieldNames(program)
        /\ DOMAIN program[c].methods \subseteq MethodNames(program)
    BY <1>4, <2>1, NamesDiffer
  <2> DEFINE own == DOMAIN program[c].methods
             all == program[c].fields \cup own \cup {"@alloc"}
             item(n) == CASE n = "@alloc" -> <<"alloc", c>>
                          [] n \in own -> <<"method", c>>
                          [] OTHER -> <<"default", 0>>
  <2>8. Members(c) = [n \in all |-> item(n)]
    BY DEF Members
  <2>9. item("@alloc") = <<"alloc", c>> /\ \A m \in own : m # "@alloc" => item(m) = <<"method", c>>
    <3>1. ASSUME NEW m \in own, m # "@alloc"
          PROVE  item(m) = <<"method", c>>
      BY <3>1
    <3>2. "@alloc" \notin own
      BY <2>1, <2>5, NamesDiffer
    <3>3. item("@alloc") = <<"alloc", c>>
      BY <3>2
    <3> QED BY <3>1, <3>3
  <2>4. /\ DOMAIN Members(c) = program[c].fields \cup DOMAIN program[c].methods \cup {"@alloc"}
        /\ Members(c)["@alloc"] = <<"alloc", c>>
        /\ \A m \in DOMAIN program[c].methods : m # "@alloc" => Members(c)[m] = <<"method", c>>
    <3>1. "@alloc" \in all /\ \A m \in own : m \in all
      OBVIOUS
    <3> HIDE DEF item
    <3> QED BY <2>8, <2>9, <3>1
  <2>6. "@is_instance" \notin DOMAIN Members(c)
    BY <2>1, <2>4, <2>5, NamesDiffer
  <2>7. \A m \in MethodNames(program) :
            IF m \in DOMAIN program[c].methods
            THEN m \in DOMAIN Members(c) /\ Members(c)[m] = <<"method", c>>
            ELSE m \notin DOMAIN Members(c)
    BY <2>1, <2>4, <2>5, NamesDiffer
  <2> QED BY <1>2, <1>5, <2>2, <2>3, <2>4, <2>6, <2>7 DEF ClassInv
<1>9. ASSUME NEW d \in Names, d # c
      PROVE  ClassInv(d)'
  <2>1. heap'[Class(d)] = heap[Class(d)]
    <3>1. Class(d) \in DOMAIN heap /\ Class(d) # Class(c)
      BY <1>9, Places DEF HeapInv
    <3> QED BY <1>6, <3>1
  <2>2. ClassInv(d) /\ (IsBuilt(d)' <=> IsBuilt(d)) /\ Prototype(d)' = Prototype(d)
    BY <1>2, <1>5, <1>9 DEF HeapInv, Prototype
  <2> HIDE DEF new
  <2> QED BY <1>2, <2>1, <2>2 DEF ClassInv
<1>10. \A x \in DOMAIN heap' : DOMAIN heap'[x] = {"items", "proto"}
  <2>1. DOMAIN new = {"items", "proto"}
    OBVIOUS
  <2>2. \A x \in DOMAIN heap : DOMAIN heap[x] = {"items", "proto"}
    BY DEF HeapInv
  <2> HIDE DEF new
  <2> QED BY <1>6, <2>1, <2>2
<1>11. Module \in DOMAIN heap' /\ heap'[Module] = heap[Module]
  BY <1>6, Places DEF HeapInv
<1>12. \A d \in Names : Class(d) \in DOMAIN heap' /\ ClassInv(d)'
  BY <1>6, <1>8, <1>9 DEF HeapInv
<1>13. \A n \in 1..stmts' : FALSE
  BY <1>2, <1>3
<1>14. DOMAIN heap' \subseteq {Module} \cup {Class(d) : d \in Names} \cup {Object(n) : n \in 1..stmts'}
  BY <1>2, <1>6 DEF HeapInv
<1>5a. program' \in Programs /\ stmts' \in Nat /\ ~ (stmts' > 0)
  BY <1>2, <1>3 DEF HeapInv
<1> HIDE DEF new
<1> QED BY <1>3, <1>10, <1>11, <1>12, <1>13, <1>14, <1>5a DEF HeapInv

\* The map that new makes is that of an instance of the class.
LEMMA NewInstance ==
    ASSUME HeapInv, NEW c \in Names, generate_new(c)
    PROVE  /\ AllBuilt /\ frames = <<>> /\ stmts' = stmts + 1 /\ program' = program /\ built' = built
           /\ root' = Object(stmts') /\ root' \notin DOMAIN heap
           /\ DOMAIN heap' = DOMAIN heap \cup {root'}
           /\ \A x \in DOMAIN heap : heap'[x] = heap[x]
           /\ heap'[root'] = Allocated(c)
<1>1. /\ AllBuilt /\ frames = <<>> /\ stmts' = stmts + 1 /\ program' = program /\ built' = built
      /\ root' = Object(stmts')
  BY DEF generate_new, Statement, AllBuilt
<1>2. LoadItem(Class(c), "@alloc") = <<"alloc", c>>
  <2>1. IsBuilt(c) /\ ClassInv(c) /\ Class(c) \in DOMAIN heap
    BY <1>1, EveryClassIsBuilt DEF HeapInv
  <2>2. "@alloc" \in DOMAIN heap[Class(c)].items /\ heap[Class(c)].items["@alloc"] = <<"alloc", c>>
    BY <2>1 DEF ClassInv
  <2> QED BY <2>1, <2>2, Lookups
<1>3. root' \notin DOMAIN heap
  <2>1. stmts \in Nat
    BY DEF HeapInv
  <2>2. stmts' \notin 1..stmts
    BY <1>1, <2>1
  <2> QED BY <1>1, <2>2, Places DEF HeapInv
<1>4. heap' = [x \in DOMAIN heap \cup {root'} |-> IF x = root' THEN Allocated(c) ELSE heap[x]]
  <2>1. LoadItem(Class(c), "@alloc")[2] = c
    BY <1>2
  <2> QED BY <1>1, <2>1 DEF generate_new
<1> QED BY <1>1, <1>3, <1>4

LEMMA NewHeap ==
    ASSUME HeapInv, NEW c \in Names, generate_new(c)
    PROVE  HeapInv'
<1>1. /\ AllBuilt /\ stmts' = stmts + 1 /\ program' = program /\ built' = built
      /\ root' = Object(stmts') /\ root' \notin DOMAIN heap
      /\ DOMAIN heap' = DOMAIN heap \cup {root'}
      /\ \A x \in DOMAIN heap : heap'[x] = heap[x]
      /\ heap'[root'] = Allocated(c)
  BY NewInstance
<1>2. /\ stmts \in Nat /\ stmts' \in Nat /\ stmts' \in 1..stmts' /\ 1..stmts \subseteq 1..stmts'
      /\ 1..stmts' = 1..stmts \cup {stmts'}
  BY <1>1 DEF HeapInv
<1>3. program' \in Programs /\ built' \in 0..Len(ClassNames) /\ AllBuilt'
  BY <1>1 DEF HeapInv, AllBuilt
<1>4. DOMAIN heap' \subseteq {Module} \cup {Class(d) : d \in Names} \cup {Object(n) : n \in 1..stmts'}
  BY <1>1, <1>2 DEF HeapInv
<1>5. Module \in DOMAIN heap' /\ heap'[Module].proto = None /\ DOMAIN heap'[Module].items = DOMAIN Library
  BY <1>1 DEF HeapInv
<1>6. ASSUME NEW d \in Names
      PROVE  Class(d) \in DOMAIN heap' /\ ClassInv(d)'
  <2>1. Class(d) \in DOMAIN heap /\ ClassInv(d) /\ heap'[Class(d)] = heap[Class(d)]
    BY <1>1 DEF HeapInv
  <2>2. (IsBuilt(d)' <=> IsBuilt(d)) /\ Prototype(d)' = Prototype(d)
    BY <1>1 DEF IsBuilt, Prototype
  <2> QED BY <1>1, <2>1, <2>2 DEF ClassInv
<1>7. /\ DOMAIN heap'[root'] = {"items", "proto"} /\ heap'[root'].proto = Class(c)
      /\ DOMAIN heap'[root'].items = {"@is_instance"} /\ heap'[root'].items["@is_instance"] # Empty
  BY <1>1 DEF Allocated, Empty
<1>8. ASSUME NEW n \in 1..stmts', Object(n) \in DOMAIN heap'
      PROVE  ObjectInv(n)'
  <2>1. CASE Object(n) \in DOMAIN heap
    <3>1. n \in 1..stmts /\ heap'[Object(n)] = heap[Object(n)]
      BY <1>1, <1>2, <2>1
    <3>2. ObjectInv(n)
      BY <2>1, <3>1 DEF HeapInv
    <3> QED BY <1>1, <3>1, <3>2 DEF ObjectInv
  <2>2. CASE Object(n) = root'
    <3>1. "@is_instance" \notin MethodNames(program')
      BY <1>3, NamesAssumption DEF NamesAssumption
    <3> QED BY <1>7, <2>2, <3>1 DEF ObjectInv
  <2> QED BY <1>1, <1>8, <2>1, <2>2
<1>9. \A x \in DOMAIN heap' : DOMAIN heap'[x] = {"items", "proto"}
  BY <1>1, <1>7 DEF HeapInv
<1> QED BY <1>2, <1>3, <1>4, <1>5, <1>6, <1>8, <1>9 DEF HeapInv

\* What SetField changes: an item of the instance or of one of its classes.
LEMMA FieldIsSet ==
    ASSUME HeapInv, RunInv, SetField
    PROVE  /\ frames # <<>> /\ Top \in Running(program, Involved) /\ Top.this \in DOMAIN heap \ {Module}
           /\ frames' = Callers /\ Callers \in Seq(Running(program, Involved))
           /\ UNCHANGED <<program, built, stmts, root, reached, failed>>
           /\ \E f \in FieldNames(program) :
                  heap' = Store(heap, Top.this, f, <<"of", root>>)
<1>1. /\ frames # <<>> /\ Top.rest # <<>> /\ Head(Top.rest)[1] = "set" /\ frames' = Callers
      /\ UNCHANGED <<program, built, stmts, root, reached, failed>>
      /\ heap' = Store(heap, Top.this, Head(Top.rest)[2], <<"of", root>>)
  BY DEF SetField, Does
<1>2. Top \in Running(program, Involved) /\ Callers \in Seq(Running(program, Involved))
  BY <1>1, RunningMethods
<1>3. Top.this \in Involved
  BY <1>2 DEF Running
<1>4. Top.this \in DOMAIN heap \ {Module}
  BY <1>1, <1>3, Involvement DEF RunInv
<1>5. Head(Top.rest)[2] \in FieldNames(program)
  BY <1>1, NextName
<1> QED BY <1>1, <1>2, <1>4, <1>5

LEMMA SetHeap ==
    ASSUME HeapInv, RunInv, SetField
    PROVE  HeapInv' /\ Involved' = Involved /\ \A x \in DOMAIN heap : ClassOf(x)' = ClassOf(x)
<1>1. /\ UNCHANGED <<program, built, stmts, root>> /\ AllBuilt /\ root \in DOMAIN heap
  BY FieldIsSet DEF RunInv
<1>2. PICK o \in DOMAIN heap \ {Module}, f \in FieldNames(program) :
          heap' = Store(heap, o, f, <<"of", root>>)
  BY FieldIsSet
<1>3. /\ DOMAIN heap' = DOMAIN heap
      /\ \A x \in DOMAIN heap : x # o => heap'[x] = heap[x]
      /\ DOMAIN heap'[o] = {"items", "proto"} /\ heap'[o].proto = heap[o].proto
      /\ DOMAIN heap'[o].items = DOMAIN heap[o].items \cup {f}
      /\ \A n \in DOMAIN heap[o].items : n # f => heap'[o].items[n] = heap[o].items[n]
  <2>1. DOMAIN heap[o] = {"items", "proto"}
    BY <1>2 DEF HeapInv
  <2> QED BY <1>2, <2>1, StoreKeeps
<1>4. f \notin MethodNames(program) /\ f # "@alloc" /\ f # "@is_instance"
  BY NamesDiffer DEF HeapInv
<1> DEFINE Others == MethodNames(program) \cup {"@alloc", "@is_instance"}
<1>5. \A x \in DOMAIN heap :
          /\ heap'[x].proto = heap[x].proto
          /\ \A n \in Others :
                 /\ (n \in DOMAIN heap'[x].items) <=> (n \in DOMAIN heap[x].items)
                 /\ (n \in DOMAIN heap[x].items) => heap'[x].items[n] = heap[x].items[n]
  <2>1. \A n \in Others : n # f
    BY <1>4
  <2> HIDE DEF Others
  <2>2. ASSUME NEW n \in Others
        PROVE  /\ (n \in DOMAIN heap'[o].items) <=> (n \in DOMAIN heap[o].items)
               /\ (n \in DOMAIN heap[o].items) => heap'[o].items[n] = heap[o].items[n]
    BY <1>3, <2>1
  <2> QED BY <1>3, <2>2
<1>5a. /\ "@alloc" \in Others /\ "@is_instance" \in Others
       /\ \A m \in MethodNames(program) : m \in Others
  OBVIOUS
<1> HIDE DEF Others
<1>6. ASSUME NEW c \in Names
      PROVE  Class(c) \in DOMAIN heap' /\ ClassInv(c)'
  <2>1. Class(c) \in DOMAIN heap /\ ClassInv(c) /\ IsBuilt(c)
    BY <1>1, EveryClassIsBuilt DEF HeapInv
  <2>2. IsBuilt(c)' /\ Prototype(c)' = Prototype(c)
    BY <1>1, <2>1 DEF IsBuilt, Prototype
  <2>3. heap'[Class(c)].proto = Prototype(c)
    BY <1>5, <2>1 DEF ClassInv
  <2>4. "@is_instance" \notin DOMAIN heap'[Class(c)].items
    BY <1>5, <1>5a, <2>1 DEF ClassInv
  <2>5. "@alloc" \in DOMAIN heap'[Class(c)].items /\ heap'[Class(c)].items["@alloc"] = <<"alloc", c>>
    BY <1>5, <1>5a, <2>1 DEF ClassInv
  <2>6. \A m \in MethodNames(program) :
            IF m \in DOMAIN program[c].methods
            THEN m \in DOMAIN heap'[Class(c)].items /\ heap'[Class(c)].items[m] = <<"method", c>>
            ELSE m \notin DOMAIN heap'[Class(c)].items
    BY <1>5, <1>5a, <2>1 DEF ClassInv
  <2> QED BY <1>1, <1>3, <2>1, <2>2, <2>3, <2>4, <2>5, <2>6 DEF ClassInv
<1>7. ASSUME NEW n \in 1..stmts', Object(n) \in DOMAIN heap'
      PROVE  ObjectInv(n)'
  <2>1. Object(n) \in DOMAIN heap /\ n \in 1..stmts
    BY <1>1, <1>3, <1>7
  <2>2. ObjectInv(n)
    BY <2>1 DEF HeapInv
  <2>3. \E c \in Names : heap'[Object(n)].proto = Class(c)
    BY <1>5, <2>1, <2>2 DEF ObjectInv
  <2>4. "@is_instance" \in DOMAIN heap'[Object(n)].items /\ heap'[Object(n)].items["@is_instance"] # Empty
    BY <1>5, <1>5a, <2>1, <2>2 DEF ObjectInv
  <2>5. \A m \in MethodNames(program) : m \notin DOMAIN heap'[Object(n)].items
    BY <1>5, <1>5a, <2>1, <2>2 DEF ObjectInv
  <2> QED BY <1>1, <2>3, <2>4, <2>5 DEF ObjectInv
<1>8. /\ program' \in Programs /\ built' \in 0..Len(ClassNames) /\ stmts' \in Nat /\ AllBuilt'
      /\ DOMAIN heap' \subseteq {Module} \cup {Class(d) : d \in Names} \cup {Object(n) : n \in 1..stmts'}
      /\ Module \in DOMAIN heap'
  BY <1>1, <1>3 DEF HeapInv, AllBuilt
<1>9. heap'[Module].proto = None /\ DOMAIN heap'[Module].items = DOMAIN Library
  BY <1>2, <1>3 DEF HeapInv
<1>10. \A x \in DOMAIN heap' : DOMAIN heap'[x] = {"items", "proto"}
  BY <1>3 DEF HeapInv
<1>11. HeapInv'
  BY <1>6, <1>7, <1>8, <1>9, <1>10 DEF HeapInv
<1>12. \A x \in DOMAIN heap : ClassOf(x)' = ClassOf(x)
  BY <1>5 DEF ClassOf
<1>13. ClassOf(root)' = ClassOf(root)
  BY <1>1, <1>12 DEF ClassOf
<1>14. Involved' = Involved
  BY <1>1, <1>13 DEF Involved, Family
<1> QED BY <1>11, <1>12, <1>14

-----------------------------------------------------------------------------
(* The methods that run are called as they should be.                       *)

\* A statement that a method has begun leaves its callers and what it is alone.
LEMMA CallersAreKept ==
    ASSUME HeapInv, RunInv, frames # <<>>, Top.rest # <<>>
    PROVE  /\ Len(Callers) = Len(frames)
           /\ \A i \in 1..Len(frames) : /\ Callers[i].this = frames[i].this
                                        /\ Callers[i].class = frames[i].class
                                        /\ Callers[i].name = frames[i].name
<1> DEFINE R == Running(program, Involved)
           t == [Top EXCEPT !.rest = Tail(@)]
<1>1. frames \in Seq(R) /\ t \in R /\ Top = frames[Len(frames)] /\ Top \in R
  BY RunningMethods DEF RunInv
<1>2. t.this = Top.this /\ t.class = Top.class /\ t.name = Top.name
  BY <1>1 DEF Running
<1> HIDE DEF R
<1>3. /\ Front(frames) \in Seq(R) /\ Len(Front(frames)) = Len(frames) - 1 /\ Len(frames) \in Nat \ {0}
      /\ \A i \in 1..(Len(frames) - 1) : Front(frames)[i] = frames[i]
  BY <1>1, FrontProperties
<1>4. Callers = Append(Front(frames), t)
  BY DEF Callers
<1> HIDE DEF t
<1>5. /\ Len(Callers) = Len(Front(frames)) + 1
      /\ \A i \in 1..Len(Front(frames)) : Callers[i] = Front(frames)[i]
      /\ Callers[Len(Front(frames)) + 1] = t
  BY <1>1, <1>3, <1>4, AppendProperties
<1>6. PICK N \in Nat \ {0} : N = Len(frames)
  BY <1>3
<1>7. Len(Front(frames)) = N - 1 /\ N - 1 + 1 = N /\ \A i \in 1..N : i = N \/ i \in 1..(N - 1)
  BY <1>3, <1>6
<1>8. ASSUME NEW i \in 1..N, i # N
      PROVE  Callers[i] = frames[i]
  BY <1>3, <1>5, <1>6, <1>7, <1>8
<1>9. Callers[N] = t
  BY <1>5, <1>7
<1> QED BY <1>1, <1>2, <1>5, <1>6, <1>7, <1>8, <1>9

\* What is called by a method is a method of a map that is involved.
LEMMA MethodCalls ==
    ASSUME HeapInv, RunInv, CallThis \/ CallSuper
    PROVE  /\ UNCHANGED <<program, heap, built, stmts, root>> /\ frames # <<>> /\ Top.rest # <<>>
           /\ \/ frames' = <<>>
              \/ \E this \in Involved, m \in MethodNames(program), d \in Names :
                     /\ LoadItem(this, m) = <<"method", d>>
                     /\ Frame(this, d, m) \in Running(program, Involved)
                     /\ frames' = Append(Callers, Frame(this, d, m))
                     /\ frames' \in Seq(Running(program, Involved))
<1>1. /\ UNCHANGED <<program, heap, built, stmts, root>> /\ frames # <<>> /\ Top.rest # <<>>
      /\ Head(Top.rest)[1] # "set"
  BY DEF CallThis, CallSuper, Does
<1>2. Top.this \in Involved /\ Callers \in Seq(Running(program, Involved))
  BY <1>1, RunningMethods DEF Running
<1> DEFINE m == Head(Top.rest)[2]
<1>3. m \in MethodNames(program)
  BY <1>1, NextName
<1>4. PICK n \in 1..stmts : root = Object(n) /\ root \in DOMAIN heap
  BY <1>1 DEF RunInv
<1>5. \E this : /\ Invoke(Callers, this, m) /\ this # Module
                /\ LoadItem(this, m) # Empty => this \in Involved
  <2>1. CASE CallThis
    <3>1. Invoke(Callers, Top.this, m)
      BY <2>1 DEF CallThis
    <3>2. Top.this # Module
      BY <1>2, <1>4, Involvement
    <3> QED BY <1>2, <3>1, <3>2
  <2>2. CASE CallSuper
    <3>1. Invoke(Callers, Super(Top.this), m)
      BY <2>2 DEF CallSuper
    <3>2. Super(Top.this) # Module /\ (Super(Top.this) \in DOMAIN heap => Super(Top.this) \in Involved)
      BY <1>2, <1>4, SuperIsInvolved DEF Involved
    <3>3. LoadItem(Super(Top.this), m) # Empty => Super(Top.this) \in DOMAIN heap
      BY Lookups
    <3> QED BY <3>1, <3>2, <3>3
  <2> QED BY <2>1, <2>2
<1>6. PICK this : Invoke(Callers, this, m) /\ this # Module /\ (LoadItem(this, m) # Empty => this \in Involved)
  BY <1>5
<1> HIDE DEF m
<1>7. \/ frames' = <<>>
      \/ \E d \in Names : /\ this \in Involved /\ LoadItem(this, m) = <<"method", d>>
                          /\ Frame(this, d, m) \in Running(program, Involved)
                          /\ frames' = Append(Callers, Frame(this, d, m))
                          /\ frames' \in Seq(Running(program, Involved))
  BY <1>2, <1>3, <1>6, Invoked
<1> QED BY <1>1, <1>3, <1>7

\* What the main program calls is a method of the class of an instance.
LEMMA MainCalls ==
    ASSUME HeapInv,
           \/ \E c \in Names : generate_new(c)
           \/ \E n \in 1..stmts : Object(n) \in DOMAIN heap /\ CallMethod(Object(n), "m")
    PROVE  /\ AllBuilt /\ UNCHANGED <<program, built>> /\ frames = <<>>
           /\ root' \in DOMAIN heap' /\ \E n \in 1..stmts' : root' = Object(n)
           /\ \/ frames' = <<>>
              \/ \E c \in Names, m \in MethodNames(program), d \in Names :
                     /\ heap'[root'].proto = Class(c) /\ LoadItem(Class(c), m) = <<"method", d>>
                     /\ Frame(root', d, m) \in Running(program, {root'})
                     /\ frames' = <<Frame(root', d, m)>>
<1>1. "m" \in MethodNames(program) /\ "new" \in MethodNames(program)
  BY DEF MethodNames
<1>2. ASSUME NEW c \in Names, generate_new(c)
      PROVE  /\ AllBuilt /\ UNCHANGED <<program, built>> /\ frames = <<>>
             /\ root' \in DOMAIN heap' /\ \E n \in 1..stmts' : root' = Object(n)
             /\ \/ frames' = <<>>
                \/ \E d \in Names :
                       /\ heap'[root'].proto = Class(c) /\ LoadItem(Class(c), "new") = <<"method", d>>
                       /\ Frame(root', d, "new") \in Running(program, {root'})
                       /\ frames' = <<Frame(root', d, "new")>>
  <2>1. /\ AllBuilt /\ UNCHANGED <<program, built>> /\ frames = <<>>
        /\ root' = Object(stmts') /\ root' \in DOMAIN heap' /\ stmts' = stmts + 1
        /\ heap'[root'] = Allocated(c)
    BY <1>2, NewInstance
  <2>2. stmts' \in 1..stmts'
    BY <2>1 DEF HeapInv
  <2>3. heap'[root'].proto = Class(c)
    BY <2>1 DEF Allocated
  <2> DEFINE init == LoadItem(Class(c), "new")
  <2>4. frames' = IF init = Empty THEN <<>> ELSE <<Frame(root', init[2], "new")>>
    BY <1>2, <2>1 DEF generate_new, Frame
  <2>5. CASE init = Empty
    BY <2>1, <2>2, <2>4, <2>5
  <2>6. CASE init # Empty
    <3>1. Class(c) # Module
      BY Places
    <3>2. PICK d \in Names : init = <<"method", d>> /\ "new" \in DOMAIN program[d].methods
      BY <1>1, <2>6, <3>1, MethodsFound
    <3>3. program[d].methods["new"] \in Seq(MethodStatement)
      BY <3>2, ProgramsAssumption DEF HeapInv, ProgramsAssumption, MethodStatement
    <3>4. Frame(root', d, "new") \in Running(program, {root'})
      BY <1>1, <3>2, <3>3 DEF Frame, Running, MethodStatement
    <3>5. frames' = <<Frame(root', d, "new")>>
      BY <2>4, <2>6, <3>2
    <3> QED BY <2>1, <2>2, <2>3, <3>2, <3>4, <3>5
  <2> QED BY <2>5, <2>6
<1>3. ASSUME NEW n \in 1..stmts, Object(n) \in DOMAIN heap, CallMethod(Object(n), "m")
      PROVE  /\ AllBuilt /\ UNCHANGED <<program, built>> /\ frames = <<>>
             /\ root' \in DOMAIN heap' /\ \E k \in 1..stmts' : root' = Object(k)
             /\ \/ frames' = <<>>
                \/ \E c \in Names, d \in Names :
                       /\ heap'[root'].proto = Class(c) /\ LoadItem(Class(c), "m") = <<"method", d>>
                       /\ Frame(root', d, "m") \in Running(program, {root'})
                       /\ frames' = <<Frame(root', d, "m")>>
  <2>1. /\ AllBuilt /\ UNCHANGED <<program, built, heap>> /\ frames = <<>> /\ stmts' = stmts + 1
        /\ root' = Object(n) /\ Invoke(<<>>, root', "m")
    BY <1>3 DEF CallMethod, Statement, AllBuilt
  <2>2. n \in 1..stmts'
    BY <2>1 DEF HeapInv
  <2>3. PICK c \in Names : heap[Object(n)].proto = Class(c)
    BY <1>3 DEF HeapInv, ObjectInv
  <2>4. LoadItem(root', "m") = LoadItem(Class(c), "m")
    <3>1. "m" \notin DOMAIN heap[Object(n)].items
      BY <1>1, <1>3 DEF HeapInv, ObjectInv
    <3> QED BY <1>3, <2>1, <2>3, <3>1, Lookups
  <2> DEFINE fs == <<>>
  <2>5. fs \in Seq(Running(program, {root'})) /\ root' # Module /\ root' \in {root'}
    BY <2>1, Places
  <2>6. \/ frames' = <<>>
        \/ \E d \in Names : /\ LoadItem(root', "m") = <<"method", d>>
                            /\ Frame(root', d, "m") \in Running(program, {root'})
                            /\ frames' = Append(fs, Frame(root', d, "m"))
    <3>1. Invoke(fs, root', "m")
      BY <2>1
    <3> HIDE DEF fs
    <3> QED BY <1>1, <2>5, <3>1, Invoked
  <2>7. \A fr : Append(fs, fr) = <<fr>>
    OBVIOUS
  <2> QED BY <1>3, <2>1, <2>2, <2>3, <2>4, <2>6, <2>7
<1> QED BY <1>1, <1>2, <1>3

LEMMA ReturnedFrames ==
    ASSUME HeapInv, RunInv, Return
    PROVE  /\ UNCHANGED <<program, heap, built, stmts, root>> /\ frames # <<>>
           /\ frames' \in Seq(Running(program, Involved))
           /\ Len(frames') \in Nat /\ Len(frames) \in Nat /\ Len(frames') < Len(frames)
           /\ \A i \in 1..Len(frames') : frames'[i] = frames[i]
<1> DEFINE R == Running(program, Involved)
<1>1. /\ UNCHANGED <<program, heap, built, stmts, root>> /\ frames # <<>> /\ frames' = Front(frames)
      /\ frames \in Seq(R)
  BY DEF Return, RunInv
<1> HIDE DEF R
<1>2. /\ frames' \in Seq(R) /\ Len(frames') = Len(frames) - 1 /\ Len(frames) \in Nat \ {0}
      /\ \A i \in 1..(Len(frames) - 1) : frames'[i] = frames[i]
  BY <1>1, FrontProperties
<1>3. Len(frames') \in Nat /\ Len(frames) \in Nat /\ Len(frames') < Len(frames)
  BY <1>2
<1> QED BY <1>1, <1>2, <1>3 DEF R

\* The kinds of steps.
LEMMA Steps ==
    ASSUME [Next]_vars
    PROVE  \/ generate_class \/ SetField \/ CallThis \/ CallSuper \/ Return
           \/ (\E c \in Names : generate_new(c))
           \/ (\E n \in 1..stmts : Object(n) \in DOMAIN heap /\ CallMethod(Object(n), "m"))
           \/ UNCHANGED vars
BY DEF Next, Step

LEMMA HeapStep ==
    ASSUME HeapInv, RunInv, [Next]_vars
    PROVE  HeapInv'
<1>1. CASE generate_class
  BY <1>1, BuildClass
<1>2. CASE SetField
  BY <1>2, SetHeap
<1>3. CASE CallThis \/ CallSuper
  BY <1>3, MethodCalls, SameHeap
<1>4. CASE Return
  BY <1>4, ReturnedFrames, SameHeap
<1>5. CASE \E c \in Names : generate_new(c)
  BY <1>5, NewHeap
<1>6. CASE \E n \in 1..stmts : Object(n) \in DOMAIN heap /\ CallMethod(Object(n), "m")
  <2>1. /\ UNCHANGED <<program, heap, built>> /\ AllBuilt /\ stmts' = stmts + 1
    BY <1>6 DEF CallMethod, Statement, AllBuilt
  <2> QED BY <2>1, SameHeap
<1>7. CASE UNCHANGED vars
  BY <1>7, SameHeap DEF vars
<1> QED BY <1>1, <1>2, <1>3, <1>4, <1>5, <1>6, <1>7, Steps

\* The family of the instance stays the same while the maps do.
LEMMA SameFamily ==
    ASSUME UNCHANGED <<program, heap, root>>
    PROVE  Involved' = Involved /\ \A x : ClassOf(x)' = ClassOf(x)
BY DEF Involved, Family, ClassOf

LEMMA RunStep ==
    ASSUME HeapInv, RunInv, [Next]_vars
    PROVE  RunInv'
<1>1. CASE generate_class
  <2>1. frames' = frames /\ ~ AllBuilt
    BY <1>1, BuildClass DEF generate_class
  <2> QED BY <2>1 DEF RunInv
<1>2. CASE SetField
  <2>1. /\ frames # <<>> /\ frames' \in Seq(Running(program', Involved'))
        /\ UNCHANGED <<built, stmts, root>>
    BY <1>2, FieldIsSet, SetHeap
  <2>2. DOMAIN heap' = DOMAIN heap
    <3>1. PICK o, f, value : heap' = Store(heap, o, f, value)
      BY <1>2 DEF SetField
    <3> QED BY <3>1 DEF Store
  <2> QED BY <2>1, <2>2 DEF RunInv, AllBuilt
<1>3. CASE CallThis \/ CallSuper
  <2>1. /\ UNCHANGED <<program, heap, built, stmts, root>> /\ frames # <<>>
        /\ frames' = <<>> \/ frames' \in Seq(Running(program, Involved))
    BY <1>3, MethodCalls
  <2>2. Involved' = Involved
    BY <2>1, SameFamily
  <2> QED BY <2>1, <2>2 DEF RunInv, AllBuilt
<1>4. CASE Return
  <2>1. /\ UNCHANGED <<program, heap, built, stmts, root>> /\ frames # <<>>
        /\ frames' \in Seq(Running(program, Involved))
    BY <1>4, ReturnedFrames
  <2>2. Involved' = Involved
    BY <2>1, SameFamily
  <2> QED BY <2>1, <2>2 DEF RunInv, AllBuilt
<1>5. CASE \/ \E c \in Names : generate_new(c)
           \/ \E n \in 1..stmts : Object(n) \in DOMAIN heap /\ CallMethod(Object(n), "m")
  <2>1. /\ AllBuilt' /\ root' \in DOMAIN heap' /\ \E n \in 1..stmts' : root' = Object(n)
        /\ \/ frames' = <<>>
           \/ \E fr \in Running(program', {root'}) : frames' = <<fr>>
    BY <1>5, MainCalls DEF AllBuilt
  <2>2. Running(program', {root'}) \subseteq Running(program', Involved')
    BY DEF Running, Involved
  <2> DEFINE R == Running(program', Involved')
  <2>3. frames' = <<>> \/ \E fr \in R : frames' = <<fr>>
    BY <2>1, <2>2
  <2>4. \A fr \in R : <<fr>> \in Seq(R)
    <3> HIDE DEF R
    <3> QED OBVIOUS
  <2> HIDE DEF R
  <2>5. frames' # <<>> => frames' \in Seq(R)
    BY <2>3, <2>4
  <2> QED BY <2>1, <2>5 DEF RunInv, R
<1>6. CASE UNCHANGED vars
  <2>1. UNCHANGED <<program, heap, built, stmts, root, frames>>
    BY <1>6 DEF vars
  <2>2. Involved' = Involved
    BY <2>1, SameFamily
  <2> QED BY <2>1, <2>2 DEF RunInv, AllBuilt
<1> QED BY <1>1, <1>2, <1>3, <1>4, <1>5, <1>6, Steps

LEMMA MapsAreInvariant == Spec => [](HeapInv /\ RunInv)
<1>1. Init => HeapInv /\ RunInv
  <2>1. Init => RunInv
    BY DEF Init, RunInv
  <2> QED BY <2>1, InitHeap
<1>2. (HeapInv /\ RunInv) /\ [Next]_vars => (HeapInv /\ RunInv)'
  BY HeapStep, RunStep
<1> QED BY <1>1, <1>2, PTL DEF Spec

-----------------------------------------------------------------------------
(* The properties.                                                          *)

\* Once all classes are built, what a statement changes in a map that was there is an
\* item of the instance that it is about, or of a class that the instance inherits from
\* and that is the this of a running method: SETREFMAP stores into the map that it is
\* given and never along its prototypes, and generate_super leaves only such a class as
\* this.  Paths into other modules and inherited methods that use super are included.
THEOREM WritesStayInFamilyHolds == Spec => WritesStayInFamily
<1> DEFINE Stays == built = Len(ClassNames) =>
                        \A o \in DOMAIN heap \ {root} : heap'[o] # heap[o] =>
                            o \in Family /\ \E i \in DOMAIN frames : frames[i].this = o
<1>1. ASSUME HeapInv, RunInv, [Next]_vars
      PROVE  Stays
  <2>1. CASE generate_class
    BY <2>1 DEF generate_class
  <2>2. CASE SetField
    <3>1. frames # <<>> /\ Top \in Running(program, Involved) /\ Top.this \in DOMAIN heap
      BY <1>1, <2>2, FieldIsSet
    <3>2. \A o \in DOMAIN heap : o # Top.this => heap'[o] = heap[o]
      <4>1. PICK f, value : heap' = Store(heap, Top.this, f, value)
        BY <2>2 DEF SetField
      <4> QED BY <4>1 DEF Store
    <3>3. Top.this = root \/ Top.this \in Family
      BY <3>1 DEF Running, Involved
    <3>4. Len(frames) \in DOMAIN frames /\ frames[Len(frames)].this = Top.this
      <4>1. frames \in Seq(Running(program, Involved)) /\ Top = frames[Len(frames)] /\ Len(frames) \in Nat \ {0}
        BY <1>1, <3>1, RunningMethods DEF RunInv
      <4>2. DOMAIN frames = 1..Len(frames)
        BY <4>1, LenProperties
      <4> QED BY <4>1, <4>2
    <3> QED BY <3>2, <3>3, <3>4
  <2>3. CASE CallThis \/ CallSuper \/ Return \/ UNCHANGED vars
    <3>1. heap' = heap
      BY <2>3 DEF CallThis, CallSuper, Return, vars
    <3> QED BY <3>1
  <2>4. CASE \E c \in Names : generate_new(c)
    BY <1>1, <2>4, NewInstance
  <2>5. CASE \E n \in 1..stmts : Object(n) \in DOMAIN heap /\ CallMethod(Object(n), "m")
    BY <2>5 DEF CallMethod
  <2> QED BY <1>1, <2>1, <2>2, <2>3, <2>4, <2>5, Steps
<1>2. HeapInv /\ RunInv /\ [Next]_vars => [Stays]_vars
  BY <1>1
<1> QED BY <1>2, MapsAreInvariant, PTL DEF Spec, WritesStayInFamily

\* Once all classes are built, every class and every instance finds under the name of a
\* method what its class wrote or inherits, whatever was stored into fields.
\* generate_class stores methods, fields and allocator into the map of the class only,
\* and generate_extends links the map to that of the class it names.
THEOREM InstancesHaveTheirMethodsHolds == Spec => []InstancesHaveTheirMethods
<1>1. HeapInv => InstancesHaveTheirMethods
  BY LookupsAreDefined DEF InstancesHaveTheirMethods, AllBuilt
<1> QED BY <1>1, MapsAreInvariant, PTL

\* What an instance finds is what its class finds.
LEMMA FramesStep ==
    ASSUME HeapInv, RunInv, FramesAreDefined, [Next]_vars
    PROVE  FramesAreDefined'
<1>0. program \in Programs
  BY DEF HeapInv
<1>7. program' = program
  BY Steps
  DEF generate_class, SetField, CallThis, CallSuper, Return, Does, generate_new, CallMethod, Statement, vars
<1> SUFFICES ASSUME ExtendsByName(program)
             PROVE  FramesAreDefined'
  BY <1>7 DEF FramesAreDefined
<1>1. CASE generate_class
  <2>1. frames' = frames /\ frames = <<>>
    BY <1>1, BuildClass DEF generate_class, RunInv
  <2> QED BY <2>1 DEF FramesAreDefined
<1>2. CASE SetField
  <2>1. /\ frames # <<>> /\ Top.rest # <<>> /\ frames' = Callers /\ program' = program
        /\ root' = root
    BY <1>2 DEF SetField, Does
  <2>2. \A x \in DOMAIN heap : ClassOf(x)' = ClassOf(x)
    BY <1>2, SetHeap
  <2>3. ASSUME NEW i \in 1..Len(frames)
        PROVE  /\ frames'[i].this \in DOMAIN heap
               /\ Definer(program, ClassOf(frames'[i].this), frames'[i].name) = <<"method", frames'[i].class>>
    <3>1. frames \in Seq(Running(program, Involved)) /\ \E n \in 1..stmts : root = Object(n)
      BY <2>1 DEF RunInv
    <3>2. frames[i] \in Running(program, Involved)
      BY <3>1, ElementOfSeq
    <3>3. frames[i].this \in DOMAIN heap
      BY <2>1, <3>1, <3>2, Involvement DEF RunInv, Running
    <3>4. /\ Callers[i].this = frames[i].this /\ Callers[i].class = frames[i].class
          /\ Callers[i].name = frames[i].name
      BY <2>1, CallersAreKept
    <3> QED BY <2>1, <3>3, <3>4 DEF FramesAreDefined
  <2>4. Len(frames') = Len(frames)
    BY <2>1, CallersAreKept
  <2> QED BY <2>1, <2>2, <2>3, <2>4 DEF FramesAreDefined
<1>3. CASE CallThis \/ CallSuper
  <2>1. /\ UNCHANGED <<program, heap, built, stmts, root>> /\ frames # <<>> /\ Top.rest # <<>>
        /\ \/ frames' = <<>>
           \/ \E this \in Involved, m \in MethodNames(program), d \in Names :
                  /\ LoadItem(this, m) = <<"method", d>>
                  /\ Frame(this, d, m) \in Running(program, Involved)
                  /\ frames' = Append(Callers, Frame(this, d, m))
                  /\ frames' \in Seq(Running(program, Involved))
    BY <1>3, MethodCalls
  <2>2. CASE frames' = <<>>
    BY <2>2 DEF FramesAreDefined
  <2>3. CASE frames' # <<>>
    <3>1. PICK this \in Involved, m \in MethodNames(program), d \in Names :
              LoadItem(this, m) = <<"method", d>> /\ frames' = Append(Callers, Frame(this, d, m))
              /\ Frame(this, d, m) \in Running(program, Involved)
      BY <2>1, <2>3
    <3>2. Definer(program, ClassOf(this), m) = <<"method", d>>
      <4>1. this \in DOMAIN heap \ {Module} /\ AllBuilt
        BY <2>1, Involvement DEF RunInv
      <4> QED BY <3>1, <4>1, LookupsAreDefined
    <3>3. /\ Len(Callers) = Len(frames)
          /\ \A i \in 1..Len(frames) : /\ Callers[i].this = frames[i].this
                                       /\ Callers[i].class = frames[i].class
                                       /\ Callers[i].name = frames[i].name
      BY <2>1, CallersAreKept
    <3> DEFINE fr == Frame(this, d, m)
               R == Running(program, Involved)
    <3>4. fr.this = this /\ fr.class = d /\ fr.name = m
      BY DEF Frame
    <3>5. Callers \in Seq(R) /\ Len(frames) \in Nat /\ fr \in R
      BY <2>1, <3>1, RunningMethods
    <3> HIDE DEF fr, R
    <3>6. /\ Len(frames') = Len(frames) + 1
          /\ \A i \in 1..Len(frames) : frames'[i] = Callers[i]
          /\ frames'[Len(frames) + 1] = fr
      <4>1. frames' = Append(Callers, fr)
        BY <3>1 DEF fr
      <4> QED BY <3>3, <3>5, <4>1, AppendProperties
    <3>7. PICK N \in Nat : N = Len(frames)
      BY <3>5
    <3>8. \A i \in 1..(N + 1) : i \in 1..N \/ i = N + 1
      OBVIOUS
    <3>9. ASSUME NEW i \in 1..Len(frames')
          PROVE  Definer(program, ClassOf(frames'[i].this), frames'[i].name) = <<"method", frames'[i].class>>
      <4>1. CASE i \in 1..N
        <5>1. /\ frames'[i].this = frames[i].this /\ frames'[i].class = frames[i].class
              /\ frames'[i].name = frames[i].name
          BY <3>3, <3>6, <3>7, <4>1
        <5> QED BY <3>7, <4>1, <5>1 DEF FramesAreDefined
      <4>2. CASE i = N + 1
        BY <3>2, <3>4, <3>6, <3>7, <4>2
      <4> QED BY <3>6, <3>7, <3>8, <4>1, <4>2
    <3>10. \A x : ClassOf(x)' = ClassOf(x)
      BY <2>1, SameFamily
    <3> QED BY <2>1, <3>9, <3>10 DEF FramesAreDefined
  <2> QED BY <2>2, <2>3
<1>4. CASE Return
  <2>1. /\ UNCHANGED <<program, heap, root>>
        /\ Len(frames') \in Nat /\ Len(frames) \in Nat /\ Len(frames') < Len(frames)
        /\ \A i \in 1..Len(frames') : frames'[i] = frames[i]
    BY <1>4, ReturnedFrames
  <2>2. \A i \in 1..Len(frames') : i \in 1..Len(frames)
    BY <2>1
  <2>3. \A x : ClassOf(x)' = ClassOf(x)
    BY <2>1, SameFamily
  <2> QED BY <2>1, <2>2, <2>3 DEF FramesAreDefined
<1>5. CASE \/ \E c \in Names : generate_new(c)
           \/ \E n \in 1..stmts : Object(n) \in DOMAIN heap /\ CallMethod(Object(n), "m")
  <2>1. /\ AllBuilt /\ UNCHANGED <<program, built>> /\ \E n \in 1..stmts' : root' = Object(n)
        /\ \/ frames' = <<>>
           \/ \E c \in Names, m \in MethodNames(program), d \in Names :
                  /\ heap'[root'].proto = Class(c) /\ LoadItem(Class(c), m) = <<"method", d>>
                  /\ frames' = <<Frame(root', d, m)>>
    BY <1>5, MainCalls
  <2>2. CASE frames' = <<>>
    BY <2>2 DEF FramesAreDefined
  <2>3. CASE frames' # <<>>
    <3>1. PICK c \in Names, m \in MethodNames(program), d \in Names :
              /\ heap'[root'].proto = Class(c) /\ LoadItem(Class(c), m) = <<"method", d>>
              /\ frames' = <<Frame(root', d, m)>>
      BY <2>1, <2>3
    <3>2. Class(c) \in DOMAIN heap /\ Class(c) # Module /\ ClassOf(Class(c)) = c
      BY Places DEF HeapInv, ClassOf
    <3>3. Definer(program, c, m) = <<"method", d>>
      BY <2>1, <3>1, <3>2, LookupsAreDefined
    <3>4. (IF root'[1] = "class" THEN root'[2] ELSE heap'[root'].proto[2]) = c
      BY <2>1, <3>1, Places
    <3>5. Len(frames') = 1 /\ frames'[1] = Frame(root', d, m)
      BY <3>1
    <3>6. frames'[1].this = root' /\ frames'[1].name = m /\ frames'[1].class = d
      BY <3>5 DEF Frame
    <3>7. \A i \in 1..Len(frames') : i = 1
      BY <3>5
    <3> QED BY <2>1, <3>3, <3>4, <3>6, <3>7 DEF FramesAreDefined, ClassOf
  <2> QED BY <2>2, <2>3
<1>6. CASE UNCHANGED vars
  BY <1>6 DEF vars, FramesAreDefined, ClassOf
<1> QED BY <1>1, <1>2, <1>3, <1>4, <1>5, <1>6, Steps

LEMMA SuperStep ==
    ASSUME HeapInv, RunInv, FramesAreDefined, SuperReachesParent, [Next]_vars
    PROVE  SuperReachesParent'
<1>1. CASE CallSuper
  <2>0. program' = program
    BY <1>1 DEF CallSuper, Does
  <2> SUFFICES ASSUME ExtendsByName(program), SuperIsNotInherited(program)
               PROVE  SuperReachesParent'
    BY <2>0 DEF SuperReachesParent
  <2>1. frames # <<>> /\ Top.rest # <<>> /\ Head(Top.rest)[1] = "super" /\ program' = program
    BY <1>1 DEF CallSuper, Does
  <2>2. /\ program \in Programs /\ AllBuilt /\ root \in DOMAIN heap
        /\ \E n \in 1..stmts : root = Object(n)
    BY <2>1 DEF HeapInv, RunInv
  <2>3. /\ Top \in Running(program, Involved) /\ Top = frames[Len(frames)] /\ Len(frames) \in 1..Len(frames)
        /\ Head(Top.rest) \in ToSet(program[Top.class].methods[Top.name])
    BY <2>1, RunningMethods
  <2> DEFINE this == Top.this
             c == ClassOf(this)
             m == Head(Top.rest)[2]
  <2>4. /\ this \in Involved /\ Top.class \in Names /\ Top.name \in DOMAIN program[Top.class].methods
    BY <2>3 DEF Running
  <2>5. Definer(program, c, Top.name) = <<"method", Top.class>>
    BY <2>3 DEF FramesAreDefined
  <2>6. c \in Names
    BY <2>2, <2>4, Involvement
  <2>7. \E i \in DOMAIN program[Top.class].methods[Top.name] :
            program[Top.class].methods[Top.name][i][1] = "super"
    BY <2>1, <2>3 DEF ToSet
  <2>8. Top.class = c
    <3> HIDE DEF c
    <3> QED BY <2>2, <2>4, <2>5, <2>6, <2>7, SuperIsOwn
  <2>9. /\ Super(this) = heap[Class(c)].proto /\ Super(this) # Module
    BY <2>2, <2>4, SuperIsInvolved
  <2>10. heap[Class(c)].proto = IF HasParent(c) THEN Class(Parent(c)) ELSE None
    <3> HIDE DEF c
    <3> QED BY <2>2, <2>6, LinkedAsWritten
  <2>11. m \in MethodNames(program)
    BY <2>1, NextName
  <2> HIDE DEF this, c, m
  <2>12. LoadItem(Super(this), m) = IF HasParent(c) THEN Definer(program, Parent(c), m) ELSE Empty
    <3>1. CASE HasParent(c)
      <4>1. Parent(c) \in Names
        BY <2>2, <2>6, <3>1, HierarchyAssumption DEF HierarchyAssumption, HasParent, Parent
      <4>2. Class(Parent(c)) \in DOMAIN heap /\ Class(Parent(c)) # Module /\ ClassOf(Class(Parent(c))) = Parent(c)
        BY <4>1, Places DEF HeapInv, ClassOf
      <4> QED BY <2>2, <2>9, <2>10, <2>11, <3>1, <4>2, LookupsAreDefined
    <3>2. CASE ~ HasParent(c)
      <4>1. None \notin DOMAIN heap
        BY Places DEF HeapInv
      <4> QED BY <2>9, <2>10, <3>2, <4>1, Lookups
    <3> QED BY <3>1, <3>2
  <2>13. reached' = [from |-> c, name |-> m, to |-> LoadItem(Super(this), m)]
    BY <1>1, <2>8 DEF CallSuper, this, m
  <2>14. reached'.from = c /\ reached'.name = m /\ reached'.to = LoadItem(Super(this), m)
    BY <2>13
  <2> QED BY <2>1, <2>12, <2>14 DEF SuperReachesParent, HasParent, Parent
<1>2. CASE ~ CallSuper
  <2>1. UNCHANGED <<program, reached>>
    BY <1>2, Steps
    DEF generate_class, SetField, CallThis, Return, Does, generate_new, CallMethod, Statement, vars
  <2> QED BY <2>1 DEF SuperReachesParent
<1> QED BY <1>1, <1>2

\* super.m() in a method of a class runs the method m that the parent of the class has,
\* and fails where the class has no parent, or that no such method: generate_super takes
\* the prototype of the class of an instance, and of a class its own prototype, for the
\* this that it passes on is a class.
THEOREM SuperReachesParentHolds == Spec => []SuperReachesParent
<1>1. Init => FramesAreDefined /\ SuperReachesParent
  <2>1. Init => frames = <<>> /\ reached = [from |-> "", name |-> "", to |-> Empty]
    BY Zenon DEF Init
  <2>2. frames = <<>> => FramesAreDefined
    BY DEF FramesAreDefined
  <2>3. reached = [from |-> "", name |-> "", to |-> Empty] => SuperReachesParent
    <3>1. \A x, y, z : [from |-> x, name |-> y, to |-> z].from = x
      OBVIOUS
    <3>2. reached = [from |-> "", name |-> "", to |-> Empty] => reached.from = ""
      BY <3>1, Zenon
    <3>3. reached.from = "" => SuperReachesParent
      BY Zenon DEF SuperReachesParent
    <3> QED BY <3>2, <3>3
  <2> QED BY <2>1, <2>2, <2>3
<1>2. HeapInv /\ RunInv /\ (FramesAreDefined /\ SuperReachesParent) /\ [Next]_vars
          => (FramesAreDefined /\ SuperReachesParent)'
  BY FramesStep, SuperStep
<1> QED BY <1>1, <1>2, MapsAreInvariant, PTL DEF Spec

====
