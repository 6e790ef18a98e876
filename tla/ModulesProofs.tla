--------------------------- MODULE ModulesProofs ---------------------------
(***************************************************************************)
(* Proofs about Modules, for every set of programs.                        *)
(*                                                                         *)
(* CompileInv says how far each file is compiled and what that has made of *)
(* its symbols, links and exports.  RunInv says what the stack of texts    *)
(* and import processors looks like and in which of three states the map   *)
(* of each module is: as it was linked, taken apart by the processor on    *)
(* top of the stack, or finished.                                          *)
(***************************************************************************)
EXTENDS Modules, ProofLemmas, FiniteSetTheorems, FunctionTheorems

\* Keys are names behind a letter.
KeyLetters == Letters \cup {"v", "f", "c", "e", "@", "init"}
KeyType == Seq(KeyLetters)

\* The key of an offer of a file, and what may stand for it in a map.
Key(m, o) == ExportKey(program[m], o)
Forms(m, o) == {<<"ref", m, o[2]>>, <<"object", m, o[2]>>}

-----------------------------------------------------------------------------
(* Compiling.                                                               *)

Imports(f) == program[f].imports

PartType ==
    [kind : {"import"}, item : Files \X Name] \cup [kind : {"export"}, item : Name \X Name]
        \cup [kind : {"marked"}, item : Name]

\* How many parts of a file are compiled, and what a part offers.
Done(f) == Len(Parts(f)) - Len(todo[f])
OfferOf(part) == IF part.kind = "export" THEN <<part.item[2], part.item[1]>> ELSE <<part.item, part.item>>

\* What is left of the parts of a file.
TodoInv(f) ==
    /\ todo[f] \in Seq(PartType)
    /\ Len(todo[f]) <= Len(Parts(f))
    /\ \A i \in 1..Len(todo[f]) : todo[f][i] = Parts(f)[Done(f) + i]

ImportsDone(f) == {i \in 1..Len(Imports(f)) : i <= Done(f)}
OthersDone(f) == {i \in 1..Len(Parts(f)) : i <= Done(f) /\ Parts(f)[i].kind # "import"}

\* The imports that are compiled have names of their own, and are linked in order.
ImportsInv(f) ==
    /\ DOMAIN symbols[f] = DOMAIN program[f].decls \cup {Imports(f)[i][2] : i \in ImportsDone(f)}
    /\ \A n \in DOMAIN program[f].decls : symbols[f][n] = program[f].decls[n]
    /\ \A i \in ImportsDone(f) :
          /\ symbols[f][Imports(f)[i][2]] = "MODULE"
          /\ Imports(f)[i][2] \notin DOMAIN program[f].decls
          /\ \A j \in 1..(i - 1) : Imports(f)[j][2] # Imports(f)[i][2]
    /\ links[f] \in Seq(Files)
    /\ DOMAIN links[f] = ImportsDone(f)
    /\ \A i \in ImportsDone(f) : links[f][i] = Imports(f)[i][1]

\* The other parts that are compiled are exported, and all of them are declared.
Entry(f, o) == <<Key(f, o), o[2]>>
ExportsInv(f) ==
    /\ exported[f] = {Entry(f, OfferOf(Parts(f)[i])) : i \in OthersDone(f)}
    /\ \A i \in OthersDone(f) : OfferOf(Parts(f)[i])[2] \in DOMAIN program[f].decls

CompileInv ==
    /\ program \in Programs
    /\ status \in {"compiling", "refused", "running", "done"}
    /\ DOMAIN todo = Files /\ DOMAIN symbols = Files /\ DOMAIN exported = Files /\ DOMAIN links = Files
    /\ \A f \in Files : TodoInv(f) /\ ImportsInv(f) /\ ExportsInv(f)
    /\ status = "refused" => \E f \in Files : Clashes(program[f])
    /\ status \in {"running", "done"} => AllCompiled

-----------------------------------------------------------------------------
(* Running.                                                                 *)

\* A rank that imports go down.
Descends(p, rank) ==
    \A f \in Files : \A i \in DOMAIN p[f].imports : rank[p[f].imports[i][1]] < rank[f]
Rank == CHOOSE rank \in [Files -> 0..Cardinality(Files)] : Descends(program, rank)

\* Where the value under a key comes from: from an offer whose name ends in the key, or
\* from the offer with that key while it is left.
Comes(m, left, k, value) ==
    \E o \in Offers(program[m]) :
        value \in Forms(m, o) /\ (k \in Suffixes(o[1]) \/ (k \in left /\ k = Key(m, o)))

\* A map of module m while the keys in left have not been renamed: they are all in it,
\* and its other keys are names.  What clear offers have there is known.
Partly(map, m, left) ==
    /\ InitKey \in DOMAIN map
    /\ \A o \in Offers(program[m]) : Key(m, o) \in left => Key(m, o) \in DOMAIN map
    /\ \A k \in DOMAIN map \ {InitKey} :
          /\ k \in left \/ \E o \in Offers(program[m]) : k = o[1]
          /\ Comes(m, left, k, map[k])
    /\ \A o \in Offers(program[m]) : Clear(program[m], o) =>
          IF Key(m, o) \in left THEN map[Key(m, o)] = <<"ref", m, o[2]>>
          ELSE o[1] \in DOMAIN map /\ map[o[1]] = Meant(m, o)

AllKeys(m) == {Key(m, o) : o \in Offers(program[m])} \cup {InitKey}
Fresh(m) == DOMAIN maps[m] = AllKeys(m) /\ Partly(maps[m], m, AllKeys(m))

Finished(m) == FindsClearOffers(m) /\ FindsOffers(m)

IsText(frame) == frame.at \in {"link", "initialized"}
Processing == frames # <<>> /\ ~ IsText(Top)

FrameType ==
    [file : Files, at : {"link", "initialized", "getkeys", "keys"}, next : Nat \ {0}, operand : Files,
     left : SUBSET KeyType]

Target(frame) == links[frame.file][frame.next]
MayLink(frame, next) == next \in 1..Len(links[frame.file])

\* A text waits for that of the module that it imports.
Awaits(frame) ==
    /\ MayLink(frame, frame.next)
    /\ frame.operand = Target(frame)
    /\ frame.operand \in started
    /\ inits[frame.operand] = 1

\* The map in the register: all of its keys, or some, are as they were linked.
Untouched == \A m \in Files : r0 = m => Fresh(m)
KeysLeft(i) == Partly(maps[r0], r0, frames[i].left) /\ frames[i].left \subseteq AllKeys(r0)

\* A processor takes apart the map of the module that the text below it has imported.
Processes(i) ==
    /\ i = Len(frames) /\ i # 1
    /\ frames[i].next = 1
    /\ frames[i - 1].at = "link"
    /\ MayLink(frames[i - 1], frames[i - 1].next - 1)
    /\ r0 = links[frames[i - 1].file][frames[i - 1].next - 1]
    /\ r0 \in started
    /\ inits[r0] = 1
    /\ frames[i].at = "getkeys" => Untouched
    /\ frames[i].at = "keys" => KeysLeft(i)

FrameInv(i) ==
    /\ frames[i].at = "link" => frames[i].next - 1 \in 0..Len(links[frames[i].file])
    /\ frames[i].at = "initialized" => Awaits(frames[i])
    /\ i = 1 => IsText(frames[i]) /\ frames[i].file = Main
    /\ i # 1 /\ IsText(frames[i]) => frames[i - 1].at = "initialized" /\ frames[i - 1].operand = frames[i].file
    /\ ~ IsText(frames[i]) => Processes(i)

StackInv ==
    /\ frames \in Seq(FrameType)
    /\ \A i \in 1..Len(frames) : FrameInv(i)

RankInv ==
    \A i, j \in 1..Len(frames) :
        i < j /\ IsText(frames[j]) => Rank[frames[j].file] < Rank[frames[i].file]

\* The modules whose text has not ended, or whose map is about to be taken apart.
HasText(m) == \E i \in 1..Len(frames) : IsText(frames[i]) /\ frames[i].file = m
Busy(m) ==
    \/ m = Main
    \/ HasText(m)
    \/ frames # <<>> /\ Top.at = "initialized" /\ Top.operand = m

MapInv(m) ==
    /\ inits[m] \in {0, 1}
    /\ \/ Fresh(m) /\ (inits[m] = 0 \/ Busy(m))
       \/ Processing /\ r0 = m /\ inits[m] = 1
       \/ Finished(m) /\ inits[m] = 1

Passed(m) == inits[m] = 1 /\ (Finished(m) \/ (Processing /\ r0 = m))
PassedInv == \A i \in 1..Len(frames) : \A m \in ImportedBy(frames[i]) : Passed(m)

RunningInv ==
    /\ StackInv
    /\ RankInv
    /\ PassedInv
    /\ \A m \in Files : MapInv(m)

RunInv ==
    /\ DOMAIN maps = Files /\ DOMAIN inits = Files
    /\ started \subseteq Files /\ r0 \in Files
    /\ status \in {"running", "done"} => RunningInv
    /\ status # "running" => frames = <<>>
    /\ status \notin {"running", "done"} => \A m \in Files : inits[m] = 0

-----------------------------------------------------------------------------
(* Sequences and keys.                                                      *)

\* Where the elements of a concatenation come from.
LEMMA ConcatElements ==
    ASSUME NEW S, NEW s1 \in Seq(S), NEW s2 \in Seq(S)
    PROVE  /\ s1 \o s2 \in Seq(S)
           /\ Len(s1 \o s2) = Len(s1) + Len(s2)
           /\ \A i \in 1..Len(s1) : (s1 \o s2)[i] = s1[i]
           /\ \A i \in 1..Len(s2) : (s1 \o s2)[Len(s1) + i] = s2[i]
<1>1. Len(s1) \in Nat /\ Len(s2) \in Nat
  OBVIOUS
<1>2. ASSUME NEW i \in 1..Len(s2)
      PROVE  (s1 \o s2)[Len(s1) + i] = s2[i]
  <2>1. Len(s1) + i \in 1..(Len(s1) + Len(s2)) /\ ~ (Len(s1) + i <= Len(s1)) /\ Len(s1) + i - Len(s1) = i
    BY <1>1
  <2> QED BY <2>1, ConcatProperties
<1> QED
  BY <1>2, ConcatLeft

\* SetToSeq lists every element of a finite set.
LEMMA SetToSeqLists ==
    ASSUME NEW S, IsFiniteSet(S)
    PROVE  /\ SetToSeq(S) \in Seq(S)
           /\ \A x \in S : \E i \in 1..Len(SetToSeq(S)) : SetToSeq(S)[i] = x
<1> DEFINE n == Cardinality(S)
<1> DEFINE s == SetToSeq(S)
<1>1. n \in Nat /\ ExistsBijection(1..n, S)
  BY FS_CardinalityType
<1>2. PICK f : f \in Bijection(1..n, S)
  BY <1>1, Fun_ExistsBij
<1>3. f \in [1..n -> S] /\ IsInjective(f)
  BY <1>2 DEF Bijection, Injection
<1>4. s \in [1..n -> S] /\ IsInjective(s)
  BY <1>3 DEF SetToSeq
<1>5. s \in Injection(1..n, S)
  BY <1>4 DEF Injection
<1>6. IsFiniteSet(1..n) /\ Cardinality(1..n) = n
  BY <1>1, FS_Interval
<1>7. s \in Surjection(1..n, S)
  BY <1>5, <1>6, FS_Injection
<1>8. \A x \in S : \E i \in 1..n : s[i] = x
  BY <1>7 DEF Surjection
<1>9. s \in Seq(S) /\ Len(s) = n
  BY <1>1, <1>4
<1> QED
  BY <1>8, <1>9

\* What is put in front of a sequence is its head.
LEMMA ConsParts ==
    ASSUME NEW S, NEW x \in S, NEW s \in Seq(S)
    PROVE  /\ <<x>> \o s \in Seq(S)
           /\ <<x>> \o s # <<>>
           /\ (<<x>> \o s)[1] = x
           /\ Tail(<<x>> \o s) = s
<1> DEFINE t == <<x>> \o s
<1>1. <<x>> \in Seq(S) /\ Len(<<x>>) = 1 /\ <<x>>[1] = x /\ Len(s) \in Nat
  OBVIOUS
<1>2. t \in Seq(S) /\ Len(t) = 1 + Len(s) /\ t[1] = x /\ \A i \in 1..Len(s) : t[1 + i] = s[i]
  BY <1>1, ConcatElements
<1>3. t # <<>>
  BY <1>1, <1>2
<1> HIDE DEF t
<1>4. Tail(t) \in Seq(S) /\ Len(Tail(t)) = Len(s) /\ \A i \in 1..Len(s) : Tail(t)[i] = t[i + 1]
  BY <1>1, <1>2, <1>3, HeadTailProperties
<1>5. \A i \in 1..Len(s) : Tail(t)[i] = s[i]
  BY <1>2, <1>4
<1>6. Tail(t) = s
  BY <1>4, <1>5, SeqEqual
<1> QED
  BY <1>2, <1>3, <1>6 DEF t

\* A key is taken apart into its letter and the name.
LEMMA KeyParts ==
    ASSUME NEW kind \in Kinds, NEW as \in Name
    PROVE  /\ KeyOf(kind, as) \in KeyType
           /\ KeyOf(kind, as)[1] = Prefix(kind)
           /\ Tail(KeyOf(kind, as)) = as
           /\ KeyOf(kind, as) # InitKey
           /\ KeyOf(kind, as)[1] # "@"
           /\ KeyOf(kind, as)[1] \in {"c", "e"} <=> kind \in {"CLASS", "ENUM"}
<1> DEFINE p == Prefix(kind)
<1>1. as \in Seq(KeyLetters)
  <2>1. as \in Seq(Letters) /\ Letters \subseteq KeyLetters
    BY DEF Name, KeyLetters
  <2> HIDE DEF KeyLetters
  <2> QED BY <2>1, SeqMonotonic
<1>2. p \in {"v", "f", "c", "e"} /\ (p \in {"c", "e"} <=> kind \in {"CLASS", "ENUM"})
  <2>1. CASE kind = "GLOBAL"
    BY <2>1 DEF Prefix
  <2>2. CASE kind = "FUNCTION"
    BY <2>2 DEF Prefix
  <2>3. CASE kind = "CLASS"
    BY <2>3 DEF Prefix
  <2>4. CASE kind = "ENUM"
    BY <2>4 DEF Prefix
  <2> QED BY <2>1, <2>2, <2>3, <2>4 DEF Kinds
<1>3. p \in KeyLetters /\ p # "@"
  BY <1>2 DEF KeyLetters
<1>4. InitKey[1] = "@"
  BY DEF InitKey
<1> HIDE DEF p
<1>5. /\ <<p>> \o as \in Seq(KeyLetters)
      /\ (<<p>> \o as)[1] = p
      /\ Tail(<<p>> \o as) = as
  BY <1>1, <1>3, ConsParts
<1>6. KeyOf(kind, as) = <<p>> \o as
  BY DEF KeyOf, p
<1> QED
  BY <1>2, <1>3, <1>4, <1>5, <1>6 DEF KeyType, p

-----------------------------------------------------------------------------
(* The parts of a file.                                                     *)

\* What ProgramsAssumption says about a file.
LEMMA FileTypes ==
    ASSUME program \in Programs, NEW f \in Files
    PROVE  /\ Imports(f) \in Seq(Files \X Name)
           /\ program[f].exports \in Seq(Name \X Name)
           /\ DOMAIN program[f].decls \subseteq Name
           /\ \A n \in DOMAIN program[f].decls : program[f].decls[n] \in Kinds
           /\ IsFiniteSet(program[f].marked)
           /\ program[f].marked \subseteq DOMAIN program[f].decls
           /\ \A n \in program[f].marked : program[f].decls[n] \in {"CLASS", "ENUM", "FUNCTION"}
  BY ProgramsAssumption DEF Imports, Kinds

\* What is listed as a kind of parts.
PartOf(kind, item) == [kind |-> kind, item |-> item]

\* A part is of its kind, and has its item.
LEMMA PartOfParts ==
    ASSUME NEW kind, NEW item
    PROVE  PartOf(kind, item).kind = kind /\ PartOf(kind, item).item = item
  BY DEF PartOf

\* AllAs makes a part of each item.
LEMMA AllAsParts ==
    ASSUME NEW S, NEW items \in Seq(S), NEW kind, NEW T, \A x \in S : PartOf(kind, x) \in T
    PROVE  /\ AllAs(kind, items) \in Seq(T)
           /\ Len(AllAs(kind, items)) = Len(items)
           /\ \A i \in 1..Len(items) : AllAs(kind, items)[i] = PartOf(kind, items[i])
<1>1. Len(items) \in Nat /\ DOMAIN items = 1..Len(items) /\ \A i \in 1..Len(items) : items[i] \in S
  OBVIOUS
<1>2. AllAs(kind, items) = [i \in 1..Len(items) |-> PartOf(kind, items[i])]
  BY <1>1 DEF AllAs, PartOf
<1>3. \A i \in 1..Len(items) : PartOf(kind, items[i]) \in T
  BY <1>1
<1> QED
  BY <1>1, <1>2, <1>3

\* The marked declarations of some kinds are listed.
LEMMA MarkedLists ==
    ASSUME program \in Programs, NEW f \in Files, NEW kinds
    PROVE  /\ Marked(f, kinds) \in Seq(program[f].marked)
           /\ \A n \in program[f].marked :
                 program[f].decls[n] \in kinds => \E i \in 1..Len(Marked(f, kinds)) : Marked(f, kinds)[i] = n
<1> DEFINE S == {n \in program[f].marked : program[f].decls[n] \in kinds}
<1>1. S \subseteq program[f].marked /\ IsFiniteSet(S)
  BY FileTypes, FS_Subset
<1>2. Marked(f, kinds) = SetToSeq(S)
  BY DEF Marked
<1>3. \A n \in program[f].marked : program[f].decls[n] \in kinds => n \in S
  OBVIOUS
<1> HIDE DEF S
<1>4. Marked(f, kinds) \in Seq(S) /\ \A n \in S : \E i \in 1..Len(Marked(f, kinds)) : Marked(f, kinds)[i] = n
  BY <1>1, <1>2, SetToSeqLists
<1>5. Len(Marked(f, kinds)) \in Nat /\ Marked(f, kinds) \in [1..Len(Marked(f, kinds)) -> program[f].marked]
  BY <1>1, <1>4
<1> QED
  BY <1>3, <1>4, <1>5

\* The imports of a file come first; its exports and marked declarations follow, and
\* make up all that it offers.
PartsShape(f) ==
    /\ Parts(f) \in Seq(PartType)
    /\ Len(Imports(f)) \in Nat /\ Len(Parts(f)) \in Nat /\ Len(Imports(f)) <= Len(Parts(f))
    /\ \A i \in 1..Len(Imports(f)) : Parts(f)[i] = [kind |-> "import", item |-> Imports(f)[i]]
    /\ \A i \in 1..Len(Parts(f)) : i > Len(Imports(f)) =>
          \/ /\ Parts(f)[i].kind = "export"
             /\ \E j \in DOMAIN program[f].exports : Parts(f)[i].item = program[f].exports[j]
          \/ Parts(f)[i].kind = "marked" /\ Parts(f)[i].item \in program[f].marked
    /\ \A j \in DOMAIN program[f].exports : \E i \in 1..Len(Parts(f)) :
          Parts(f)[i].kind = "export" /\ Parts(f)[i].item = program[f].exports[j]
    /\ \A n \in program[f].marked : \E i \in 1..Len(Parts(f)) :
          Parts(f)[i].kind = "marked" /\ Parts(f)[i].item = n

\* The parts of every file have this shape.
LEMMA PartsHaveShape ==
    ASSUME program \in Programs, NEW f \in Files
    PROVE  PartsShape(f)
<1> DEFINE A == AllAs("import", program[f].imports)
<1> DEFINE B == AllAs("export", program[f].exports)
<1> DEFINE C == AllAs("marked", Marked(f, {"CLASS", "ENUM"}))
<1> DEFINE D == AllAs("marked", Marked(f, {"FUNCTION"}))
<1> DEFINE M == program[f].marked
<1> DEFINE X == program[f].exports
<1>1. /\ A \in Seq(PartType) /\ Len(A) = Len(Imports(f)) /\ Len(A) \in Nat
      /\ \A i \in 1..Len(A) : A[i] = [kind |-> "import", item |-> Imports(f)[i]]
  <2> DEFINE S == Files \X Name
  <2> DEFINE I == program[f].imports
  <2>1. I \in Seq(S)
    BY FileTypes DEF Imports
  <2>2. \A x \in S : PartOf("import", x) \in PartType
    BY DEF PartType, PartOf
  <2> HIDE DEF S, I
  <2>3. /\ AllAs("import", I) \in Seq(PartType)
        /\ Len(AllAs("import", I)) = Len(I)
        /\ \A i \in 1..Len(I) : AllAs("import", I)[i] = PartOf("import", I[i])
    BY <2>1, <2>2, AllAsParts
  <2>4. A = AllAs("import", I) /\ Imports(f) = I /\ Len(I) \in Nat
    BY <2>1 DEF I, Imports
  <2> QED BY <2>1, <2>3, <2>4 DEF PartOf
<1>2. /\ B \in Seq(PartType) /\ Len(B) \in Nat
      /\ DOMAIN X = 1..Len(B)
      /\ \A i \in 1..Len(B) : B[i].kind = "export" /\ B[i].item = X[i]
  <2> DEFINE S == Name \X Name
  <2>1. X \in Seq(S)
    BY FileTypes
  <2>2. \A x \in S : PartOf("export", x) \in PartType
    BY DEF PartType, PartOf
  <2> HIDE DEF S
  <2> HIDE DEF X
  <2>3. /\ AllAs("export", X) \in Seq(PartType)
        /\ Len(AllAs("export", X)) = Len(X)
        /\ \A i \in 1..Len(X) : AllAs("export", X)[i] = PartOf("export", X[i])
    BY <2>1, <2>2, AllAsParts
  <2>4. B = AllAs("export", X) /\ Len(X) \in Nat /\ DOMAIN X = 1..Len(X)
    BY <2>1 DEF X
  <2> HIDE DEF B
  <2>5. \A i \in 1..Len(X) : B[i].kind = "export" /\ B[i].item = X[i]
    BY <2>3, <2>4, PartOfParts
  <2> QED BY <2>3, <2>4, <2>5
<1>3. ASSUME NEW kinds
      PROVE  LET s == AllAs("marked", Marked(f, kinds))
             IN  /\ s \in Seq(PartType) /\ Len(s) \in Nat
                 /\ \A i \in 1..Len(s) : s[i].kind = "marked" /\ s[i].item \in M
                 /\ \A n \in M : program[f].decls[n] \in kinds => \E i \in 1..Len(s) : s[i].item = n
  <2> DEFINE s == AllAs("marked", Marked(f, kinds))
  <2>1. /\ Marked(f, kinds) \in Seq(M)
        /\ \A n \in M : program[f].decls[n] \in kinds => \E i \in 1..Len(Marked(f, kinds)) : Marked(f, kinds)[i] = n
    BY MarkedLists
  <2>2. \A n \in M : PartOf("marked", n) \in PartType
    BY FileTypes DEF PartType, PartOf
  <2> DEFINE marks == Marked(f, kinds)
  <2> HIDE DEF M, marks
  <2>3. marks \in Seq(M)
    BY <2>1 DEF marks
  <2>4. /\ s \in Seq(PartType)
        /\ Len(s) = Len(marks)
        /\ \A i \in 1..Len(marks) : s[i] = PartOf("marked", marks[i])
    <3>1. s = AllAs("marked", marks)
      BY DEF marks
    <3> HIDE DEF s
    <3> QED BY <3>1, <2>2, <2>3, AllAsParts
  <2> HIDE DEF s
  <2>5. Len(marks) \in Nat /\ \A i \in 1..Len(marks) : marks[i] \in M
    BY <2>3
  <2>6. Len(s) \in Nat /\ \A i \in 1..Len(s) : marks[i] \in M
    BY <2>4, <2>5
  <2>7. \A i \in 1..Len(s) : s[i].kind = "marked" /\ s[i].item \in M /\ s[i].item = marks[i]
    BY <2>4, <2>6, PartOfParts
  <2>8. \A n \in M : program[f].decls[n] \in kinds => \E i \in 1..Len(s) : s[i].item = n
    BY <2>1, <2>4, <2>7 DEF marks
  <2>9. /\ s \in Seq(PartType) /\ Len(s) \in Nat
        /\ \A i \in 1..Len(s) : s[i].kind = "marked" /\ s[i].item \in M
        /\ \A n \in M : program[f].decls[n] \in kinds => \E i \in 1..Len(s) : s[i].item = n
    BY <2>4, <2>6, <2>7, <2>8
  <2> QED BY <2>9 DEF s
<1>4. /\ C \in Seq(PartType) /\ Len(C) \in Nat
      /\ \A i \in 1..Len(C) : C[i].kind = "marked" /\ C[i].item \in M
      /\ \A n \in M : program[f].decls[n] \in {"CLASS", "ENUM"} => \E i \in 1..Len(C) : C[i].item = n
  BY <1>3
<1>5. /\ D \in Seq(PartType) /\ Len(D) \in Nat
      /\ \A i \in 1..Len(D) : D[i].kind = "marked" /\ D[i].item \in M
      /\ \A n \in M : program[f].decls[n] \in {"FUNCTION"} => \E i \in 1..Len(D) : D[i].item = n
  BY <1>3
<1>6. Parts(f) = ((A \o B) \o C) \o D
  BY DEF Parts
<1>7. \A n \in M : program[f].decls[n] \in {"CLASS", "ENUM"} \/ program[f].decls[n] \in {"FUNCTION"}
  BY FileTypes
<1> HIDE DEF A, B, C, D, M, X
<1> DEFINE AB == A \o B
<1> DEFINE ABC == AB \o C
<1>8. /\ AB \in Seq(PartType) /\ Len(AB) = Len(A) + Len(B)
      /\ \A i \in 1..Len(A) : AB[i] = A[i]
      /\ \A i \in 1..Len(B) : AB[Len(A) + i] = B[i]
  <2>1. A \in Seq(PartType) /\ B \in Seq(PartType)
    BY <1>1, <1>2
  <2> QED BY <2>1, ConcatElements
<1> HIDE DEF AB
<1>9. /\ ABC \in Seq(PartType) /\ Len(ABC) = Len(AB) + Len(C)
      /\ \A i \in 1..Len(AB) : ABC[i] = AB[i]
      /\ \A i \in 1..Len(C) : ABC[Len(AB) + i] = C[i]
  <2>1. AB \in Seq(PartType) /\ C \in Seq(PartType)
    BY <1>4, <1>8
  <2> QED BY <2>1, ConcatElements
<1> HIDE DEF ABC
<1>10. /\ Parts(f) \in Seq(PartType) /\ Len(Parts(f)) = Len(ABC) + Len(D)
       /\ \A i \in 1..Len(ABC) : Parts(f)[i] = ABC[i]
       /\ \A i \in 1..Len(D) : Parts(f)[Len(ABC) + i] = D[i]
  BY <1>5, <1>6, <1>9, ConcatElements DEF AB, ABC
<1> DEFINE P == Parts(f)
<1> DEFINE a == Len(A)
<1> DEFINE b == Len(B)
<1> DEFINE c == Len(C)
<1> DEFINE d == Len(D)
<1> HIDE DEF P
<1>11. /\ a \in Nat /\ b \in Nat /\ c \in Nat /\ d \in Nat /\ Len(P) = a + b + c + d
       /\ \A i \in 1..a : P[i] = A[i]
       /\ \A i \in 1..b : P[a + i] = B[i]
       /\ \A i \in 1..c : P[a + b + i] = C[i]
       /\ \A i \in 1..d : P[a + b + c + i] = D[i]
  <2>1. a \in Nat /\ b \in Nat /\ c \in Nat /\ d \in Nat /\ Len(AB) = a + b /\ Len(ABC) = a + b + c
    BY <1>1, <1>2, <1>4, <1>5, <1>8, <1>9
  <2> HIDE DEF a, b, c, d
  <2>2. Len(P) = a + b + c + d
    BY <1>10, <2>1 DEF P, d
  <2>3. \A i \in 1..a : P[i] = A[i]
    BY <1>8, <1>9, <1>10, <2>1 DEF P, a
  <2>4. \A i \in 1..b : P[a + i] = B[i]
    <3> SUFFICES ASSUME NEW i \in 1..b
                 PROVE  P[a + i] = B[i]
      OBVIOUS
    <3>1. a + i \in 1..Len(AB) /\ a + i \in 1..Len(ABC)
      BY <2>1
    <3>2. AB[a + i] = B[i]
      BY <1>8 DEF a, b
    <3> QED BY <1>9, <1>10, <3>1, <3>2 DEF P
  <2>5. \A i \in 1..c : P[a + b + i] = C[i]
    BY <1>9, <1>10, <2>1 DEF P, c
  <2>6. \A i \in 1..d : P[a + b + c + i] = D[i]
    BY <1>10, <2>1 DEF P, d
  <2> QED BY <2>1, <2>2, <2>3, <2>4, <2>5, <2>6
<1>12. ASSUME NEW i \in 1..Len(P), i > a
       PROVE  \/ P[i].kind = "export" /\ \E j \in DOMAIN X : P[i].item = X[j]
              \/ P[i].kind = "marked" /\ P[i].item \in M
  <2> HIDE DEF a, b, c, d
  <2>1. CASE i <= a + b
    <3>1. i - a \in 1..b /\ P[a + (i - a)] = P[i]
      BY <1>11, <1>12, <2>1
    <3>2. P[i] = B[i - a]
      BY <1>11, <3>1
    <3>3. B[i - a].kind = "export" /\ B[i - a].item = X[i - a] /\ i - a \in DOMAIN X
      BY <1>2, <3>1 DEF b
    <3> QED BY <3>2, <3>3
  <2>2. CASE i > a + b /\ i <= a + b + c
    <3>1. i - (a + b) \in 1..c /\ P[a + b + (i - (a + b))] = P[i]
      BY <1>11, <1>12, <2>2
    <3>2. P[i] = C[i - (a + b)]
      BY <1>11, <3>1
    <3> QED BY <1>4, <3>1, <3>2 DEF c
  <2>3. CASE i > a + b + c
    <3>1. i - (a + b + c) \in 1..d /\ P[a + b + c + (i - (a + b + c))] = P[i]
      BY <1>11, <1>12, <2>3
    <3>2. P[i] = D[i - (a + b + c)]
      BY <1>11, <3>1
    <3> QED BY <1>5, <3>1, <3>2 DEF d
  <2> QED BY <1>11, <2>1, <2>2, <2>3
<1>13. ASSUME NEW j \in DOMAIN X
       PROVE  \E i \in 1..Len(P) : P[i].kind = "export" /\ P[i].item = X[j]
  <2>1. j \in 1..b
    BY <1>2
  <2> HIDE DEF a, b, c, d
  <2>2. a + j \in 1..Len(P) /\ P[a + j] = B[j]
    BY <1>11, <2>1
  <2>3. B[j].kind = "export" /\ B[j].item = X[j]
    BY <1>2, <2>1 DEF b
  <2> QED BY <2>2, <2>3
<1>14. ASSUME NEW n \in M
       PROVE  \E i \in 1..Len(P) : P[i].kind = "marked" /\ P[i].item = n
  <2>1. CASE \E i \in 1..c : C[i].item = n
    <3>1. PICK i \in 1..c : C[i].item = n
      BY <2>1
    <3>2. C[i].kind = "marked"
      BY <1>4
    <3> HIDE DEF a, b, c, d
    <3>3. a + b + i \in 1..Len(P) /\ P[a + b + i] = C[i]
      BY <1>11
    <3> QED BY <3>1, <3>2, <3>3
  <2>2. CASE \E i \in 1..d : D[i].item = n
    <3>1. PICK i \in 1..d : D[i].item = n
      BY <2>2
    <3>2. D[i].kind = "marked"
      BY <1>5
    <3> HIDE DEF a, b, c, d
    <3>3. a + b + c + i \in 1..Len(P) /\ P[a + b + c + i] = D[i]
      BY <1>11
    <3> QED BY <3>1, <3>2, <3>3
  <2> QED BY <1>4, <1>5, <1>7, <2>1, <2>2
<1>15. /\ Len(Imports(f)) = a /\ Len(Imports(f)) <= Len(P) /\ Len(P) \in Nat
       /\ \A i \in 1..Len(Imports(f)) : P[i] = [kind |-> "import", item |-> Imports(f)[i]]
  <2>1. Len(Imports(f)) = a
    BY <1>1
  <2>2. \A i \in 1..a : P[i] = [kind |-> "import", item |-> Imports(f)[i]]
    BY <1>1, <1>11
  <2> HIDE DEF a, b, c, d
  <2>3. a <= Len(P) /\ Len(P) \in Nat
    BY <1>11
  <2> QED BY <2>1, <2>2, <2>3
<1>16. P \in Seq(PartType)
  BY <1>10 DEF P
<1> HIDE DEF a, b, c, d
<1> QED
  BY <1>11, <1>12, <1>13, <1>14, <1>15, <1>16 DEF PartsShape, P, M, X

-----------------------------------------------------------------------------
(* Compiling keeps CompileInv.                                              *)

\* Nothing is compiled at first.
LEMMA CompileInvInit == Init => CompileInv
<1> SUFFICES ASSUME Init PROVE CompileInv
  OBVIOUS
<1>1. program \in Programs /\ status = "compiling"
  BY DEF Init
<1>2. DOMAIN todo = Files /\ DOMAIN symbols = Files /\ DOMAIN exported = Files /\ DOMAIN links = Files
  BY DEF Init
<1>3. ASSUME NEW f \in Files
      PROVE  TodoInv(f) /\ ImportsInv(f) /\ ExportsInv(f)
  <2>1. todo[f] = Parts(f) /\ symbols[f] = program[f].decls /\ exported[f] = {} /\ links[f] = <<>>
    BY DEF Init
  <2>2. Parts(f) \in Seq(PartType) /\ Len(Parts(f)) \in Nat /\ Len(Imports(f)) \in Nat
    BY <1>1, PartsHaveShape DEF PartsShape
  <2>3. Done(f) = 0
    BY <2>1, <2>2 DEF Done
  <2>4. TodoInv(f)
    BY <2>1, <2>2, <2>3 DEF TodoInv
  <2>5. ImportsDone(f) = {} /\ OthersDone(f) = {}
    BY <2>2, <2>3 DEF ImportsDone, OthersDone
  <2>6. links[f] \in Seq(Files) /\ DOMAIN links[f] = {}
    BY <2>1
  <2>7. ImportsInv(f)
    BY <2>1, <2>5, <2>6 DEF ImportsInv
  <2>8. ExportsInv(f)
    BY <2>1, <2>5 DEF ExportsInv
  <2> QED BY <2>4, <2>7, <2>8
<1> QED
  BY <1>1, <1>2, <1>3 DEF CompileInv

\* The part that is compiled next.
LEMMA CurrentPart ==
    ASSUME CompileInv, ~ AllCompiled
    PROVE  /\ Current \in Files
           /\ todo[Current] # <<>>
           /\ Done(Current) \in Nat
           /\ Done(Current) + 1 \in 1..Len(Parts(Current))
           /\ Part = Parts(Current)[Done(Current) + 1]
           /\ Part.kind = "import" <=> Done(Current) + 1 <= Len(Imports(Current))
           /\ PartsShape(Current)
<1>1. \E f \in Files : todo[f] # <<>>
  BY DEF AllCompiled
<1>2. Current \in Files /\ todo[Current] # <<>>
  BY <1>1 DEF Current
<1> DEFINE g == Current
<1> HIDE DEF g
<1>3. PartsShape(g) /\ TodoInv(g) /\ g \in Files
  BY <1>2, PartsHaveShape DEF CompileInv, g
<1>4. /\ todo[g] \in Seq(PartType) /\ todo[g] # <<>> /\ Len(todo[g]) <= Len(Parts(g)) /\ Len(Parts(g)) \in Nat
      /\ \A i \in 1..Len(todo[g]) : todo[g][i] = Parts(g)[Done(g) + i]
  BY <1>2, <1>3 DEF TodoInv, PartsShape, g
<1>5. Len(todo[g]) \in Nat \ {0}
  BY <1>4, EmptySeq
<1>6. Done(g) \in Nat /\ Done(g) + 1 \in 1..Len(Parts(g))
  BY <1>4, <1>5 DEF Done
<1>7. Head(todo[g]) = todo[g][1]
  BY <1>4
<1>8. Part = Parts(g)[Done(g) + 1]
  BY <1>4, <1>5, <1>7 DEF Part, g
<1>9. ASSUME NEW i \in 1..Len(Parts(g))
      PROVE  Parts(g)[i].kind = "import" <=> i <= Len(Imports(g))
  <2>1. CASE i <= Len(Imports(g))
    <3>1. i \in 1..Len(Imports(g)) /\ Parts(g)[i] = [kind |-> "import", item |-> Imports(g)[i]]
      BY <1>3, <2>1 DEF PartsShape
    <3> QED BY <2>1, <3>1
  <2>2. CASE i > Len(Imports(g))
    <3>1. Parts(g)[i].kind # "import" /\ ~ (i <= Len(Imports(g)))
      BY <1>3, <2>2 DEF PartsShape
    <3> QED BY <3>1
  <2> QED BY <1>3, <2>1, <2>2 DEF PartsShape
<1> QED
  BY <1>2, <1>3, <1>6, <1>8, <1>9 DEF g

\* A part less is left of the current file.
LEMMA CompiledPart ==
    ASSUME CompileInv, ~ AllCompiled, Compiled, program' = program
    PROVE  /\ DOMAIN todo' = Files
           /\ \A f \in Files :
                 /\ TodoInv(f)'
                 /\ Parts(f)' = Parts(f)
                 /\ Imports(f)' = Imports(f)
                 /\ Done(f)' = IF f = Current THEN Done(f) + 1 ELSE Done(f)
<1> DEFINE g == Current
<1>1. g \in Files /\ todo[g] # <<>>
  BY CurrentPart
<1>2. todo' = [todo EXCEPT ![g] = Tail(todo[g])] /\ DOMAIN todo = Files
  BY DEF Compiled, CompileInv
<1> HIDE DEF g
<1>3. ASSUME NEW f \in Files
      PROVE  /\ TodoInv(f)'
             /\ Parts(f)' = Parts(f)
             /\ Imports(f)' = Imports(f)
             /\ Done(f)' = IF f = g THEN Done(f) + 1 ELSE Done(f)
  <2>1. Parts(f)' = Parts(f) /\ Imports(f)' = Imports(f)
    BY DEF Parts, Marked, Imports
  <2>2. PartsShape(f) /\ TodoInv(f)
    BY PartsHaveShape DEF CompileInv
  <2>3. /\ todo[f] \in Seq(PartType) /\ Len(todo[f]) <= Len(Parts(f)) /\ Len(Parts(f)) \in Nat
        /\ \A i \in 1..Len(todo[f]) : todo[f][i] = Parts(f)[Done(f) + i]
        /\ Done(f) = Len(Parts(f)) - Len(todo[f])
    BY <2>2 DEF TodoInv, PartsShape, Done
  <2>4. Done(f)' = Len(Parts(f)) - Len(todo'[f])
    BY <2>1 DEF Done
  <2>5. CASE f # g
    <3>1. todo'[f] = todo[f]
      BY <1>2, <2>5
    <3>2. Done(f)' = Done(f)
      BY <2>3, <2>4, <3>1
    <3>3. TodoInv(f)'
      BY <2>1, <2>2, <3>1, <3>2 DEF TodoInv
    <3> QED BY <2>1, <2>5, <3>2, <3>3
  <2>6. CASE f = g
    <3>1. todo'[f] = Tail(todo[f]) /\ todo[f] # <<>>
      BY <1>1, <1>2, <2>6
    <3>2. /\ todo'[f] \in Seq(PartType)
          /\ Len(todo'[f]) = Len(todo[f]) - 1
          /\ \A i \in 1..Len(todo'[f]) : todo'[f][i] = todo[f][i + 1]
      BY <2>3, <3>1, HeadTailProperties
    <3>3. Len(todo[f]) \in Nat \ {0}
      BY <2>3, <3>1, EmptySeq
    <3>4. Done(f)' = Done(f) + 1 /\ Len(todo'[f]) <= Len(Parts(f)) /\ Done(f) \in Nat
      BY <2>3, <2>4, <3>2, <3>3
    <3>5. ASSUME NEW i \in 1..Len(todo'[f])
          PROVE  todo'[f][i] = Parts(f)[Done(f)' + i]
      <4>1. i + 1 \in 1..Len(todo[f]) /\ Done(f) + (i + 1) = Done(f)' + i
        <5>1. Len(todo'[f]) = Len(todo[f]) - 1 /\ Len(todo[f]) \in Nat /\ i \in 1..Len(todo'[f])
          BY <3>2, <3>3
        <5>2. Done(f)' = Done(f) + 1 /\ Done(f) \in Nat
          BY <3>4
        <5> QED BY <5>1, <5>2
      <4>2. todo[f][i + 1] = Parts(f)[Done(f) + (i + 1)]
        BY <2>3, <4>1
      <4> QED BY <3>2, <4>1, <4>2
    <3>6. TodoInv(f)'
      BY <2>1, <3>2, <3>4, <3>5 DEF TodoInv
    <3> QED BY <2>1, <2>6, <3>4, <3>6
  <2> QED BY <2>5, <2>6
<1>4. DOMAIN todo' = Files
  BY <1>2
<1> QED
  BY <1>3, <1>4 DEF g

\* The other files, and a file as far as its parts of the other sort go, stay as they are.
LEMMA ImportsKept ==
    ASSUME CompileInv, NEW f \in Files, program' = program,
           ImportsDone(f)' = ImportsDone(f), symbols'[f] = symbols[f], links'[f] = links[f]
    PROVE  ImportsInv(f)'
<1>1. ImportsInv(f) /\ Imports(f)' = Imports(f)
  BY DEF CompileInv, Imports
<1> QED
  BY <1>1 DEF ImportsInv

\* The parts of a file that are exported are the same while none is compiled.
LEMMA OthersKept ==
    ASSUME CompileInv, NEW f \in Files, program' = program,
           OthersDone(f)' = OthersDone(f), exported'[f] = exported[f]
    PROVE  ExportsInv(f)'
<1>1. ExportsInv(f) /\ Parts(f)' = Parts(f)
  BY DEF CompileInv, Parts, Marked
<1>2. \A o : Entry(f, o)' = Entry(f, o)
  BY DEF Entry, Key
<1> QED
  BY <1>1, <1>2 DEF ExportsInv

\* As many parts done are the same parts.
LEMMA DoneSetsKept ==
    ASSUME NEW f, Done(f)' = Done(f), Parts(f)' = Parts(f), Imports(f)' = Imports(f)
    PROVE  ImportsDone(f)' = ImportsDone(f) /\ OthersDone(f)' = OthersDone(f)
  BY DEF ImportsDone, OthersDone

\* A step that compiles a part keeps CompileInv when it does for its file.
LEMMA CompiledKeeps ==
    ASSUME CompileInv, status = "compiling", ~ AllCompiled, Compiled, program' = program,
           DOMAIN symbols' = Files, DOMAIN links' = Files, DOMAIN exported' = Files,
           NEW g \in Files, g = Current,
           \A f \in Files : f # g =>
               symbols'[f] = symbols[f] /\ links'[f] = links[f] /\ exported'[f] = exported[f],
           ImportsInv(g)', ExportsInv(g)'
    PROVE  CompileInv'
<1>1. ImportsInv(g)' /\ ExportsInv(g)'
  OBVIOUS
<1>2. /\ DOMAIN todo' = Files
      /\ \A f \in Files : /\ TodoInv(f)' /\ Parts(f)' = Parts(f) /\ Imports(f)' = Imports(f)
                          /\ Done(f)' = IF f = g THEN Done(f) + 1 ELSE Done(f)
  BY CompiledPart
<1>3. \A f \in Files : f # g => symbols'[f] = symbols[f] /\ links'[f] = links[f] /\ exported'[f] = exported[f]
  OBVIOUS
<1>4. ASSUME NEW f \in Files
      PROVE  ImportsInv(f)' /\ ExportsInv(f)'
  <2>1. CASE f = g
    BY <1>1, <2>1
  <2>2. CASE f # g
    <3>1. ImportsDone(f)' = ImportsDone(f) /\ OthersDone(f)' = OthersDone(f)
      BY <1>2, <2>2, DoneSetsKept
    <3> QED BY <1>3, <2>2, <3>1, ImportsKept, OthersKept
  <2> QED BY <2>1, <2>2
<1>5. program' \in Programs /\ status' = "compiling"
  BY DEF CompileInv, Compiled
<1> QED
  BY <1>2, <1>4, <1>5 DEF CompileInv

\* A step that refuses the program keeps it when one of its files clashes.
LEMMA RefuseKeeps ==
    ASSUME CompileInv, Refuse, program' = program, NEW g \in Files, Clashes(program[g])
    PROVE  CompileInv'
<1>1. status' = "refused" /\ todo' = todo /\ symbols' = symbols /\ exported' = exported /\ links' = links
  BY DEF Refuse, compiler
<1>2. ASSUME NEW f \in Files
      PROVE  TodoInv(f)' /\ ImportsInv(f)' /\ ExportsInv(f)'
  <2>1. Parts(f)' = Parts(f) /\ Imports(f)' = Imports(f)
    BY DEF Parts, Marked, Imports
  <2>2. Done(f)' = Done(f)
    BY <1>1, <2>1 DEF Done
  <2>3. ImportsDone(f)' = ImportsDone(f) /\ OthersDone(f)' = OthersDone(f)
    BY <2>1, <2>2, DoneSetsKept
  <2>4. TodoInv(f)'
    BY <1>1, <2>1, <2>2 DEF CompileInv, TodoInv
  <2> QED BY <1>1, <2>3, <2>4, ImportsKept, OthersKept
<1>3. \E f \in Files : Clashes(program'[f])
  OBVIOUS
<1> QED
  BY <1>1, <1>2, <1>3 DEF CompileInv

\* An import is refused, or names and links its module.
LEMMA GenerateImportKeeps == CompileInv /\ GenerateImport => CompileInv'
<1> SUFFICES ASSUME CompileInv, GenerateImport PROVE CompileInv'
  OBVIOUS
<1>1. status = "compiling" /\ ~ AllCompiled /\ Part.kind = "import" /\ program' = program
  BY DEF GenerateImport, Compiles
<1>2. PICK g \in Files : g = Current
  BY <1>1, CurrentPart
<1> DEFINE k == Done(g) + 1
<1> DEFINE I == Imports(g)
<1>3. /\ g \in Files /\ Done(g) \in Nat /\ k \in 1..Len(I) /\ Len(I) \in Nat
      /\ Part = [kind |-> "import", item |-> I[k]]
  <2>1. /\ Done(g) \in Nat /\ k \in 1..Len(Parts(g)) /\ Part = Parts(g)[k]
        /\ k <= Len(Imports(g)) /\ PartsShape(g)
    BY <1>2, <1>1, CurrentPart
  <2>2. Len(I) \in Nat /\ \A i \in 1..Len(I) : Parts(g)[i] = [kind |-> "import", item |-> I[i]]
    BY <2>1 DEF PartsShape
  <2>3. k \in 1..Len(I)
    BY <2>1, <2>2
  <2> QED BY <2>1, <2>2, <2>3
<1>4. Item = I[k]
  BY <1>3 DEF Item
<1>5. I \in Seq(Files \X Name) /\ I = program[g].imports
  BY <1>3, FileTypes DEF CompileInv, Imports
<1>6. I[k] \in Files \X Name /\ I[k][1] \in Files /\ DOMAIN I = 1..Len(I)
  BY <1>3, <1>5
<1>7. ImportsInv(g) /\ DOMAIN symbols = Files /\ DOMAIN links = Files /\ DOMAIN exported = Files
  BY <1>3 DEF CompileInv
<1>8. /\ DOMAIN symbols[g] = DOMAIN program[g].decls \cup {I[i][2] : i \in ImportsDone(g)}
      /\ \A n \in DOMAIN program[g].decls : symbols[g][n] = program[g].decls[n]
      /\ \A i \in ImportsDone(g) : symbols[g][I[i][2]] = "MODULE"
      /\ links[g] \in Seq(Files)
      /\ DOMAIN links[g] = ImportsDone(g)
      /\ \A i \in ImportsDone(g) : links[g][i] = I[i][1]
  BY <1>7 DEF ImportsInv
<1>9. ImportsDone(g) = 1..(k - 1)
  BY <1>3 DEF ImportsDone
<1>10. CASE Item[2] \in DOMAIN Symbols
  <2>1. Refuse
    BY <1>10 DEF GenerateImport
  <2>2. I[k][2] \in DOMAIN program[g].decls \/ \E j \in 1..(k - 1) : I[j][2] = I[k][2]
    BY <1>4, <1>8, <1>9, <1>10, <1>2 DEF Symbols
  <2>3. Clashes(program[g])
    BY <1>3, <1>5, <1>6, <2>2 DEF Clashes
  <2> QED BY <1>1, <1>3, <2>1, <2>3, RefuseKeeps
<1>11. CASE Item[2] \notin DOMAIN Symbols
  <2>1. /\ symbols' = [symbols EXCEPT ![g] = Define(symbols[g], I[k][2], "MODULE")]
        /\ links' = [links EXCEPT ![g] = Append(links[g], I[k][1])]
        /\ Compiled
        /\ exported' = exported
    BY <1>2, <1>4, <1>11 DEF GenerateImport, Symbols
  <2>2. DOMAIN symbols' = Files /\ DOMAIN links' = Files /\ DOMAIN exported' = Files
    BY <1>7, <2>1
  <2>3. /\ symbols'[g] = Define(symbols[g], I[k][2], "MODULE")
        /\ links'[g] = Append(links[g], I[k][1])
        /\ exported'[g] = exported[g]
    BY <1>3, <1>7, <2>1
  <2>4. \A f \in Files : f # g => symbols'[f] = symbols[f] /\ links'[f] = links[f] /\ exported'[f] = exported[f]
    BY <1>7, <2>1
  <2>5. Parts(g)' = Parts(g) /\ Imports(g)' = I /\ Done(g)' = k
    BY <1>2, <1>1, <1>3, <2>1, CompiledPart
  <2> HIDE DEF I
  <2>6. ImportsDone(g)' = 1..k
    BY <1>3, <2>5 DEF ImportsDone, I
  <2>7. OthersDone(g)' = OthersDone(g)
    <3>1. ASSUME NEW i \in 1..Len(Parts(g))
          PROVE  i <= k /\ Parts(g)[i].kind # "import" <=> i <= Done(g) /\ Parts(g)[i].kind # "import"
      <4>1. i = k => Parts(g)[i].kind = "import"
        BY <1>2, <1>1, <1>3, CurrentPart
      <4> QED BY <1>3, <4>1
    <3> QED BY <2>5, <3>1 DEF OthersDone
  <2>8. ExportsInv(g)'
    BY <1>1, <1>3, <2>3, <2>7, OthersKept
  <2>9. /\ DOMAIN symbols'[g] = DOMAIN symbols[g] \cup {I[k][2]}
        /\ \A n \in DOMAIN symbols'[g] : symbols'[g][n] = IF n = I[k][2] THEN "MODULE" ELSE symbols[g][n]
    BY <2>3 DEF Define
  <2>10. I[k][2] \notin DOMAIN symbols[g]
    BY <1>2, <1>4, <1>11 DEF Symbols
  <2>11. DOMAIN symbols'[g] = DOMAIN program[g].decls \cup {I[i][2] : i \in 1..k}
    <3>1. 1..k = (1..(k - 1)) \cup {k}
      BY <1>3
    <3>2. {I[i][2] : i \in 1..k} = {I[i][2] : i \in 1..(k - 1)} \cup {I[k][2]}
      BY <3>1
    <3> QED BY <1>8, <1>9, <2>9, <3>2
  <2>12. \A n \in DOMAIN program[g].decls : symbols'[g][n] = program[g].decls[n]
    BY <1>8, <2>9, <2>10
  <2>13. ASSUME NEW i \in 1..k
         PROVE  /\ symbols'[g][I[i][2]] = "MODULE"
                /\ I[i][2] \notin DOMAIN program[g].decls
                /\ \A j \in 1..(i - 1) : I[j][2] # I[i][2]
    <3>1. CASE i = k
      <4>1. \A j \in 1..(k - 1) : I[j][2] \in DOMAIN symbols[g]
        BY <1>8, <1>9
      <4> QED BY <1>8, <2>9, <2>10, <3>1, <4>1
    <3>2. CASE i # k
      <4>1. i \in ImportsDone(g)
        BY <1>3, <1>9, <3>2
      <4>2. I[i][2] \in DOMAIN symbols[g] /\ symbols[g][I[i][2]] = "MODULE"
        BY <1>8, <4>1
      <4>3. symbols'[g][I[i][2]] = "MODULE"
        BY <2>9, <2>10, <4>2
      <4>4. I[i][2] \notin DOMAIN program[g].decls /\ \A j \in 1..(i - 1) : I[j][2] # I[i][2]
        BY <1>7, <4>1 DEF ImportsInv, I
      <4> QED BY <4>3, <4>4
    <3> QED BY <3>1, <3>2
  <2>14. Len(links[g]) = k - 1
    <3>1. DOMAIN links[g] = 1..(k - 1) /\ Len(links[g]) \in Nat /\ DOMAIN links[g] = 1..Len(links[g])
      BY <1>8, <1>9
    <3>2. 1..Len(links[g]) = 1..(k - 1)
      BY <3>1
    <3> QED BY <1>3, <3>1, <3>2
  <2>15. links'[g] \in Seq(Files) /\ DOMAIN links'[g] = 1..k /\ \A i \in 1..k : links'[g][i] = I[i][1]
    <3>1. links'[g] \in Seq(Files) /\ Len(links'[g]) = k
      BY <1>3, <1>6, <1>8, <2>3, <2>14, AppendProperties
    <3>2. DOMAIN links'[g] = 1..k
      BY <3>1
    <3>3. ASSUME NEW i \in 1..k
          PROVE  links'[g][i] = I[i][1]
      <4>1. CASE i = k
        BY <1>3, <1>8, <2>3, <2>14, <4>1
      <4>2. CASE i # k
        <5>1. i \in 1..(k - 1)
          BY <1>3, <4>2
        <5>2. links'[g][i] = links[g][i]
          BY <1>6, <1>8, <2>3, <2>14, <5>1
        <5> QED BY <1>8, <1>9, <5>1, <5>2
      <4> QED BY <4>1, <4>2
    <3> QED BY <3>1, <3>2, <3>3
  <2>16. ImportsInv(g)'
    BY <1>1, <2>5, <2>6, <2>11, <2>12, <2>13, <2>15 DEF ImportsInv
  <2> QED BY <1>2, <1>1, <2>1, <2>2, <2>4, <2>8, <2>16, CompiledKeeps
<1> QED
  BY <1>10, <1>11

\* What an export or a marked declaration adds to what is compiled.
LEMMA ExportedPart ==
    ASSUME CompileInv, status = "compiling", ~ AllCompiled, program' = program,
           Compiled, UNCHANGED <<symbols, links>>,
           NEW g \in Files, g = Current, Part.kind # "import",
           OfferOf(Part)[2] \in DOMAIN program[g].decls,
           exported' = [exported EXCEPT ![g] = @ \cup {Entry(g, OfferOf(Part))}]
    PROVE  CompileInv'
<1> DEFINE k == Done(g) + 1
<1>1. /\ Done(g) \in Nat /\ k \in 1..Len(Parts(g)) /\ Part = Parts(g)[k]
      /\ ~ (k <= Len(Imports(g))) /\ PartsShape(g)
  BY CurrentPart
<1>2. Len(Imports(g)) \in Nat
  BY <1>1 DEF PartsShape
<1>3. DOMAIN symbols = Files /\ DOMAIN links = Files /\ DOMAIN exported = Files /\ ExportsInv(g)
  BY DEF CompileInv
<1>4. Parts(g)' = Parts(g) /\ Imports(g)' = Imports(g) /\ Done(g)' = k
  BY CompiledPart
<1>5. ImportsDone(g)' = ImportsDone(g)
  <2>1. \A i \in 1..Len(Imports(g)) : i <= k <=> i <= Done(g)
    BY <1>1, <1>2
  <2> QED BY <1>4, <2>1 DEF ImportsDone
<1>6. OthersDone(g)' = OthersDone(g) \cup {k}
  <2>1. \A i \in 1..Len(Parts(g)) : i <= k <=> i <= Done(g) \/ i = k
    BY <1>1
  <2>2. k \in 1..Len(Parts(g)) /\ Parts(g)[k].kind # "import"
    BY <1>1
  <2> HIDE DEF k
  <2> QED BY <1>4, <2>1, <2>2 DEF OthersDone
<1>7. ImportsInv(g)'
  BY <1>5, ImportsKept
<1>8. ExportsInv(g)'
  <2>1. \A o : Entry(g, o)' = Entry(g, o)
    BY DEF Entry, Key
  <2>2. exported'[g] = exported[g] \cup {Entry(g, OfferOf(Parts(g)[k]))}
    BY <1>1, <1>3
  <2>3. /\ exported[g] = {Entry(g, OfferOf(Parts(g)[i])) : i \in OthersDone(g)}
        /\ \A i \in OthersDone(g) : OfferOf(Parts(g)[i])[2] \in DOMAIN program[g].decls
    BY <1>3 DEF ExportsInv
  <2>4. OfferOf(Parts(g)[k])[2] \in DOMAIN program[g].decls
    BY <1>1
  <2> HIDE DEF k
  <2>5. exported'[g] = {Entry(g, OfferOf(Parts(g)[i])) : i \in OthersDone(g) \cup {k}}
    BY <2>2, <2>3
  <2> QED BY <1>4, <1>6, <2>1, <2>3, <2>4, <2>5 DEF ExportsInv
<1>9. DOMAIN symbols' = Files /\ DOMAIN links' = Files /\ DOMAIN exported' = Files
  BY <1>3
<1>10. \A f \in Files : f # g => symbols'[f] = symbols[f] /\ links'[f] = links[f] /\ exported'[f] = exported[f]
  BY <1>3
<1> QED
  BY <1>7, <1>8, <1>9, <1>10, CompiledKeeps

\* An export is refused, or adds its key.
LEMMA GenerateExportKeeps == CompileInv /\ GenerateExport => CompileInv'
<1> SUFFICES ASSUME CompileInv, GenerateExport PROVE CompileInv'
  OBVIOUS
<1>1. status = "compiling" /\ ~ AllCompiled /\ Part.kind = "export" /\ program' = program
  BY DEF GenerateExport, Compiles
<1>2. PICK g \in Files : g = Current
  BY <1>1, CurrentPart
<1> DEFINE k == Done(g) + 1
<1> DEFINE X == program[g].exports
<1>3. /\ Done(g) \in Nat /\ k \in 1..Len(Parts(g)) /\ Part = Parts(g)[k]
      /\ ~ (k <= Len(Imports(g))) /\ PartsShape(g)
  BY <1>1, <1>2, CurrentPart
<1>4. PICK j \in DOMAIN X : Item = X[j]
  <2>1. Len(Imports(g)) \in Nat /\ k > Len(Imports(g))
    BY <1>3 DEF PartsShape
  <2>2. \E j \in DOMAIN X : Parts(g)[k].item = X[j]
    BY <1>1, <1>3, <2>1 DEF PartsShape
  <2> QED BY <1>3, <2>2 DEF Item
<1>5. ImportsInv(g) /\ program \in Programs
  BY DEF CompileInv
<1>6. /\ DOMAIN symbols[g] = DOMAIN program[g].decls \cup {Imports(g)[i][2] : i \in ImportsDone(g)}
      /\ \A n \in DOMAIN program[g].decls : symbols[g][n] = program[g].decls[n]
      /\ \A i \in ImportsDone(g) : symbols[g][Imports(g)[i][2]] = "MODULE"
  BY <1>5 DEF ImportsInv
<1>7. \A n \in DOMAIN program[g].decls : program[g].decls[n] \in Kinds
  BY <1>5, FileTypes
<1>8. CASE Item[1] \notin DOMAIN Symbols \/ Symbols[Item[1]] \notin Kinds
  <2>1. Refuse
    BY <1>8 DEF GenerateExport
  <2>2. Item[1] \notin DOMAIN program[g].decls
    BY <1>2, <1>6, <1>7, <1>8 DEF Symbols
  <2>3. Clashes(program[g])
    BY <1>4, <2>2 DEF Clashes
  <2> QED BY <1>1, <2>1, <2>3, RefuseKeeps
<1>9. CASE ~ (Item[1] \notin DOMAIN Symbols \/ Symbols[Item[1]] \notin Kinds)
  <2>1. Export(g, Symbols[Item[1]], Item[1], Item[2]) /\ Compiled /\ UNCHANGED <<symbols, links>>
    BY <1>2, <1>9 DEF GenerateExport
  <2>2. Item[1] \in DOMAIN program[g].decls
    <3>1. "MODULE" \notin Kinds
      BY DEF Kinds
    <3> QED BY <1>2, <1>6, <1>9, <3>1 DEF Symbols
  <2>3. OfferOf(Part) = <<Item[2], Item[1]>>
    BY <1>1 DEF OfferOf, Item
  <2>4. Symbols[Item[1]] = program[g].decls[Item[1]]
    BY <1>2, <1>6, <2>2 DEF Symbols
  <2>5. exported' = [exported EXCEPT ![g] = @ \cup {Entry(g, OfferOf(Part))}]
    BY <2>1, <2>3, <2>4 DEF Export, Entry, Key, ExportKey
  <2>6. OfferOf(Part)[2] \in DOMAIN program[g].decls
    BY <2>2, <2>3
  <2> QED BY <1>1, <1>2, <2>1, <2>5, <2>6, ExportedPart
<1> QED
  BY <1>8, <1>9

\* A marked declaration adds its key.
LEMMA GenerateExportableKeeps == CompileInv /\ GenerateExportable => CompileInv'
<1> SUFFICES ASSUME CompileInv, GenerateExportable PROVE CompileInv'
  OBVIOUS
<1>1. status = "compiling" /\ ~ AllCompiled /\ Part.kind = "marked" /\ program' = program
  BY DEF GenerateExportable, Compiles
<1>2. PICK g \in Files : g = Current
  BY <1>1, CurrentPart
<1> DEFINE k == Done(g) + 1
<1>3. /\ Done(g) \in Nat /\ k \in 1..Len(Parts(g)) /\ Part = Parts(g)[k]
      /\ ~ (k <= Len(Imports(g))) /\ PartsShape(g)
  BY <1>1, <1>2, CurrentPart
<1>4. Item \in program[g].marked
  <2>1. Len(Imports(g)) \in Nat /\ k > Len(Imports(g))
    BY <1>3 DEF PartsShape
  <2>2. Parts(g)[k].item \in program[g].marked
    BY <1>1, <1>3, <2>1 DEF PartsShape
  <2> QED BY <1>3, <2>2 DEF Item
<1>5. ImportsInv(g) /\ program \in Programs
  BY DEF CompileInv
<1>6. Item \in DOMAIN program[g].decls
  BY <1>4, <1>5, FileTypes
<1>7. Symbols[Item] = program[g].decls[Item]
  BY <1>2, <1>5, <1>6 DEF Symbols, ImportsInv
<1>8. OfferOf(Part) = <<Item, Item>>
  BY <1>1 DEF OfferOf, Item
<1>9. exported' = [exported EXCEPT ![g] = @ \cup {Entry(g, OfferOf(Part))}]
  BY <1>2, <1>7, <1>8 DEF GenerateExportable, Export, Entry, Key, ExportKey
<1>10. OfferOf(Part)[2] \in DOMAIN program[g].decls
  BY <1>6, <1>8
<1>11. Compiled /\ UNCHANGED <<symbols, links>>
  BY DEF GenerateExportable
<1> QED
  BY <1>1, <1>2, <1>9, <1>10, <1>11, ExportedPart

\* Nothing else touches what is compiled.
LEMMA OtherStepsKeep ==
    ASSUME CompileInv, UNCHANGED <<program, compiler>>,
           status' = status \/ (AllCompiled /\ status' \in {"running", "done"})
    PROVE  CompileInv'
<1>1. todo' = todo /\ symbols' = symbols /\ exported' = exported /\ links' = links /\ program' = program
  BY DEF compiler
<1>2. ASSUME NEW f \in Files
      PROVE  TodoInv(f)' /\ ImportsInv(f)' /\ ExportsInv(f)'
  <2>1. Parts(f)' = Parts(f) /\ Imports(f)' = Imports(f)
    BY <1>1 DEF Parts, Marked, Imports
  <2>2. Done(f)' = Done(f)
    BY <1>1, <2>1 DEF Done
  <2>3. ImportsDone(f)' = ImportsDone(f) /\ OthersDone(f)' = OthersDone(f)
    BY <2>1, <2>2, DoneSetsKept
  <2>4. TodoInv(f)'
    BY <1>1, <2>1, <2>2 DEF CompileInv, TodoInv
  <2> QED BY <1>1, <2>3, <2>4, ImportsKept, OthersKept
<1> QED
  BY <1>1, <1>2 DEF CompileInv, AllCompiled

\* CompileInv is inductive.
LEMMA CompileInvNext == CompileInv /\ [Next]_vars => CompileInv'
<1> SUFFICES ASSUME CompileInv, [Next]_vars PROVE CompileInv'
  OBVIOUS
<1>1. CASE UNCHANGED vars
  BY <1>1, OtherStepsKeep DEF vars, compiler
<1>2. CASE Link
  BY <1>2, OtherStepsKeep DEF Link
<1>3. CASE RunImport
  BY <1>3, OtherStepsKeep DEF RunImport, Runs
<1>4. CASE AfterInit
  BY <1>4, OtherStepsKeep DEF AfterInit, Runs
<1>5. CASE GetKeys
  BY <1>5, OtherStepsKeep DEF GetKeys, Runs
<1>6. CASE ProcessKey
  BY <1>6, OtherStepsKeep DEF ProcessKey, Runs
<1>7. CASE EndProcessor
  BY <1>7, OtherStepsKeep DEF EndProcessor, Runs
<1>8. CASE EndText
  BY <1>8, OtherStepsKeep DEF EndText, Runs
<1>9. CASE Finish
  <2>1. AllCompiled
    BY <1>9 DEF Finish, CompileInv
  <2> QED BY <1>9, <2>1, OtherStepsKeep DEF Finish
<1> QED
  BY <1>1, <1>2, <1>3, <1>4, <1>5, <1>6, <1>7, <1>8, <1>9,
     GenerateImportKeeps, GenerateExportKeeps, GenerateExportableKeeps DEF Next

\* What is known of a file once all files are compiled.
Translated(f) ==
    /\ links[f] \in Seq(Files)
    /\ Len(links[f]) = Len(Imports(f)) /\ Len(Imports(f)) \in Nat
    /\ \A i \in 1..Len(links[f]) : links[f][i] = Imports(f)[i][1]
    /\ exported[f] = {Entry(f, o) : o \in Offers(program[f])}
    /\ \A o \in Offers(program[f]) : Declared(program[f], o)
    /\ ~ Clashes(program[f])

\* Every file is translated as a whole.
LEMMA AllTranslated ==
    ASSUME CompileInv, AllCompiled, NEW f \in Files
    PROVE  Translated(f)
<1>1. PartsShape(f) /\ TodoInv(f) /\ ImportsInv(f) /\ ExportsInv(f) /\ todo[f] = <<>>
  BY PartsHaveShape DEF CompileInv, AllCompiled
<1>2. /\ Len(Imports(f)) \in Nat /\ Len(Parts(f)) \in Nat /\ Len(Imports(f)) <= Len(Parts(f))
      /\ Parts(f) \in Seq(PartType)
  BY <1>1 DEF PartsShape
<1>3. Done(f) = Len(Parts(f))
  BY <1>1, <1>2 DEF Done
<1>4. ImportsDone(f) = 1..Len(Imports(f))
  BY <1>2, <1>3 DEF ImportsDone
<1>5. OthersDone(f) = {i \in 1..Len(Parts(f)) : Parts(f)[i].kind # "import"}
  BY <1>2, <1>3 DEF OthersDone
<1>6. Imports(f) \in Seq(Files \X Name) /\ Imports(f) = program[f].imports /\ program[f].exports \in Seq(Name \X Name)
  BY FileTypes DEF CompileInv, Imports
<1>7. links[f] \in Seq(Files) /\ Len(links[f]) = Len(Imports(f))
  <2>1. links[f] \in Seq(Files) /\ DOMAIN links[f] = 1..Len(Imports(f))
    BY <1>1, <1>4 DEF ImportsInv
  <2>2. 1..Len(links[f]) = 1..Len(Imports(f)) /\ Len(links[f]) \in Nat
    BY <2>1
  <2> QED BY <1>2, <2>1, <2>2
<1>8. \A i \in 1..Len(links[f]) : links[f][i] = Imports(f)[i][1]
  BY <1>1, <1>4, <1>7 DEF ImportsInv
<1>9. \A i \in OthersDone(f) : OfferOf(Parts(f)[i]) \in Offers(program[f])
  <2> SUFFICES ASSUME NEW i \in OthersDone(f)
               PROVE  OfferOf(Parts(f)[i]) \in Offers(program[f])
    OBVIOUS
  <2>1. i \in 1..Len(Parts(f)) /\ Parts(f)[i].kind # "import"
    BY <1>5
  <2>2. i > Len(Imports(f))
    <3> SUFFICES ASSUME i <= Len(Imports(f)) PROVE FALSE
      BY <1>2, <2>1
    <3>1. i \in 1..Len(Imports(f)) /\ Parts(f)[i] = [kind |-> "import", item |-> Imports(f)[i]]
      BY <1>1, <1>2, <2>1 DEF PartsShape
    <3> QED BY <2>1, <3>1
  <2>3. CASE Parts(f)[i].kind = "export" /\ \E j \in DOMAIN program[f].exports : Parts(f)[i].item = program[f].exports[j]
    BY <2>3 DEF OfferOf, Offers, ToSet
  <2>4. CASE Parts(f)[i].kind = "marked" /\ Parts(f)[i].item \in program[f].marked
    BY <2>4 DEF OfferOf, Offers
  <2> QED BY <1>1, <2>1, <2>2, <2>3, <2>4 DEF PartsShape
<1>10. \A o \in Offers(program[f]) : \E i \in OthersDone(f) : OfferOf(Parts(f)[i]) = o
  <2> SUFFICES ASSUME NEW o \in Offers(program[f])
               PROVE  \E i \in OthersDone(f) : OfferOf(Parts(f)[i]) = o
    OBVIOUS
  <2>1. CASE \E j \in DOMAIN program[f].exports : o = <<program[f].exports[j][2], program[f].exports[j][1]>>
    <3>1. PICK j \in DOMAIN program[f].exports : o = <<program[f].exports[j][2], program[f].exports[j][1]>>
      BY <2>1
    <3>2. PICK i \in 1..Len(Parts(f)) : Parts(f)[i].kind = "export" /\ Parts(f)[i].item = program[f].exports[j]
      BY <1>1 DEF PartsShape
    <3> QED BY <1>5, <3>1, <3>2 DEF OfferOf
  <2>2. CASE \E n \in program[f].marked : o = <<n, n>>
    <3>1. PICK n \in program[f].marked : o = <<n, n>>
      BY <2>2
    <3>2. PICK i \in 1..Len(Parts(f)) : Parts(f)[i].kind = "marked" /\ Parts(f)[i].item = n
      BY <1>1 DEF PartsShape
    <3> QED BY <1>5, <3>1, <3>2 DEF OfferOf
  <2> QED BY <2>1, <2>2 DEF Offers, ToSet
<1>11. exported[f] = {Entry(f, o) : o \in Offers(program[f])}
  <2>1. exported[f] = {Entry(f, OfferOf(Parts(f)[i])) : i \in OthersDone(f)}
    BY <1>1 DEF ExportsInv
  <2> QED BY <1>9, <1>10, <2>1
<1>12. \A o \in Offers(program[f]) : o[2] \in DOMAIN program[f].decls
  BY <1>1, <1>10 DEF ExportsInv
<1>13. ~ Clashes(program[f])
  <2>1. DOMAIN Imports(f) = 1..Len(Imports(f))
    BY <1>2, <1>6
  <2>2. ASSUME NEW i \in DOMAIN Imports(f)
        PROVE  Imports(f)[i][2] \notin DOMAIN program[f].decls /\ \A j \in 1..(i - 1) : Imports(f)[j][2] # Imports(f)[i][2]
    BY <1>1, <1>4, <2>1 DEF ImportsInv
  <2>3. ASSUME NEW i \in DOMAIN program[f].exports
        PROVE  program[f].exports[i][1] \in DOMAIN program[f].decls
    <3>1. <<program[f].exports[i][2], program[f].exports[i][1]>> \in Offers(program[f])
      BY DEF Offers, ToSet
    <3> QED BY <1>12, <3>1
  <2> QED BY <1>6, <2>2, <2>3 DEF Clashes
<1> QED
  BY <1>2, <1>7, <1>8, <1>11, <1>12, <1>13 DEF Translated, Declared

\* A program is refused when one of its files clashes, and only then, for every set
\* of programs (generate_imports, generate_exports).
THEOREM RefusesClashesHolds == Spec => []RefusesClashes
<1>1. CompileInv => RefusesClashes
  BY AllTranslated DEF CompileInv, RefusesClashes, Translated
<1> QED
  BY <1>1, CompileInvInit, CompileInvNext, PTL DEF Spec

-----------------------------------------------------------------------------
(* Maps and ranks.                                                          *)

\* A rank that imports go down.
LEMMA RankFacts ==
    ASSUME program \in Programs
    PROVE  /\ \A f \in Files : Rank[f] \in Nat
           /\ \A f \in Files : \A i \in DOMAIN Imports(f) : Rank[Imports(f)[i][1]] < Rank[f]
<1>1. \E rank \in [Files -> 0..Cardinality(Files)] : Descends(program, rank)
  BY ImportsAssumption DEF Descends
<1>2. Rank \in [Files -> 0..Cardinality(Files)] /\ Descends(program, Rank)
  BY <1>1 DEF Rank
<1>3. Cardinality(Files) \in Nat
  BY FilesAssumption, FS_CardinalityType
<1> QED
  BY <1>2, <1>3 DEF Descends, Imports

\* The keys of the offers of a file, and how they are taken apart.
OfferFacts(m) ==
    \A o \in Offers(program[m]) :
        /\ Key(m, o) \in KeyType
        /\ Key(m, o) # InitKey /\ Key(m, o)[1] # "@"
        /\ Tail(Key(m, o)) = o[1]
        /\ Key(m, o)[1] \in {"c", "e"} <=> program[m].decls[o[2]] \in {"CLASS", "ENUM"}
        /\ o[1] \in Name /\ o[1] # InitKey

\* They are taken apart like that in every file once all are compiled.
LEMMA OffersHaveKeys ==
    ASSUME CompileInv, AllCompiled, NEW m \in Files
    PROVE  OfferFacts(m)
<1>1. program \in Programs /\ \A o \in Offers(program[m]) : Declared(program[m], o)
  BY AllTranslated DEF CompileInv, Translated
<1>2. ASSUME NEW o \in Offers(program[m])
      PROVE  o[1] \in Name /\ program[m].decls[o[2]] \in Kinds
  <2>1. /\ program[m].exports \in Seq(Name \X Name)
        /\ program[m].marked \subseteq DOMAIN program[m].decls
        /\ DOMAIN program[m].decls \subseteq Name
        /\ \A n \in DOMAIN program[m].decls : program[m].decls[n] \in Kinds
    BY <1>1, FileTypes
  <2>2. program[m].decls[o[2]] \in Kinds
    BY <1>1, <2>1 DEF Declared
  <2>3. CASE \E j \in DOMAIN program[m].exports : o = <<program[m].exports[j][2], program[m].exports[j][1]>>
    BY <2>1, <2>2, <2>3
  <2>4. CASE \E n \in program[m].marked : o = <<n, n>>
    BY <2>1, <2>2, <2>4
  <2> QED BY <2>3, <2>4 DEF Offers, ToSet
<1>3. ASSUME NEW o \in Offers(program[m])
      PROVE  /\ Key(m, o) \in KeyType
             /\ Key(m, o) # InitKey /\ Key(m, o)[1] # "@"
             /\ Tail(Key(m, o)) = o[1]
             /\ Key(m, o)[1] \in {"c", "e"} <=> program[m].decls[o[2]] \in {"CLASS", "ENUM"}
  BY <1>2, KeyParts DEF Key, ExportKey
<1>4. ASSUME NEW o \in Offers(program[m])
      PROVE  o[1] # InitKey
  <2> SUFFICES ASSUME o[1] = InitKey PROVE FALSE
    OBVIOUS
  <2>1. InitKey \in Seq(Letters)
    BY <1>2 DEF Name
  <2>2. InitKey[1] \in Letters
    BY <2>1, ElementOfSeq DEF InitKey
  <2> QED BY <2>2, LettersAssumption DEF InitKey
<1> QED
  BY <1>2, <1>3, <1>4 DEF OfferFacts

\* A key that is renamed ends in what it is renamed to.
LEMMA SuffixesShrink ==
    ASSUME NEW S, NEW s \in Seq(S), NEW k \in Suffixes(s), k # <<>>
    PROVE  Tail(k) \in Suffixes(s)
<1>1. Len(s) \in Nat
  OBVIOUS
<1>2. PICK i \in 1..Len(s) : k = SubSeq(s, i, Len(s))
  BY DEF Suffixes
<1>3. k \in Seq(S) /\ Len(k) = Len(s) - i + 1 /\ \A j \in 1..Len(k) : k[j] = s[i + j - 1]
  BY <1>1, <1>2
<1> HIDE DEF Suffixes
<1>4. /\ Tail(k) \in Seq(S) /\ Len(Tail(k)) = Len(k) - 1
      /\ \A j \in 1..(Len(k) - 1) : Tail(k)[j] = k[j + 1]
  BY <1>1, <1>3, HeadTailProperties
<1>5. CASE i = Len(s)
  <2>1. Len(Tail(k)) = 0
    BY <1>1, <1>3, <1>4, <1>5
  <2>2. PICK t \in Seq(S) : t = Tail(k)
    BY <1>4
  <2>3. Tail(k) = <<>>
    BY <2>1, <2>2, EmptySeq
  <2> QED BY <2>3 DEF Suffixes
<1>6. CASE i # Len(s)
  <2> DEFINE t == SubSeq(s, i + 1, Len(s))
  <2>1. i + 1 \in 1..Len(s)
    BY <1>1, <1>6
  <2>2. t \in Seq(S) /\ Len(t) = Len(s) - i /\ \A j \in 1..Len(t) : t[j] = s[i + j]
    BY <1>1, <2>1
  <2>3. t \in Suffixes(s)
    BY <2>1 DEF Suffixes
  <2> HIDE DEF t
  <2>4. Len(Tail(k)) = Len(t) /\ \A j \in 1..Len(t) : Tail(k)[j] = t[j]
    BY <1>1, <1>2, <1>3, <1>4, <2>2
  <2>5. Tail(k) = t
    BY <1>4, <2>2, <2>4, SeqEqual
  <2> QED BY <2>3, <2>5
<1> QED
  BY <1>5, <1>6

\* A sequence ends in itself.
LEMMA SuffixOfItself ==
    ASSUME NEW S, NEW s \in Seq(S)
    PROVE  s \in Suffixes(s)
<1>1. Len(s) \in Nat /\ SubSeq(s, 1, Len(s)) = s
  OBVIOUS
<1>2. CASE s = <<>>
  BY <1>2 DEF Suffixes
<1>3. CASE s # <<>>
  <2>1. Len(s) # 0
    BY <1>1, <1>3
  <2>2. 1 \in 1..Len(s)
    BY <1>1, <2>1
  <2> QED BY <1>1, <2>2 DEF Suffixes
<1> QED
  BY <1>2, <1>3

\* The processor renames one key: it cannot touch a clear offer but by its own key.
LEMMA RenamedKey ==
    ASSUME NEW m, OfferFacts(m), m \in started, NEW map, NEW left,
           Partly(map, m, left), left \subseteq AllKeys(m), NEW key \in left
    PROVE  Partly(IF key[1] = "@" \/ key \notin DOMAIN map THEN map ELSE Renamed(map, key, Tail(key)), m, left \ {key})
<1> DEFINE off == Offers(program[m])
<1> DEFINE clear(o) == Clear(program[m], o)
<1>1. CASE key = InitKey
  <2>1. key[1] = "@"
    BY <1>1 DEF InitKey
  <2>2. \A o \in off : Key(m, o) \in left <=> Key(m, o) \in left \ {key}
    BY <1>1 DEF OfferFacts
  <2>3. \A k, value : k # InitKey /\ Comes(m, left, k, value) => Comes(m, left \ {key}, k, value)
    BY <1>1 DEF Comes
  <2>4. Partly(map, m, left \ {key})
    BY <1>1, <2>2, <2>3 DEF Partly
  <2> QED BY <2>1, <2>4
<1>2. CASE key # InitKey
  <2>1. PICK q \in off : key = Key(m, q)
    BY <1>2 DEF AllKeys
  <2>2. /\ key[1] # "@" /\ Tail(key) = q[1] /\ key \in KeyType /\ q[1] # InitKey
        /\ key[1] \in {"c", "e"} <=> program[m].decls[q[2]] \in {"CLASS", "ENUM"}
    BY <2>1 DEF OfferFacts
  <2>3. /\ InitKey \in DOMAIN map
        /\ \A o \in off : Key(m, o) \in left => Key(m, o) \in DOMAIN map
        /\ \A k \in DOMAIN map \ {InitKey} : k \in left \/ \E o \in off : k = o[1]
        /\ \A k \in DOMAIN map \ {InitKey} : Comes(m, left, k, map[k])
        /\ \A o \in off : clear(o) =>
              IF Key(m, o) \in left THEN map[Key(m, o)] = <<"ref", m, o[2]>>
              ELSE o[1] \in DOMAIN map /\ map[o[1]] = Meant(m, o)
    BY DEF Partly
  <2>4. key \in DOMAIN map
    BY <2>1, <2>3
  <2> DEFINE new == Renamed(map, key, q[1])
  <2> DEFINE value == IF key[1] \in {"c", "e"} THEN Deref(map[key]) ELSE map[key]
  <2>5. DOMAIN new = (DOMAIN map \ {key}) \cup {q[1]}
    BY DEF Renamed
  <2>6. new[q[1]] = value /\ \A k \in DOMAIN new : k # q[1] => new[k] = map[k]
    BY DEF Renamed
  <2>7. clear(q) => value = Meant(m, q)
    <3>1. Deref(<<"ref", m, q[2]>>) = <<"object", m, q[2]>>
      BY DEF Deref
    <3> QED BY <2>1, <2>2, <2>3, <3>1 DEF Meant
  <2>8. ASSUME NEW o \in off, map[key] \in Forms(m, o)
        PROVE  value \in Forms(m, o)
    <3>1. map[key][2] = m /\ map[key][3] = o[2]
      BY <2>8 DEF Forms
    <3>2. Deref(map[key]) = <<"object", m, o[2]>>
      BY <3>1 DEF Deref
    <3> QED BY <2>8, <3>2 DEF Forms
  <2> HIDE DEF new, off, value, clear
  <2>9. InitKey \in DOMAIN new
    BY <1>2, <2>3, <2>5
  <2>10. \A o \in off : Key(m, o) \in left \ {key} => Key(m, o) \in DOMAIN new
    BY <2>3, <2>5
  <2>11. ASSUME NEW k \in DOMAIN new \ {InitKey}
         PROVE  /\ k \in left \ {key} \/ \E o \in off : k = o[1]
                /\ Comes(m, left \ {key}, k, new[k])
    <3>1. CASE k = q[1]
      <4>1. PICK o \in off : /\ map[key] \in Forms(m, o)
                             /\ key \in Suffixes(o[1]) \/ key = Key(m, o)
        BY <1>2, <2>3, <2>4 DEF Comes, off
      <4>2. o[1] \in Name /\ Tail(Key(m, o)) = o[1]
        BY DEF OfferFacts, off
      <4>3. key # <<>>
        <5>1. key = <<Prefix(program[m].decls[q[2]])>> \o q[1]
          BY <2>1 DEF Key, ExportKey, KeyOf
        <5>2. q[1] \in Seq(Letters)
          BY DEF OfferFacts, off, Name
        <5> QED BY <5>1, <5>2
      <4>4. q[1] \in Suffixes(o[1])
        BY <2>2, <4>1, <4>2, <4>3, SuffixesShrink, SuffixOfItself DEF Name
      <4>5. new[k] \in Forms(m, o)
        BY <2>6, <2>8, <3>1, <4>1
      <4> QED BY <3>1, <4>4, <4>5 DEF Comes, off
    <3>2. CASE k # q[1]
      <4>1. k \in DOMAIN map \ {InitKey} /\ k # key /\ new[k] = map[k]
        BY <2>5, <2>6, <3>2
      <4>2. Comes(m, left, k, new[k])
        BY <2>3, <4>1
      <4>3. Comes(m, left \ {key}, k, new[k])
        BY <4>1, <4>2 DEF Comes
      <4> QED BY <2>3, <4>1, <4>3
    <3> QED BY <3>1, <3>2
  <2>12. ASSUME NEW o \in off, clear(o)
         PROVE  IF Key(m, o) \in left \ {key} THEN new[Key(m, o)] = <<"ref", m, o[2]>>
                ELSE o[1] \in DOMAIN new /\ new[o[1]] = Meant(m, o)
    <3>1. o # q => q[1] # o[1] /\ q[1] # Key(m, o) /\ Key(m, q) # o[1]
      BY <2>12 DEF Clear, Key, clear, off
    <3>2. Key(m, o) = key => o = q
      <4>1. Key(m, o) = key => o[1] = q[1]
        BY <2>2 DEF OfferFacts, off
      <4> QED BY <3>1, <4>1
    <3>3. CASE o = q
      BY <2>1, <2>5, <2>6, <2>7, <2>12, <3>3
    <3>4. CASE o # q /\ Key(m, o) \in left
      <4>1. Key(m, o) \in left \ {key} /\ Key(m, o) \in DOMAIN new /\ Key(m, o) # q[1]
        BY <2>10, <3>1, <3>2, <3>4
      <4>2. new[Key(m, o)] = map[Key(m, o)] /\ map[Key(m, o)] = <<"ref", m, o[2]>>
        BY <2>3, <2>6, <2>12, <3>4, <4>1
      <4> QED BY <4>1, <4>2
    <3>5. CASE o # q /\ Key(m, o) \notin left
      <4>1. o[1] \in DOMAIN map /\ map[o[1]] = Meant(m, o)
        BY <2>3, <2>12, <3>5
      <4>2. o[1] \in DOMAIN new /\ new[o[1]] = map[o[1]]
        BY <2>1, <2>5, <2>6, <3>1, <3>5, <4>1
      <4> QED BY <3>5, <4>1, <4>2
    <3> QED BY <3>3, <3>4, <3>5
  <2>13. Partly(new, m, left \ {key})
    BY <2>9, <2>10, <2>11, <2>12 DEF Partly, off, clear
  <2> QED BY <2>2, <2>4, <2>13 DEF new
<1> QED
  BY <1>1, <1>2

\* Every map starts as it is linked.
LEMMA LinkedMap ==
    ASSUME NEW m, OfferFacts(m), exported[m] = {Entry(m, o) : o \in Offers(program[m])}, NEW map,
           DOMAIN map = {e[1] : e \in exported[m]} \cup {InitKey},
           \A k \in DOMAIN map :
               k # InitKey => map[k] = <<"ref", m, (CHOOSE e \in exported[m] : e[1] = k)[2]>>
    PROVE  DOMAIN map = AllKeys(m) /\ Partly(map, m, AllKeys(m))
<1> DEFINE off == Offers(program[m])
<1>1. {e[1] : e \in exported[m]} = {Key(m, o) : o \in off}
  <2>1. \A o \in off : Entry(m, o)[1] = Key(m, o)
    BY DEF Entry
  <2>2. exported[m] = {Entry(m, o) : o \in off}
    OBVIOUS
  <2> QED BY ONLY <2>1, <2>2
<1>2. DOMAIN map = AllKeys(m)
  BY <1>1 DEF AllKeys
<1>3. ASSUME NEW k \in DOMAIN map \ {InitKey}
      PROVE  \E o \in off : k = Key(m, o) /\ map[k] = <<"ref", m, o[2]>>
  <2> DEFINE e == CHOOSE e \in exported[m] : e[1] = k
  <2>1. e \in exported[m] /\ e[1] = k
    BY <1>3
  <2>2. map[k] = <<"ref", m, e[2]>>
    BY <1>3
  <2> HIDE DEF e
  <2>3. PICK o \in off : e = Entry(m, o)
    BY <2>1
  <2>4. k = Key(m, o) /\ e[2] = o[2]
    BY <2>1, <2>3 DEF Entry
  <2> QED BY <2>2, <2>4
<1>4. \A k \in DOMAIN map \ {InitKey} : k \in AllKeys(m) /\ Comes(m, AllKeys(m), k, map[k])
  BY <1>2, <1>3 DEF Comes, Forms
<1>5. \A o \in off : Key(m, o) \in DOMAIN map \ {InitKey} /\ Key(m, o) \in AllKeys(m)
  BY <1>2 DEF AllKeys, OfferFacts
<1>6. ASSUME NEW o \in off, Clear(program[m], o)
      PROVE  map[Key(m, o)] = <<"ref", m, o[2]>>
  <2>1. PICK p \in off : Key(m, o) = Key(m, p) /\ map[Key(m, o)] = <<"ref", m, p[2]>>
    BY <1>3, <1>5
  <2>2. o[1] = p[1]
    <3>1. Tail(Key(m, o)) = o[1] /\ Tail(Key(m, p)) = p[1]
      BY DEF OfferFacts
    <3> QED BY <2>1, <3>1
  <2>3. o = p
    BY <1>6, <2>2 DEF Clear
  <2> QED BY <2>1, <2>3
<1>7. InitKey \in DOMAIN map
  OBVIOUS
<1> QED
  BY <1>2, <1>4, <1>5, <1>6, <1>7 DEF Partly

\* The key of @init tells a map that is as it was linked from a finished one.
LEMMA InitKeyTells ==
    ASSUME NEW m, OfferFacts(m)
    PROVE  /\ Fresh(m) => HasInit(m) /\ DOMAIN maps[m] = AllKeys(m)
           /\ Finished(m) => ~ HasInit(m)
<1>1. ASSUME Fresh(m)
      PROVE  HasInit(m) /\ DOMAIN maps[m] = AllKeys(m)
  BY <1>1 DEF Fresh, HasInit, AllKeys
<1>2. ASSUME Finished(m)
      PROVE  ~ HasInit(m)
  BY <1>2 DEF Finished, FindsOffers, HasInit, OfferFacts
<1> QED
  BY <1>1, <1>2

-----------------------------------------------------------------------------
(* What a step does to the stack.                                           *)

\* The frame on top.
LEMMA TopOfStack ==
    ASSUME frames \in Seq(FrameType), frames # <<>>
    PROVE  /\ Len(frames) \in Nat \ {0}
           /\ Len(frames) \in 1..Len(frames)
           /\ Top = frames[Len(frames)]
           /\ Top \in FrameType
           /\ \A i \in 1..Len(frames) : frames[i] \in FrameType
<1>1. Len(frames) \in Nat \ {0} /\ \A i \in 1..Len(frames) : frames[i] \in FrameType
  BY EmptySeq, ElementOfSeq
<1> QED
  BY <1>1 DEF Top, Last

\* The top is replaced.
LEMMA SetTopShape ==
    ASSUME frames \in Seq(FrameType), frames # <<>>, NEW new \in FrameType, SetTop(new)
    PROVE  /\ frames' \in Seq(FrameType) /\ frames' # <<>>
           /\ Len(frames') = Len(frames)
           /\ frames'[Len(frames)] = new
           /\ Top' = new
           /\ \A i \in 1..(Len(frames) - 1) : frames'[i] = frames[i]
<1> DEFINE n == Len(frames)
<1> DEFINE fr == Front(frames)
<1>1. n \in Nat \ {0} /\ fr \in Seq(FrameType) /\ Len(fr) = n - 1 /\ \A i \in 1..(n - 1) : fr[i] = frames[i]
  BY FrontProperties
<1> HIDE DEF n, fr
<1>2. frames' = Append(fr, new)
  BY DEF SetTop, fr
<1>3. frames' \in Seq(FrameType) /\ Len(frames') = n
  BY <1>1, <1>2, AppendProperties
<1>4. frames'[n] = new /\ \A i \in 1..(n - 1) : frames'[i] = fr[i]
  BY <1>1, <1>2, AppendProperties
<1>5. frames' # <<>>
  BY <1>1, <1>3
<1>6. Top' = new
  BY <1>3, <1>4 DEF Top, Last
<1> QED
  BY <1>1, <1>3, <1>4, <1>5, <1>6 DEF n

\* The top is replaced, and another frame put on it.
LEMMA ReplaceLastByTwo ==
    ASSUME NEW S, NEW s \in Seq(S), s # <<>>, NEW x \in S, NEW y \in S
    PROVE  LET t == Front(s) \o <<x, y>>
           IN  /\ t \in Seq(S)
               /\ Len(t) = Len(s) + 1
               /\ t[Len(s)] = x /\ t[Len(s) + 1] = y
               /\ \A i \in 1..(Len(s) - 1) : t[i] = s[i]
<1> DEFINE t == Front(s) \o <<x, y>>
<1> DEFINE fr == Front(s)
<1> DEFINE two == <<x, y>>
<1>1. Len(s) \in Nat \ {0} /\ fr \in Seq(S) /\ Len(fr) = Len(s) - 1 /\ \A i \in 1..(Len(s) - 1) : fr[i] = s[i]
  BY FrontProperties
<1>2. two \in Seq(S) /\ Len(two) = 2 /\ two[1] = x /\ two[2] = y
  OBVIOUS
<1>3. t = fr \o two
  OBVIOUS
<1> HIDE DEF fr, two, t
<1>4. /\ fr \o two \in Seq(S) /\ Len(fr \o two) = Len(fr) + Len(two)
      /\ \A i \in 1..Len(fr) : (fr \o two)[i] = fr[i]
      /\ \A i \in 1..Len(two) : (fr \o two)[Len(fr) + i] = two[i]
  <2>1. fr \in Seq(S) /\ two \in Seq(S)
    BY <1>1, <1>2
  <2> QED BY ONLY <2>1, ConcatElements
<1>5. Len(t) = Len(s) + 1 /\ \A i \in 1..(Len(s) - 1) : t[i] = s[i]
  BY <1>1, <1>2, <1>3, <1>4
<1>6. t[Len(s)] = x /\ t[Len(s) + 1] = y
  <2>1. Len(fr) + 1 = Len(s) /\ Len(fr) + 2 = Len(s) + 1 /\ 1 \in 1..Len(two) /\ 2 \in 1..Len(two)
    BY <1>1, <1>2
  <2>2. t[Len(fr) + 1] = two[1] /\ t[Len(fr) + 2] = two[2]
    BY <1>3, <1>4, <2>1
  <2> QED BY <1>2, <2>1, <2>2
<1> QED
  BY <1>3, <1>4, <1>5, <1>6 DEF t

\* A frame is entered.
LEMMA EnterShape ==
    ASSUME frames \in Seq(FrameType), frames # <<>>, NEW new \in FrameType, NEW callee \in FrameType, Enter(new, callee)
    PROVE  /\ frames' \in Seq(FrameType) /\ frames' # <<>>
           /\ Len(frames') = Len(frames) + 1
           /\ frames'[Len(frames)] = new
           /\ frames'[Len(frames) + 1] = callee
           /\ Top' = callee
           /\ \A i \in 1..(Len(frames) - 1) : frames'[i] = frames[i]
<1>1. frames' = Front(frames) \o <<new, callee>>
  BY DEF Enter
<1>2. /\ frames' \in Seq(FrameType)
      /\ Len(frames') = Len(frames) + 1
      /\ frames'[Len(frames)] = new /\ frames'[Len(frames) + 1] = callee
      /\ \A i \in 1..(Len(frames) - 1) : frames'[i] = frames[i]
  <2> DEFINE t == Front(frames) \o <<new, callee>>
  <2>1. /\ t \in Seq(FrameType)
        /\ Len(t) = Len(frames) + 1
        /\ t[Len(frames)] = new /\ t[Len(frames) + 1] = callee
        /\ \A i \in 1..(Len(frames) - 1) : t[i] = frames[i]
    BY ReplaceLastByTwo
  <2>2. frames' = t
    BY <1>1
  <2> HIDE DEF t
  <2> QED BY <2>1, <2>2
<1>3. frames' # <<>> /\ Top' = callee
  <2>1. Len(frames) \in Nat
    OBVIOUS
  <2> QED BY <1>2, <2>1 DEF Top, Last
<1> QED
  BY <1>2, <1>3

\* The top is removed.
LEMMA PopShape ==
    ASSUME frames \in Seq(FrameType), frames # <<>>, frames' = Front(frames)
    PROVE  /\ frames' \in Seq(FrameType)
           /\ Len(frames') = Len(frames) - 1
           /\ \A i \in 1..(Len(frames) - 1) : frames'[i] = frames[i]
           /\ frames' # <<>> => Len(frames) - 1 \in 1..Len(frames) /\ Top' = frames[Len(frames) - 1]
<1>1. /\ Len(frames) \in Nat \ {0} /\ frames' \in Seq(FrameType) /\ Len(frames') = Len(frames) - 1
      /\ \A i \in 1..(Len(frames) - 1) : frames'[i] = frames[i]
  BY FrontProperties
<1>2. ASSUME frames' # <<>>
      PROVE  Len(frames) - 1 \in 1..Len(frames) /\ Top' = frames[Len(frames) - 1]
  <2>1. Len(frames') \in Nat \ {0}
    BY <1>1, <1>2, EmptySeq
  <2>2. Len(frames) - 1 \in 1..(Len(frames) - 1)
    BY <1>1, <2>1
  <2>3. Top' = frames'[Len(frames')]
    BY DEF Top, Last
  <2> QED BY <1>1, <2>2, <2>3
<1> QED
  BY <1>1, <1>2

\* The frames below the top stay right while nothing is forgotten.
LEMMA FrameKept ==
    ASSUME NEW i \in 1..Len(frames), i # Len(frames), FrameInv(i), links' = links,
           frames'[i] = frames[i], i # 1 => frames'[i - 1] = frames[i - 1],
           started \subseteq started', \A m \in started : inits[m] = 1 => inits'[m] = 1
    PROVE  FrameInv(i)' /\ IsText(frames[i])
<1>1. IsText(frames[i])
  BY DEF FrameInv, Processes
<1>2. /\ frames[i].at = "link" => frames[i].next - 1 \in 0..Len(links[frames[i].file])
      /\ i = 1 => IsText(frames[i]) /\ frames[i].file = Main
      /\ i # 1 /\ IsText(frames[i]) => frames[i - 1].at = "initialized" /\ frames[i - 1].operand = frames[i].file
  BY DEF FrameInv
<1>3. frames[i].at = "initialized" => Awaits(frames[i])'
  BY DEF FrameInv, Awaits, MayLink, Target
<1>4. IsText(frames[i])' /\ (~ IsText(frames'[i]) => Processes(i)')
  BY <1>1 DEF IsText
<1> QED
  BY <1>1, <1>2, <1>3, <1>4 DEF FrameInv, IsText

\* The frame on top is a text of a lower rank than the others.
LEMMA TopRank ==
    ASSUME StackInv, RankInv, frames # <<>>, IsText(Top), NEW i \in 1..Len(frames), \A f \in Files : Rank[f] \in Nat
    PROVE  Rank[Top.file] <= Rank[frames[i].file]
<1>1. frames \in Seq(FrameType)
  BY DEF StackInv
<1>2. /\ Len(frames) \in Nat \ {0} /\ Len(frames) \in 1..Len(frames) /\ Top = frames[Len(frames)]
      /\ Top.file \in Files /\ frames[i].file \in Files
  BY <1>1, TopOfStack DEF FrameType
<1>3. CASE i = Len(frames)
  BY <1>2, <1>3
<1>4. CASE i # Len(frames)
  <2>1. i < Len(frames)
    BY <1>2, <1>4
  <2>2. Rank[Top.file] < Rank[frames[i].file]
    BY <1>2, <2>1 DEF RankInv
  <2> QED BY <1>2, <2>2
<1> QED
  BY <1>3, <1>4

-----------------------------------------------------------------------------
(* Running keeps RunInv.                                                    *)

\* What every step of the running program may rely on.
LinkFacts ==
    \A f \in Files : \A n \in 1..Len(links[f]) : links[f][n] \in Files /\ Rank[links[f][n]] < Rank[f]

\* They hold while the program runs.
LEMMA RunningFacts ==
    ASSUME CompileInv, RunInv, status = "running"
    PROVE  /\ RunningInv
           /\ \A m \in Files : OfferFacts(m)
           /\ \A f \in Files : Rank[f] \in Nat
           /\ LinkFacts
           /\ frames \in Seq(FrameType)
           /\ \A i \in 1..Len(frames) : FrameInv(i)
<1>1. AllCompiled /\ program \in Programs
  BY DEF CompileInv
<1>2. RunningInv
  BY DEF RunInv
<1>3. \A f \in Files : Rank[f] \in Nat
  BY <1>1, RankFacts
<1>4. ASSUME NEW f \in Files, NEW n \in 1..Len(links[f])
      PROVE  links[f][n] \in Files /\ Rank[links[f][n]] < Rank[f]
  <2>1. /\ links[f] \in Seq(Files) /\ Len(links[f]) = Len(Imports(f)) /\ links[f][n] = Imports(f)[n][1]
    BY <1>1, AllTranslated DEF Translated
  <2>2. Imports(f) \in Seq(Files \X Name)
    BY <1>1, FileTypes
  <2>3. n \in DOMAIN Imports(f)
    BY <2>1, <2>2
  <2> QED BY <1>1, <2>1, <2>3, RankFacts, ElementOfSeq
<1> QED
  BY <1>1, <1>2, <1>3, <1>4, OffersHaveKeys DEF LinkFacts, RunningInv, StackInv

\* What depends on the program alone, and on one map.
LEMMA MapKept ==
    ASSUME program' = program, NEW m
    PROVE  /\ Rank' = Rank
           /\ AllKeys(m)' = AllKeys(m)
           /\ \A map, left : Partly(map, m, left)' <=> Partly(map, m, left)
           /\ maps'[m] = maps[m] => (Fresh(m)' <=> Fresh(m)) /\ (Finished(m)' <=> Finished(m))
<1>1. Rank' = Rank
  BY DEF Rank
<1>2. \A o : Key(m, o)' = Key(m, o)
  BY DEF Key
<1>3. AllKeys(m)' = AllKeys(m)
  BY <1>2 DEF AllKeys
<1>4. \A map, left : Partly(map, m, left)' <=> Partly(map, m, left)
  BY DEF Partly, Comes, Forms, Key, Meant
<1>5. ASSUME maps'[m] = maps[m]
      PROVE  (Fresh(m)' <=> Fresh(m)) /\ (Finished(m)' <=> Finished(m))
  <2>1. Fresh(m)' <=> Fresh(m)
    BY <1>3, <1>4, <1>5 DEF Fresh
  <2>2. Finished(m)' <=> Finished(m)
    BY <1>5 DEF Finished, FindsClearOffers, FindsOffers, Meant
  <2> QED BY <2>1, <2>2
<1> QED
  BY <1>1, <1>3, <1>4, <1>5

\* The stack before a step.
LEMMA BeforeStep ==
    ASSUME CompileInv, RunInv, status = "running", frames # <<>>, NEW n, n = Len(frames)
    PROVE  /\ n \in Nat \ {0}
           /\ Top = frames[n] /\ Top \in FrameType
           /\ FrameInv(n)
           /\ \A i \in 1..n : frames[i] \in FrameType
           /\ \A i \in 1..(n - 1) : IsText(frames[i])
           /\ \A i \in 1..n : ImportedBy(frames[i]) \subseteq Files
           /\ \A m \in ImportedBy(Top) : Passed(m)
<1>1. frames \in Seq(FrameType) /\ (\A i \in 1..n : FrameInv(i)) /\ LinkFacts /\ PassedInv
  BY RunningFacts DEF RunningInv
<1>2. n \in Nat \ {0} /\ Top = frames[n] /\ Top \in FrameType /\ n \in 1..n /\ \A i \in 1..n : frames[i] \in FrameType
  BY <1>1, TopOfStack
<1>3. ASSUME NEW i \in 1..(n - 1)
      PROVE  IsText(frames[i])
  <2>1. i \in 1..n /\ i # n
    BY <1>2
  <2>2. FrameInv(i)
    BY <1>1, <2>1
  <2> QED BY <2>1, <2>2 DEF FrameInv, Processes
<1>4. ASSUME NEW i \in 1..n, NEW m \in ImportedBy(frames[i])
      PROVE  m \in Files
  <2>1. PICK j \in 1..(frames[i].next - 1) : m = links[frames[i].file][j]
    BY DEF ImportedBy
  <2>2. frames[i] \in FrameType /\ frames[i].next \in Nat /\ frames[i].file \in Files
    BY <1>2 DEF FrameType
  <2>3. FrameInv(i)
    BY <1>1
  <2> DEFINE len == Len(links[frames[i].file])
  <2>4. \/ frames[i].next - 1 \in 0..len
        \/ frames[i].next \in 1..len
        \/ frames[i].next = 1
    BY <1>2, <2>2, <2>3 DEF FrameInv, Awaits, MayLink, Processes, IsText
  <2>5. Len(links[frames[i].file]) \in Nat
    <3>1. AllCompiled
      BY DEF CompileInv
    <3> QED BY <2>2, <3>1, AllTranslated DEF Translated
  <2>6. j \in 1..len
    BY <2>1, <2>2, <2>4, <2>5
  <2> QED BY <1>1, <2>1, <2>2, <2>6 DEF LinkFacts
<1>5. \A m \in ImportedBy(Top) : Passed(m)
  BY <1>1, <1>2 DEF PassedInv
<1> QED
  BY <1>1, <1>2, <1>3, <1>4, <1>5

\* A step keeps RunInv when it leaves the frames below the top alone, is right about
\* the top and what it puts on it, and about the modules that have been passed.
LEMMA AfterStep ==
    ASSUME CompileInv, RunInv, status = "running", status' = status, program' = program, links' = links,
           frames # <<>>, NEW n, n = Len(frames),
           DOMAIN maps' = Files, DOMAIN inits' = Files, started' \subseteq Files, r0' \in Files,
           started \subseteq started', \A m \in started : inits[m] = 1 => inits'[m] = 1,
           frames' \in Seq(FrameType), Len(frames') \in {n - 1, n, n + 1},
           \A i \in 1..(n - 1) : frames'[i] = frames[i],
           Len(frames') # n - 1 =>
               /\ FrameInv(n)'
               /\ frames'[n].file = Top.file
               /\ IsText(frames'[n]) => IsText(Top)
               /\ \A m \in ImportedBy(frames'[n]) : m \in ImportedBy(Top) \/ Passed(m)',
           Len(frames') = n + 1 =>
               /\ FrameInv(n + 1)'
               /\ frames'[n + 1].next = 1
               /\ IsText(frames'[n + 1]) => IsText(Top) /\ Rank[frames'[n + 1].file] < Rank[Top.file],
           \A m \in Files : Passed(m) => Passed(m)',
           \A m \in Files : MapInv(m)'
    PROVE  RunInv'
<1>1. /\ n \in Nat \ {0}
      /\ Top = frames[n] /\ Top \in FrameType
      /\ \A i \in 1..n : frames[i] \in FrameType
      /\ \A i \in 1..(n - 1) : IsText(frames[i])
      /\ \A i \in 1..n : ImportedBy(frames[i]) \subseteq Files
      /\ \A m \in ImportedBy(Top) : Passed(m)
  BY BeforeStep
<1>2. StackInv /\ RankInv /\ PassedInv /\ (\A i \in 1..n : FrameInv(i)) /\ (\A f \in Files : Rank[f] \in Nat)
  BY RunningFacts DEF RunningInv
<1>3. \A i \in 1..(n - 1) : frames'[i] = frames[i]
  OBVIOUS
<1>4. ASSUME NEW i \in 1..(n - 1)
      PROVE  FrameInv(i)'
  <2>1. i \in 1..n /\ i # n /\ (i # 1 => i - 1 \in 1..(n - 1))
    BY <1>1
  <2>2. FrameInv(i) /\ frames'[i] = frames[i] /\ (i # 1 => frames'[i - 1] = frames[i - 1])
    BY <1>2, <1>3, <2>1
  <2> QED BY <2>1, <2>2, FrameKept
<1>5. ASSUME NEW i \in 1..Len(frames')
      PROVE  /\ i \in 1..(n - 1) \/ (i = n /\ Len(frames') # n - 1) \/ (i = n + 1 /\ Len(frames') = n + 1)
  BY <1>1
<1>6. StackInv'
  BY <1>4, <1>5 DEF StackInv
<1>7. RankInv'
  <2>1. Rank' = Rank
    BY MapKept
  <2> SUFFICES ASSUME NEW i \in 1..Len(frames'), NEW j \in 1..Len(frames'), i < j, IsText(frames'[j])
               PROVE  Rank[frames'[j].file] < Rank[frames'[i].file]
    BY <2>1 DEF RankInv, IsText
  <2>2. i \in 1..n /\ frames'[i].file = frames[i].file
    BY <1>1, <1>3, <1>5
  <2>3. ASSUME j \in 1..n, IsText(frames[j]), frames'[j].file = frames[j].file
        PROVE  Rank[frames'[j].file] < Rank[frames'[i].file]
    <3>1. Rank[frames[j].file] < Rank[frames[i].file]
      BY <1>2, <2>2, <2>3 DEF RankInv
    <3> QED BY <2>2, <2>3, <3>1
  <2>4. CASE j \in 1..(n - 1)
    <3>1. j \in 1..n /\ IsText(frames[j]) /\ frames'[j].file = frames[j].file
      BY <1>1, <1>3, <2>4
    <3> QED BY <2>3, <3>1
  <2>5. CASE j = n /\ Len(frames') # n - 1
    <3>1. j \in 1..n /\ IsText(frames[j]) /\ frames'[j].file = frames[j].file
      BY <1>1, <2>5
    <3> QED BY <2>3, <3>1
  <2>6. CASE j = n + 1 /\ Len(frames') = n + 1
    <3>1. IsText(Top) /\ Rank[frames'[j].file] < Rank[Top.file]
      BY <2>6
    <3>2. Rank[Top.file] <= Rank[frames[i].file]
      BY <1>2, <2>2, <3>1, TopRank
    <3>3. frames'[j].file \in Files /\ Top.file \in Files /\ frames[i].file \in Files
      <4>1. frames'[j] \in FrameType
        BY ElementOfSeq
      <4> QED BY <1>1, <2>2, <4>1 DEF FrameType
    <3>4. /\ Rank[frames'[j].file] \in Nat /\ Rank[Top.file] \in Nat /\ Rank[frames[i].file] \in Nat
          /\ frames'[i].file = frames[i].file
      BY <1>2, <2>2, <3>3
    <3> QED BY ONLY <3>1, <3>2, <3>4
  <2>7. j \in 1..(n - 1) \/ (j = n /\ Len(frames') # n - 1) \/ (j = n + 1 /\ Len(frames') = n + 1)
    BY <1>5
  <2> QED BY <2>4, <2>5, <2>6, <2>7
<1>8. PassedInv'
  <2>1. \A frame : ImportedBy(frame)' = ImportedBy(frame)
    BY DEF ImportedBy
  <2>2. ASSUME NEW i \in 1..Len(frames'), NEW m \in ImportedBy(frames'[i])
        PROVE  Passed(m)'
    <3>1. CASE i \in 1..(n - 1)
      <4>1. i \in 1..n /\ m \in ImportedBy(frames[i])
        BY <1>1, <1>3, <2>2, <3>1
      <4> QED BY <1>1, <1>2, <4>1 DEF PassedInv
    <3>2. CASE i = n /\ Len(frames') # n - 1
      <4>1. m \in ImportedBy(Top) \/ Passed(m)'
        BY <2>2, <3>2
      <4>2. ImportedBy(Top) \subseteq Files
        BY <1>1
      <4> QED BY <1>1, <4>1, <4>2
    <3>3. CASE i = n + 1 /\ Len(frames') = n + 1
      <4>1. frames'[i].next = 1
        BY <3>3
      <4>2. ImportedBy(frames'[i]) = {}
        BY <4>1 DEF ImportedBy
      <4> QED BY <2>2, <4>2
    <3> QED BY <1>5, <3>1, <3>2, <3>3
  <2> QED BY <2>1, <2>2 DEF PassedInv, ImportedBy
<1>9. \A m \in Files : MapInv(m)'
  OBVIOUS
<1> QED
  BY <1>6, <1>7, <1>8, <1>9 DEF RunInv, RunningInv

\* The keys that are left of the map in the register after a step.
LEMMA KeysLeftNext ==
    ASSUME program' = program, NEW i, NEW m, NEW left, r0' = m, Partly(maps'[m], m, left), left \subseteq AllKeys(m),
           frames'[i].left = left
    PROVE  KeysLeft(i)'
<1>1. Partly(maps[r0], r0, frames[i].left)'
  BY DEF Partly, Comes, Forms, Key, Meant
<1>2. (frames[i].left \subseteq AllKeys(r0))'
  BY DEF AllKeys, Key
<1> QED
  BY <1>1, <1>2 DEF KeysLeft

\* The processor takes the keys of a map that is as it was linked.
LEMMA GetKeysKeeps == CompileInv /\ RunInv /\ GetKeys => RunInv'
<1> SUFFICES ASSUME CompileInv, RunInv, GetKeys PROVE RunInv'
  OBVIOUS
<1>1. /\ status = "running" /\ status' = status /\ frames # <<>> /\ Top.at = "getkeys"
      /\ program' = program /\ links' = links
      /\ maps' = maps /\ started' = started /\ inits' = inits /\ r0' = r0
  BY DEF GetKeys, Runs, compiler
<1>2. PICK n : n = Len(frames)
  OBVIOUS
<1> DEFINE new == [Top EXCEPT !.at = "keys", !.left = DOMAIN maps[r0]]
<1>3. /\ RunningInv
      /\ \A m \in Files : OfferFacts(m)
      /\ frames \in Seq(FrameType)
  BY <1>1, RunningFacts
<1>4. /\ n \in Nat \ {0} /\ Top = frames[n] /\ Top \in FrameType /\ FrameInv(n)
      /\ \A i \in 1..(n - 1) : IsText(frames[i])
  BY <1>1, <1>2, BeforeStep
<1>5. r0 \in Files /\ DOMAIN maps = Files /\ DOMAIN inits = Files /\ started \subseteq Files
  BY DEF RunInv
<1>6. ~ IsText(Top) /\ Processes(n) /\ n # 1
  BY <1>1, <1>4 DEF IsText, FrameInv, Processes
<1>7. PICK r \in Files : r = r0
  BY <1>5
<1>8. Fresh(r) /\ DOMAIN maps[r] = AllKeys(r)
  BY <1>1, <1>3, <1>4, <1>6, <1>7, InitKeyTells DEF Processes, Untouched
<1>9. AllKeys(r) \subseteq KeyType
  <2>1. InitKey \in KeyType
    BY DEF InitKey, KeyType, KeyLetters
  <2> QED BY <1>3, <2>1 DEF AllKeys, OfferFacts
<1>10. /\ new \in FrameType /\ new.file = Top.file /\ new.next = Top.next
      /\ new.at = "keys" /\ new.left = AllKeys(r) /\ ~ IsText(new)
  BY <1>4, <1>8, <1>9, <1>7 DEF FrameType, IsText
<1>11. SetTop(new)
  BY DEF GetKeys
<1> HIDE DEF new
<1>12. /\ frames' \in Seq(FrameType) /\ frames' # <<>>
       /\ Len(frames') = n
       /\ frames'[n] = new
       /\ Top' = new
       /\ \A i \in 1..(n - 1) : frames'[i] = frames[i]
  BY <1>1, <1>2, <1>3, <1>10, <1>11, SetTopShape
<1>13. FrameInv(n)'
  <2>1. frames'[n - 1] = frames[n - 1]
    BY <1>4, <1>6, <1>12
  <2>2. KeysLeft(n)'
    BY <1>1, <1>8, <1>10, <1>12, <1>7, KeysLeftNext DEF Fresh
  <2>3. Processes(n)'
    BY <1>1, <1>4, <1>6, <1>10, <1>12, <2>1, <2>2 DEF Processes, MayLink
  <2> QED BY <1>6, <1>10, <1>12, <2>3 DEF FrameInv, IsText
<1>14. Processing /\ Processing'
  BY <1>1, <1>6, <1>10, <1>12 DEF Processing, IsText
<1>15. ASSUME NEW m \in Files
       PROVE  (Passed(m) => Passed(m)') /\ MapInv(m)'
  <2>1. (Fresh(m)' <=> Fresh(m)) /\ (Finished(m)' <=> Finished(m))
    BY <1>1, MapKept
  <2>2. ASSUME HasText(m)
        PROVE  HasText(m)'
    <3>1. PICK i \in 1..n : IsText(frames[i]) /\ frames[i].file = m
      BY <1>2, <2>2 DEF HasText
    <3>2. i \in 1..(n - 1) /\ i \in 1..Len(frames')
      BY <1>4, <1>6, <1>12, <3>1
    <3> QED BY <1>12, <3>1, <3>2 DEF HasText, IsText
  <2>3. Busy(m) => Busy(m)'
    BY <1>1, <2>2 DEF Busy
  <2>4. MapInv(m)
    BY <1>3 DEF RunningInv
  <2> QED BY <1>1, <1>14, <2>1, <2>3, <2>4 DEF Passed, MapInv
<1>16. \A m \in ImportedBy(new) : m \in ImportedBy(Top)
  BY <1>10 DEF ImportedBy
<1>17. n # n - 1 /\ n # n + 1
  BY <1>4
<1> QED
  BY <1>1, <1>2, <1>5, <1>10, <1>12, <1>13, <1>15, <1>16, <1>17, AfterStep

\* It replaces one key.
LEMMA ProcessKeyKeeps == CompileInv /\ RunInv /\ ProcessKey => RunInv'
<1> SUFFICES ASSUME CompileInv, RunInv, ProcessKey PROVE RunInv'
  OBVIOUS
<1>1. /\ status = "running" /\ status' = status /\ frames # <<>> /\ Top.at = "keys"
      /\ program' = program /\ links' = links
      /\ started' = started /\ inits' = inits /\ r0' = r0
  BY DEF ProcessKey, Runs, compiler
<1>2. PICK n : n = Len(frames)
  OBVIOUS
<1>3. /\ RunningInv
      /\ \A m \in Files : OfferFacts(m)
      /\ frames \in Seq(FrameType)
  BY <1>1, RunningFacts
<1>4. /\ n \in Nat \ {0} /\ Top = frames[n] /\ Top \in FrameType /\ FrameInv(n)
      /\ \A i \in 1..(n - 1) : IsText(frames[i])
  BY <1>1, <1>2, BeforeStep
<1>5. DOMAIN maps = Files /\ DOMAIN inits = Files /\ started \subseteq Files
  BY DEF RunInv
<1>6. PICK r \in Files : r = r0
  BY DEF RunInv
<1>7. ~ IsText(Top) /\ Processes(n) /\ n # 1
  BY <1>1, <1>4 DEF IsText, FrameInv, Processes
<1>8. Partly(maps[r], r, Top.left) /\ Top.left \subseteq AllKeys(r) /\ r \in started /\ inits[r] = 1
  BY <1>1, <1>4, <1>6, <1>7 DEF Processes, KeysLeft
<1>9. PICK key \in Top.left :
         /\ SetTop([Top EXCEPT !.left = @ \ {key}])
         /\ maps' = IF key[1] = "@" \/ key \notin DOMAIN maps[r] THEN maps
                    ELSE [maps EXCEPT ![r] = Renamed(@, key, Tail(key))]
  BY <1>6 DEF ProcessKey
<1> DEFINE new == [Top EXCEPT !.left = @ \ {key}]
<1>10. /\ new \in FrameType /\ new.file = Top.file /\ new.next = Top.next
       /\ new.at = "keys" /\ new.left = Top.left \ {key} /\ ~ IsText(new)
  BY <1>1, <1>4 DEF FrameType, IsText
<1> HIDE DEF new
<1>11. /\ frames' \in Seq(FrameType) /\ frames' # <<>>
       /\ Len(frames') = n
       /\ frames'[n] = new
       /\ Top' = new
       /\ \A i \in 1..(n - 1) : frames'[i] = frames[i]
  BY <1>1, <1>2, <1>3, <1>9, <1>10, SetTopShape DEF new
<1>12. /\ DOMAIN maps' = Files
       /\ \A m \in Files : m # r => maps'[m] = maps[m]
       /\ maps'[r] = IF key[1] = "@" \/ key \notin DOMAIN maps[r] THEN maps[r]
                     ELSE Renamed(maps[r], key, Tail(key))
  BY <1>5, <1>9
<1>13. Partly(maps'[r], r, Top.left \ {key})
  <2> DEFINE map == maps[r]
  <2> DEFINE left == Top.left
  <2>1. OfferFacts(r) /\ r \in started /\ Partly(map, r, left) /\ left \subseteq AllKeys(r) /\ key \in left
    BY <1>3, <1>8
  <2>2. maps'[r] = IF key[1] = "@" \/ key \notin DOMAIN map THEN map ELSE Renamed(map, key, Tail(key))
    BY <1>12
  <2> HIDE DEF map, left
  <2>3. Partly(IF key[1] = "@" \/ key \notin DOMAIN map THEN map ELSE Renamed(map, key, Tail(key)), r, left \ {key})
    BY <2>1, RenamedKey
  <2>4. Partly(maps'[r], r, left \ {key})
    BY <2>2, <2>3
  <2> QED BY <2>4 DEF left
<1>14. FrameInv(n)'
  <2>1. frames'[n - 1] = frames[n - 1]
    BY <1>4, <1>7, <1>11
  <2>2. Top.left \ {key} \subseteq AllKeys(r) /\ frames'[n].left = Top.left \ {key}
    BY <1>8, <1>10, <1>11
  <2>3. KeysLeft(n)'
    BY <1>1, <1>6, <1>13, <2>2, KeysLeftNext
  <2>4. Processes(n)'
    BY <1>1, <1>4, <1>7, <1>10, <1>11, <2>1, <2>3 DEF Processes, MayLink
  <2> QED BY <1>7, <1>10, <1>11, <2>4 DEF FrameInv, IsText
<1>15. Processing /\ Processing'
  BY <1>1, <1>7, <1>10, <1>11 DEF Processing, IsText
<1>16. ASSUME NEW m \in Files
       PROVE  (Passed(m) => Passed(m)') /\ MapInv(m)'
  <2>1. CASE m = r
    BY <1>1, <1>6, <1>8, <1>15, <2>1 DEF Passed, MapInv
  <2>2. CASE m # r
    <3>1. (Fresh(m)' <=> Fresh(m)) /\ (Finished(m)' <=> Finished(m))
      BY <1>1, <1>12, <2>2, MapKept
    <3>2. ASSUME HasText(m)
          PROVE  HasText(m)'
      <4>1. PICK i \in 1..n : IsText(frames[i]) /\ frames[i].file = m
        BY <1>2, <3>2 DEF HasText
      <4>2. i \in 1..(n - 1) /\ i \in 1..Len(frames')
        BY <1>4, <1>7, <1>11, <4>1
      <4> QED BY <1>11, <4>1, <4>2 DEF HasText, IsText
    <3>3. Busy(m) => Busy(m)'
      BY <1>1, <3>2 DEF Busy
    <3>4. MapInv(m)
      BY <1>3 DEF RunningInv
    <3> QED BY <1>1, <1>6, <2>2, <3>1, <3>3, <3>4 DEF Passed, MapInv
  <2> QED BY <2>1, <2>2
<1>17. \A m \in ImportedBy(new) : m \in ImportedBy(Top)
  BY <1>10 DEF ImportedBy
<1>18. n # n - 1 /\ n # n + 1
  BY <1>4
<1> QED
  BY <1>1, <1>2, <1>5, <1>6, <1>10, <1>11, <1>12, <1>14, <1>16, <1>17, <1>18, AfterStep

\* The map is finished when no key is left.
LEMMA EndProcessorKeeps == CompileInv /\ RunInv /\ EndProcessor => RunInv'
<1> SUFFICES ASSUME CompileInv, RunInv, EndProcessor PROVE RunInv'
  OBVIOUS
<1>1. /\ status = "running" /\ status' = status /\ frames # <<>> /\ Top.at = "keys" /\ Top.left = {}
      /\ program' = program /\ links' = links
      /\ started' = started /\ inits' = inits /\ r0' = r0 /\ frames' = Front(frames)
  BY DEF EndProcessor, Runs, compiler
<1>2. PICK n : n = Len(frames)
  OBVIOUS
<1>3. /\ RunningInv
      /\ \A m \in Files : OfferFacts(m)
      /\ frames \in Seq(FrameType)
  BY <1>1, RunningFacts
<1>4. /\ n \in Nat \ {0} /\ Top = frames[n] /\ Top \in FrameType /\ FrameInv(n)
      /\ \A i \in 1..(n - 1) : IsText(frames[i])
  BY <1>1, <1>2, BeforeStep
<1>5. DOMAIN maps = Files /\ DOMAIN inits = Files /\ started \subseteq Files
  BY DEF RunInv
<1>6. PICK r \in Files : r = r0
  BY DEF RunInv
<1>7. ~ IsText(Top) /\ Processes(n) /\ n # 1
  BY <1>1, <1>4 DEF IsText, FrameInv, Processes
<1>8. Partly(maps[r], r, {}) /\ inits[r] = 1
  BY <1>1, <1>4, <1>6, <1>7 DEF Processes, KeysLeft
<1>9. /\ frames' \in Seq(FrameType) /\ Len(frames') = n - 1
      /\ \A i \in 1..(n - 1) : frames'[i] = frames[i]
  BY <1>1, <1>2, <1>3, PopShape
<1>10. /\ DOMAIN maps' = Files
       /\ \A m \in Files : m # r => maps'[m] = maps[m]
       /\ maps'[r] = [k \in DOMAIN maps[r] \ {InitKey} |-> maps[r][k]]
  BY <1>5, <1>6 DEF EndProcessor
<1>11. Finished(r)'
  <2> DEFINE off == Offers(program[r])
  <2>1. /\ \A k \in DOMAIN maps[r] \ {InitKey} : (\E o \in off : k = o[1]) /\ Comes(r, {}, k, maps[r][k])
        /\ \A o \in off : Clear(program[r], o) => o[1] \in DOMAIN maps[r] /\ maps[r][o[1]] = Meant(r, o)
    BY <1>8 DEF Partly
  <2>2. \A o \in off : o[1] # InitKey
    BY <1>3 DEF OfferFacts
  <2>3. DOMAIN maps'[r] = DOMAIN maps[r] \ {InitKey} /\ \A k \in DOMAIN maps'[r] : maps'[r][k] = maps[r][k]
    BY <1>10
  <2>4. FindsOffers(r)'
    BY <1>1, <2>1, <2>3 DEF FindsOffers, Comes, Forms
  <2>5. FindsClearOffers(r)'
    BY <1>1, <2>1, <2>2, <2>3 DEF FindsClearOffers, Meant
  <2> QED BY <2>4, <2>5 DEF Finished
<1>12. ASSUME NEW m \in Files
       PROVE  (Passed(m) => Passed(m)') /\ MapInv(m)'
  <2>1. CASE m = r
    BY <1>1, <1>6, <1>8, <1>11, <2>1 DEF Passed, MapInv
  <2>2. CASE m # r
    <3>1. (Fresh(m)' <=> Fresh(m)) /\ (Finished(m)' <=> Finished(m))
      BY <1>1, <1>10, <2>2, MapKept
    <3>2. ASSUME HasText(m)
          PROVE  HasText(m)'
      <4>1. PICK i \in 1..n : IsText(frames[i]) /\ frames[i].file = m
        BY <1>2, <3>2 DEF HasText
      <4>2. i \in 1..(n - 1)
        BY <1>4, <1>7, <4>1
      <4> QED BY <1>9, <4>1, <4>2 DEF HasText, IsText
    <3>3. Busy(m) => Busy(m)'
      BY <1>1, <3>2 DEF Busy
    <3>4. MapInv(m)
      BY <1>3 DEF RunningInv
    <3> QED BY <1>1, <1>6, <2>2, <3>1, <3>3, <3>4 DEF Passed, MapInv
  <2> QED BY <2>1, <2>2
<1>13. n - 1 # n + 1
  BY <1>4
<1> QED
  BY <1>1, <1>2, <1>5, <1>6, <1>9, <1>10, <1>12, <1>13, AfterStep

\* A text returns to the one that awaits it, which has its map still to be taken apart.
LEMMA EndTextKeeps == CompileInv /\ RunInv /\ EndText => RunInv'
<1> SUFFICES ASSUME CompileInv, RunInv, EndText PROVE RunInv'
  OBVIOUS
<1>1. /\ status = "running" /\ status' = status /\ frames # <<>> /\ Top.at = "link"
      /\ program' = program /\ links' = links /\ maps' = maps
      /\ started' = started /\ inits' = inits /\ r0' = r0 /\ frames' = Front(frames)
  BY DEF EndText, Runs, compiler
<1>2. PICK n : n = Len(frames)
  OBVIOUS
<1>3. RunningInv /\ frames \in Seq(FrameType)
  BY <1>1, RunningFacts
<1>4. /\ n \in Nat \ {0} /\ Top = frames[n] /\ Top \in FrameType /\ FrameInv(n)
      /\ \A i \in 1..(n - 1) : IsText(frames[i])
  BY <1>1, <1>2, BeforeStep
<1>5. DOMAIN maps = Files /\ DOMAIN inits = Files /\ started \subseteq Files /\ r0 \in Files
  BY DEF RunInv
<1>6. /\ frames' \in Seq(FrameType) /\ Len(frames') = n - 1
      /\ \A i \in 1..(n - 1) : frames'[i] = frames[i]
      /\ frames' # <<>> => n - 1 \in 1..n /\ Top' = frames[n - 1]
  BY <1>1, <1>2, <1>3, PopShape
<1>7. IsText(Top) /\ ~ Processing
  BY <1>1 DEF IsText, Processing
<1>8. ASSUME NEW m \in Files
      PROVE  (Passed(m) => Passed(m)') /\ MapInv(m)'
  <2>1. (Fresh(m)' <=> Fresh(m)) /\ (Finished(m)' <=> Finished(m))
    BY <1>1, MapKept
  <2>2. ASSUME HasText(m)
        PROVE  Busy(m)'
    <3>1. PICK i \in 1..n : IsText(frames[i]) /\ frames[i].file = m
      BY <1>2, <2>2 DEF HasText
    <3>2. CASE i = n /\ n = 1
      BY <1>4, <3>1, <3>2 DEF FrameInv, Busy
    <3>3. CASE i = n /\ n # 1
      <4>1. frames[n - 1].at = "initialized" /\ frames[n - 1].operand = m
        BY <1>4, <1>7, <3>1, <3>3 DEF FrameInv
      <4>2. frames' # <<>> /\ Top' = frames[n - 1]
        <5>1. Len(frames') # 0
          BY <1>4, <1>6, <3>3
        <5>2. frames' # <<>>
          BY <5>1
        <5> QED BY <1>6, <5>2
      <4> QED BY <4>1, <4>2 DEF Busy
    <3>4. CASE i # n
      <4>1. i \in 1..(n - 1)
        BY <1>4, <3>4
      <4>2. HasText(m)'
        BY <1>6, <3>1, <4>1 DEF HasText, IsText
      <4> QED BY <4>2 DEF Busy
    <3> QED BY <3>2, <3>3, <3>4
  <2>3. Busy(m) => Busy(m)'
    BY <1>1, <2>2 DEF Busy
  <2>4. MapInv(m)
    BY <1>3 DEF RunningInv
  <2> QED BY <1>1, <1>7, <2>1, <2>3, <2>4 DEF Passed, MapInv
<1>9. n - 1 # n + 1
  BY <1>4
<1> QED
  BY <1>1, <1>2, <1>5, <1>6, <1>8, <1>9, AfterStep

\* The text on top goes on to its next import.
LEMMA NextImportShape ==
    ASSUME Top \in FrameType
    PROVE  /\ NextImport \in FrameType
           /\ NextImport.file = Top.file /\ NextImport.next = Top.next + 1
           /\ NextImport.at = "link" /\ IsText(NextImport)
<1>1. PICK t \in FrameType : t = Top
  OBVIOUS
<1> DEFINE new == [t EXCEPT !.at = "link", !.next = t.next + 1]
<1>2. NextImport = new
  BY <1>1 DEF NextImport
<1>3. t.next + 1 \in Nat \ {0}
  <2>1. t.next \in Nat
    BY DEF FrameType
  <2> QED BY <2>1
<1>4. new.file = t.file /\ new.next = t.next + 1 /\ new.at = "link"
  BY DEF FrameType
<1>5. new \in FrameType
  BY <1>3 DEF FrameType
<1> HIDE DEF new
<1> QED
  BY <1>1, <1>2, <1>4, <1>5 DEF IsText

\* It may when the module that it imports is finished.
LEMMA GoesOn ==
    ASSUME CompileInv, RunInv, status = "running", status' = status, program' = program, links' = links,
           frames # <<>>, IsText(Top), MayLink(Top, Top.next), SetTop(NextImport),
           maps' = maps, inits' = inits, started' = started, r0' \in Files,
           NEW c \in Files, c = Target(Top), Finished(c), inits[c] = 1,
           Top.at = "initialized" => Top.operand = c
    PROVE  RunInv'
<1>1. /\ frames # <<>> /\ program' = program /\ links' = links /\ maps' = maps
      /\ inits' = inits /\ started' = started
  OBVIOUS
<1>2. PICK n : n = Len(frames)
  OBVIOUS
<1>3. RunningInv /\ frames \in Seq(FrameType)
  BY RunningFacts
<1>4. /\ n \in Nat \ {0} /\ Top = frames[n] /\ Top \in FrameType /\ FrameInv(n)
      /\ \A i \in 1..(n - 1) : IsText(frames[i])
  BY <1>2, BeforeStep
<1>5. DOMAIN maps = Files /\ DOMAIN inits = Files /\ started \subseteq Files
  BY DEF RunInv
<1>6. IsText(Top) /\ ~ Processing /\ Top.next \in 1..Len(links[Top.file]) /\ c = links[Top.file][Top.next]
  BY DEF MayLink, Target, Processing
<1> DEFINE new == NextImport
<1>7. /\ new \in FrameType /\ new.file = Top.file /\ new.next = Top.next + 1
      /\ new.at = "link" /\ IsText(new)
  BY <1>4, NextImportShape
<1> HIDE DEF new
<1>8. /\ frames' \in Seq(FrameType) /\ frames' # <<>>
      /\ Len(frames') = n
      /\ frames'[n] = new
      /\ Top' = new
      /\ \A i \in 1..(n - 1) : frames'[i] = frames[i]
  BY <1>2, <1>3, <1>7, SetTopShape DEF new
<1>9. FrameInv(n)'
  <2>1. frames'[n].at = "link" /\ frames'[n].next - 1 \in 0..Len(links'[frames'[n].file])
    <3>1. Top.next + 1 - 1 = Top.next /\ Top.next \in 0..Len(links[Top.file])
      BY <1>6
    <3> QED BY <1>1, <1>7, <1>8, <3>1
  <2>2. n = 1 => frames'[n].file = Main
    BY <1>4, <1>7, <1>8 DEF FrameInv
  <2>3. n # 1 => frames'[n - 1].at = "initialized" /\ frames'[n - 1].operand = frames'[n].file
    <3>1. n # 1 => n - 1 \in 1..(n - 1)
      BY <1>4
    <3> QED BY <1>4, <1>6, <1>7, <1>8, <3>1 DEF FrameInv
  <2> QED BY <2>1, <2>2, <2>3 DEF FrameInv, IsText
<1>10. ~ Processing'
  BY <1>7, <1>8 DEF Processing, IsText
<1>11. ASSUME NEW m \in Files
       PROVE  (Passed(m) => Passed(m)') /\ MapInv(m)'
  <2>1. (Fresh(m)' <=> Fresh(m)) /\ (Finished(m)' <=> Finished(m))
    BY <1>1, MapKept
  <2>2. ASSUME HasText(m)
        PROVE  HasText(m)'
    <3>1. PICK i \in 1..n : IsText(frames[i]) /\ frames[i].file = m
      BY <1>2, <2>2 DEF HasText
    <3>2. i \in 1..Len(frames') /\ (i # n => i \in 1..(n - 1))
      BY <1>4, <1>8
    <3>3. IsText(frames'[i]) /\ frames'[i].file = m
      BY <1>4, <1>7, <1>8, <3>1, <3>2
    <3> QED BY <3>2, <3>3 DEF HasText, IsText
  <2>3. m # c /\ Busy(m) => Busy(m)'
    BY <1>1, <2>2 DEF Busy
  <2>4. MapInv(m)
    BY <1>3 DEF RunningInv
  <2> QED BY <1>1, <1>6, <2>1, <2>3, <2>4 DEF Passed, MapInv
<1>12. Passed(c)'
  <2>1. Finished(c)'
    BY <1>1, MapKept
  <2> QED BY <1>1, <2>1 DEF Passed
<1>13. ASSUME NEW m \in ImportedBy(new)
       PROVE  m \in ImportedBy(Top) \/ Passed(m)'
  <2>1. PICK j \in 1..(new.next - 1) : m = links[new.file][j]
    BY <1>13 DEF ImportedBy
  <2>2. CASE j = Top.next
    BY <1>6, <1>7, <1>12, <2>1, <2>2
  <2>3. CASE j # Top.next
    <3>1. j \in 1..(Top.next - 1)
      BY <1>6, <1>7, <2>1, <2>3
    <3> QED BY <1>7, <2>1, <3>1 DEF ImportedBy
  <2> QED BY <2>2, <2>3
<1>14. n # n - 1 /\ n # n + 1
  BY <1>4
<1> QED
  BY <1>1, <1>2, <1>5, <1>6, <1>7, <1>8, <1>9, <1>11, <1>13, <1>14, AfterStep

\* A text that has not run yet is entered; a finished module is passed.
LEMMA RunImportKeeps == CompileInv /\ RunInv /\ RunImport => RunInv'
<1> SUFFICES ASSUME CompileInv, RunInv, RunImport PROVE RunInv'
  OBVIOUS
<1>1. /\ status = "running" /\ status' = status /\ frames # <<>> /\ Top.at = "link"
      /\ program' = program /\ links' = links /\ maps' = maps
      /\ Top.next \in DOMAIN links[Top.file] /\ r0' = Linked
  BY DEF RunImport, Runs, compiler
<1>2. PICK n : n = Len(frames)
  OBVIOUS
<1>3. /\ RunningInv
      /\ \A m \in Files : OfferFacts(m)
      /\ \A f \in Files : Rank[f] \in Nat
      /\ LinkFacts
      /\ frames \in Seq(FrameType)
      /\ \A i \in 1..n : FrameInv(i)
  BY <1>1, <1>2, RunningFacts
<1>4. /\ n \in Nat \ {0} /\ Top = frames[n] /\ Top \in FrameType /\ FrameInv(n)
      /\ \A i \in 1..(n - 1) : IsText(frames[i])
      /\ \A i \in 1..n : frames[i] \in FrameType
  BY <1>1, <1>2, BeforeStep
<1>5. DOMAIN maps = Files /\ DOMAIN inits = Files /\ started \subseteq Files
  BY DEF RunInv
<1>6. /\ Top.file \in Files /\ Top.next \in Nat \ {0} /\ MayLink(Top, Top.next)
      /\ IsText(Top) /\ ~ Processing
  <2>1. Top.file \in Files /\ Top.next \in Nat \ {0}
    BY <1>4 DEF FrameType
  <2>2. links[Top.file] \in Seq(Files)
    <3>1. AllCompiled
      BY <1>1 DEF CompileInv
    <3> QED BY <2>1, <3>1, AllTranslated DEF Translated
  <2>3. Top.next \in 1..Len(links[Top.file])
    BY <1>1, <2>2
  <2> QED BY <1>1, <2>1, <2>3 DEF MayLink, IsText, Processing
<1>7. PICK c \in Files : c = Linked
  BY <1>3, <1>6 DEF LinkFacts, MayLink, Linked
<1>8. c = Target(Top) /\ Rank[c] < Rank[Top.file]
  BY <1>3, <1>6, <1>7 DEF LinkFacts, MayLink, Linked, Target
<1>9. MapInv(c) /\ OfferFacts(c)
  BY <1>3 DEF RunningInv
<1>10. n # n - 1 /\ n # n + 1 /\ n + 1 # n - 1
  BY <1>4
<1>11. CASE HasInit(Linked)
  <2> DEFINE new == [Top EXCEPT !.at = "initialized", !.operand = c]
  <2> DEFINE callee == Frame(c)
  <2>1. /\ Enter(new, callee)
        /\ inits' = [inits EXCEPT ![c] = @ + 1]
        /\ started' = started \cup {c}
    BY <1>7, <1>11 DEF RunImport
  <2>2. /\ new \in FrameType /\ new.file = Top.file /\ new.next = Top.next
        /\ new.at = "initialized" /\ new.operand = c /\ IsText(new)
    BY <1>4 DEF FrameType, IsText
  <2>3. /\ callee \in FrameType /\ callee.file = c /\ callee.next = 1
        /\ callee.at = "link" /\ IsText(callee)
    BY DEF FrameType, IsText, Frame
  <2> HIDE DEF new, callee
  <2>4. /\ frames' \in Seq(FrameType) /\ frames' # <<>>
        /\ Len(frames') = n + 1
        /\ frames'[n] = new
        /\ frames'[n + 1] = callee
        /\ Top' = callee
        /\ \A i \in 1..(n - 1) : frames'[i] = frames[i]
    BY <1>1, <1>2, <1>3, <2>1, <2>2, <2>3, EnterShape
  <2>5. inits[c] = 0
    <3>1. Fresh(c) /\ (inits[c] = 0 \/ Busy(c))
      BY <1>6, <1>7, <1>9, <1>11, InitKeyTells DEF MapInv
    <3>2. \A i \in 1..n : Rank[c] < Rank[frames[i].file]
      <4> SUFFICES ASSUME NEW i \in 1..n
                   PROVE  Rank[c] < Rank[frames[i].file]
        OBVIOUS
      <4>1. Rank[Top.file] <= Rank[frames[i].file]
        BY <1>1, <1>2, <1>3, <1>6, TopRank DEF RunningInv
      <4>2. Rank[frames[i].file] \in Nat /\ Rank[Top.file] \in Nat /\ Rank[c] \in Nat
        BY <1>3, <1>4, <1>6 DEF FrameType
      <4> QED BY <1>8, <4>1, <4>2
    <3>3. \A i \in 1..n : frames[i].file # c
      <4> SUFFICES ASSUME NEW i \in 1..n, frames[i].file = c
                   PROVE  FALSE
        OBVIOUS
      <4>1. Rank[c] < Rank[c] /\ Rank[c] \in Nat
        BY <1>3, <3>2
      <4> QED BY <4>1
    <3>4. ~ HasText(c)
      BY <1>2, <3>3 DEF HasText
    <3>5. c # Main
      <4>1. 1 \in 1..n /\ FrameInv(1)
        BY <1>3, <1>4
      <4>2. frames[1].file = Main
        BY <4>1 DEF FrameInv
      <4> QED BY <3>3, <4>1, <4>2
    <3>6. ~ Busy(c)
      BY <1>1, <3>4, <3>5 DEF Busy
    <3> QED BY <3>1, <3>6
  <2>6. /\ DOMAIN inits' = Files /\ inits'[c] = 1 /\ \A m \in Files : m # c => inits'[m] = inits[m]
    BY <1>5, <2>1, <2>5
  <2>7. FrameInv(n)'
    <3>1. /\ frames'[n].operand = c /\ c \in started' /\ inits'[c] = 1
          /\ frames'[n].next \in 1..Len(links'[frames'[n].file])
          /\ c = links'[frames'[n].file][frames'[n].next]
      BY <1>1, <1>6, <1>8, <2>1, <2>2, <2>4, <2>6 DEF MayLink, Target
    <3>2. n = 1 => frames'[n].file = Main
      BY <1>4, <2>2, <2>4 DEF FrameInv
    <3>3. n # 1 => frames'[n - 1].at = "initialized" /\ frames'[n - 1].operand = frames'[n].file
      <4>1. n # 1 => n - 1 \in 1..(n - 1)
        BY <1>4
      <4> QED BY <1>4, <1>6, <2>2, <2>4, <4>1 DEF FrameInv
    <3>4. frames'[n].at = "initialized"
      BY <2>2, <2>4
    <3> QED BY <3>1, <3>2, <3>3, <3>4 DEF FrameInv, IsText, Awaits, MayLink, Target
  <2>8. FrameInv(n + 1)'
    <3>1. callee.next - 1 \in 0..Len(links'[c])
      <4>1. AllCompiled
        BY <1>1 DEF CompileInv
      <4>2. Len(links[c]) \in Nat
        BY <4>1, AllTranslated DEF Translated
      <4> QED BY <1>1, <2>3, <4>2
    <3>2. PICK k : k = n + 1
      OBVIOUS
    <3>3. k # 1 /\ k - 1 = n
      BY <1>4, <3>2
    <3>4. frames'[k] = callee /\ frames'[k - 1] = new
      BY <2>4, <3>2, <3>3
    <3>5. /\ k # 1 /\ frames'[k].at = "link" /\ frames'[k].next - 1 \in 0..Len(links'[frames'[k].file])
          /\ frames'[k - 1].at = "initialized" /\ frames'[k - 1].operand = frames'[k].file
      BY <2>2, <2>3, <3>1, <3>3, <3>4
    <3>6. FrameInv(k)'
      BY ONLY <3>5 DEF FrameInv, IsText
    <3> QED BY <3>2, <3>6
  <2>9. ASSUME NEW m \in Files
        PROVE  (Passed(m) => Passed(m)') /\ MapInv(m)'
    <3>1. (Fresh(m)' <=> Fresh(m)) /\ (Finished(m)' <=> Finished(m))
      BY <1>1, MapKept
    <3>2. CASE m = c
      <4>1. Fresh(c)
        BY <1>6, <1>7, <1>9, <1>11, InitKeyTells DEF MapInv
      <4>2. HasText(c)'
        <5>1. n + 1 \in 1..Len(frames')
          BY <1>4, <2>4
        <5> QED BY <2>3, <2>4, <5>1 DEF HasText, IsText
      <4> QED BY <2>5, <2>6, <3>1, <3>2, <4>1, <4>2 DEF Passed, MapInv, Busy
    <3>3. CASE m # c
      <4>1. ASSUME HasText(m)
            PROVE  HasText(m)'
        <5>1. PICK i \in 1..n : IsText(frames[i]) /\ frames[i].file = m
          BY <1>2, <4>1 DEF HasText
        <5>2. i \in 1..Len(frames') /\ (i # n => i \in 1..(n - 1))
          BY <1>4, <2>4
        <5>3. IsText(frames'[i]) /\ frames'[i].file = m
          BY <1>4, <2>2, <2>4, <5>1, <5>2
        <5> QED BY <5>2, <5>3 DEF HasText, IsText
      <4>2. Busy(m) => Busy(m)'
        BY <1>1, <4>1 DEF Busy
      <4>3. MapInv(m)
        BY <1>3 DEF RunningInv
      <4> QED BY <1>6, <2>6, <3>1, <3>3, <4>2, <4>3 DEF Passed, MapInv
    <3> QED BY <3>2, <3>3
  <2>10. \A m \in ImportedBy(new) : m \in ImportedBy(Top)
    BY <2>2 DEF ImportedBy
  <2>11. \A m \in started : inits[m] = 1 => inits'[m] = 1
    BY <1>5, <2>6
  <2>12. started \subseteq started' /\ started' \subseteq Files /\ r0' \in Files /\ DOMAIN maps' = Files
    BY <1>1, <1>5, <1>7, <2>1
  <2> QED
    BY <1>1, <1>2, <1>6, <1>8, <1>10, <2>2, <2>3, <2>4, <2>6, <2>7, <2>8, <2>9, <2>10, <2>11, <2>12, AfterStep
<1>12. CASE ~ HasInit(Linked)
  <2>1. SetTop(NextImport) /\ inits' = inits /\ started' = started
    BY <1>12 DEF RunImport
  <2>2. Finished(c) /\ inits[c] = 1
    BY <1>6, <1>7, <1>9, <1>12, InitKeyTells DEF MapInv
  <2> QED
    BY <1>1, <1>6, <1>7, <1>8, <2>1, <2>2, GoesOn
<1> QED
  BY <1>11, <1>12

\* The processor is started on a map that is as it was linked.
LEMMA AfterInitKeeps == CompileInv /\ RunInv /\ AfterInit => RunInv'
<1> SUFFICES ASSUME CompileInv, RunInv, AfterInit PROVE RunInv'
  OBVIOUS
<1>1. /\ status = "running" /\ status' = status /\ frames # <<>> /\ Top.at = "initialized"
      /\ program' = program /\ links' = links /\ maps' = maps /\ started' = started /\ inits' = inits
      /\ r0' = Top.operand
  BY DEF AfterInit, Runs, compiler
<1>2. PICK n : n = Len(frames)
  OBVIOUS
<1>3. /\ RunningInv
      /\ \A m \in Files : OfferFacts(m)
      /\ frames \in Seq(FrameType)
  BY <1>1, RunningFacts
<1>4. /\ n \in Nat \ {0} /\ Top = frames[n] /\ Top \in FrameType /\ FrameInv(n)
      /\ \A i \in 1..(n - 1) : IsText(frames[i])
  BY <1>1, <1>2, BeforeStep
<1>5. DOMAIN maps = Files /\ DOMAIN inits = Files /\ started \subseteq Files
  BY DEF RunInv
<1>6. IsText(Top) /\ ~ Processing /\ Awaits(Top) /\ Top.operand \in Files
  BY <1>1, <1>4 DEF IsText, Processing, FrameInv, FrameType
<1>7. PICK c \in Files : c = Top.operand
  BY <1>6
<1>8. c = Target(Top) /\ MayLink(Top, Top.next) /\ c \in started /\ inits[c] = 1
  BY <1>6, <1>7 DEF Awaits
<1>9. MapInv(c) /\ OfferFacts(c)
  BY <1>3 DEF RunningInv
<1>10. r0' = c
  BY <1>1, <1>7
<1>11. HasInit(c)' <=> HasInit(c)
  BY <1>1 DEF HasInit
<1>12. HasInit(r0') <=> HasInit(c)
  BY <1>10 DEF HasInit
<1>13. CASE HasInit(c)
  <2> DEFINE new == NextImport
  <2> DEFINE callee == [Frame(Top.file) EXCEPT !.at = "getkeys"]
  <2>1. Enter(new, callee)
    BY <1>10, <1>12, <1>13 DEF AfterInit
  <2>2. /\ new \in FrameType /\ new.file = Top.file /\ new.next = Top.next + 1
        /\ new.at = "link" /\ IsText(new)
    BY <1>4, NextImportShape
  <2>3. /\ callee \in FrameType /\ callee.next = 1 /\ callee.at = "getkeys" /\ ~ IsText(callee)
    BY <1>4 DEF FrameType, IsText, Frame
  <2> HIDE DEF new, callee
  <2>4. /\ frames' \in Seq(FrameType) /\ frames' # <<>>
        /\ Len(frames') = n + 1
        /\ frames'[n] = new
        /\ frames'[n + 1] = callee
        /\ Top' = callee
        /\ \A i \in 1..(n - 1) : frames'[i] = frames[i]
    BY <1>1, <1>2, <1>3, <2>1, <2>2, <2>3, EnterShape
  <2>5. Fresh(c) /\ Fresh(c)'
    <3>1. Fresh(c)
      BY <1>6, <1>9, <1>13, InitKeyTells DEF MapInv
    <3> QED BY <1>1, <3>1, MapKept
  <2>6. Top.next \in 1..Len(links[Top.file]) /\ c = links[Top.file][Top.next] /\ Top.next + 1 - 1 = Top.next
    BY <1>8 DEF MayLink, Target
  <2>7. FrameInv(n)'
    <3>1. frames'[n].at = "link" /\ frames'[n].next - 1 \in 0..Len(links'[frames'[n].file])
      <4>1. Top.next \in 0..Len(links[Top.file])
        BY <2>6
      <4> QED BY <1>1, <2>2, <2>4, <2>6, <4>1
    <3>2. n = 1 => frames'[n].file = Main
      BY <1>4, <2>2, <2>4 DEF FrameInv
    <3>3. n # 1 => frames'[n - 1].at = "initialized" /\ frames'[n - 1].operand = frames'[n].file
      <4>1. n # 1 => n - 1 \in 1..(n - 1)
        BY <1>4
      <4> QED BY <1>4, <1>6, <2>2, <2>4, <4>1 DEF FrameInv
    <3> QED BY <3>1, <3>2, <3>3 DEF FrameInv, IsText
  <2>8. FrameInv(n + 1)'
    <3>1. PICK k : k = n + 1
      OBVIOUS
    <3>2. k # 1 /\ k - 1 = n /\ k = Len(frames')
      BY <1>4, <2>4, <3>1
    <3>3. frames'[k] = callee /\ frames'[k - 1] = new
      BY <2>4, <3>1, <3>2
    <3>4. /\ frames'[k].next = 1 /\ frames'[k].at = "getkeys" /\ frames'[k - 1].at = "link"
          /\ frames'[k - 1].next - 1 \in 1..Len(links'[frames'[k - 1].file])
          /\ c = links'[frames'[k - 1].file][frames'[k - 1].next - 1]
      BY <1>1, <2>2, <2>3, <2>6, <3>3
    <3>5. Untouched'
      BY <1>10, <2>5 DEF Untouched
    <3>6. r0' \in started' /\ inits'[r0'] = 1
      BY <1>1, <1>8, <1>10
    <3>7. Processes(k)'
      BY <1>10, <3>2, <3>4, <3>5, <3>6 DEF Processes, MayLink
    <3>8. FrameInv(k)'
      BY <3>2, <3>4, <3>7 DEF FrameInv, IsText
    <3> QED BY <3>1, <3>8
  <2>9. Processing'
    BY <2>3, <2>4 DEF Processing, IsText
  <2>10. ASSUME NEW m \in Files
         PROVE  (Passed(m) => Passed(m)') /\ MapInv(m)'
    <3>1. (Fresh(m)' <=> Fresh(m)) /\ (Finished(m)' <=> Finished(m))
      BY <1>1, MapKept
    <3>2. ASSUME HasText(m)
          PROVE  HasText(m)'
      <4>1. PICK i \in 1..n : IsText(frames[i]) /\ frames[i].file = m
        BY <1>2, <3>2 DEF HasText
      <4>2. i \in 1..Len(frames') /\ (i # n => i \in 1..(n - 1))
        BY <1>4, <2>4
      <4>3. IsText(frames'[i]) /\ frames'[i].file = m
        BY <1>4, <2>2, <2>4, <4>1, <4>2
      <4> QED BY <4>2, <4>3 DEF HasText, IsText
    <3>3. m # c /\ Busy(m) => Busy(m)'
      BY <1>1, <1>7, <3>2 DEF Busy
    <3>4. MapInv(m)
      BY <1>3 DEF RunningInv
    <3>5. CASE m = c
      BY <1>1, <1>8, <1>10, <2>9, <3>5 DEF Passed, MapInv
    <3>6. CASE m # c
      BY <1>1, <1>6, <3>1, <3>3, <3>4, <3>6 DEF Passed, MapInv
    <3> QED BY <3>5, <3>6
  <2>11. ASSUME NEW m \in ImportedBy(new)
         PROVE  m \in ImportedBy(Top) \/ Passed(m)'
    <3>1. PICK j \in 1..(new.next - 1) : m = links[new.file][j]
      BY <2>11 DEF ImportedBy
    <3>2. CASE j = Top.next
      BY <1>1, <1>8, <1>10, <2>2, <2>6, <2>9, <3>1, <3>2 DEF Passed
    <3>3. CASE j # Top.next
      <4>1. j \in 1..(Top.next - 1)
        BY <2>2, <2>6, <3>1, <3>3
      <4> QED BY <2>2, <3>1, <4>1 DEF ImportedBy
    <3> QED BY <3>2, <3>3
  <2>12. n # n - 1 /\ n # n + 1 /\ n + 1 # n - 1
    BY <1>4
  <2> QED
    BY <1>1, <1>2, <1>5, <1>6, <1>10, <2>2, <2>3, <2>4, <2>7, <2>8, <2>10, <2>11, <2>12, AfterStep
<1>14. CASE ~ HasInit(c)
  <2>1. SetTop(NextImport)
    BY <1>10, <1>12, <1>14 DEF AfterInit
  <2>2. Finished(c)
    BY <1>6, <1>9, <1>14, InitKeyTells DEF MapInv
  <2> QED
    BY <1>1, <1>6, <1>7, <1>8, <1>10, <2>1, <2>2, GoesOn
<1> QED
  BY <1>13, <1>14

\* The main text starts, and all maps are as they were linked.
LEMMA LinkKeeps == CompileInv /\ RunInv /\ Link => RunInv'
<1> SUFFICES ASSUME CompileInv, RunInv, Link PROVE RunInv'
  OBVIOUS
<1>1. /\ AllCompiled /\ status = "compiling" /\ status' = "running"
      /\ program' = program /\ links' = links /\ started' = started /\ r0' = r0
      /\ frames' = <<Frame(Main)>> /\ inits' = [inits EXCEPT ![Main] = 1]
  BY DEF Link, compiler
<1>2. /\ DOMAIN inits = Files /\ started \subseteq Files /\ r0 \in Files
      /\ \A m \in Files : inits[m] = 0
  BY <1>1 DEF RunInv
<1>3. Main \in Files /\ \A f \in Files : Translated(f) /\ OfferFacts(f)
  BY <1>1, FilesAssumption, AllTranslated, OffersHaveKeys
<1>4. /\ DOMAIN inits' = Files /\ inits'[Main] = 1 /\ \A m \in Files : m # Main => inits'[m] = 0
  BY <1>1, <1>2, <1>3
<1>5. /\ DOMAIN maps' = Files
      /\ \A m \in Files :
            /\ DOMAIN maps'[m] = {e[1] : e \in exported[m]} \cup {InitKey}
            /\ \A k \in DOMAIN maps'[m] :
                  k # InitKey => maps'[m][k] = <<"ref", m, (CHOOSE e \in exported[m] : e[1] = k)[2]>>
  BY DEF Link
<1>6. ASSUME NEW m \in Files
      PROVE  Fresh(m)'
  <2>1. DOMAIN maps'[m] = AllKeys(m) /\ Partly(maps'[m], m, AllKeys(m))
    <3>1. OfferFacts(m) /\ exported[m] = {Entry(m, o) : o \in Offers(program[m])}
      BY <1>3 DEF Translated
    <3>2. PICK map : map = maps'[m]
      OBVIOUS
    <3>3. /\ DOMAIN map = {e[1] : e \in exported[m]} \cup {InitKey}
          /\ \A k \in DOMAIN map :
                k # InitKey => map[k] = <<"ref", m, (CHOOSE e \in exported[m] : e[1] = k)[2]>>
      BY <1>5, <3>2
    <3>4. DOMAIN map = AllKeys(m) /\ Partly(map, m, AllKeys(m))
      BY <3>1, <3>3, LinkedMap
    <3> QED BY <3>2, <3>4
  <2> QED BY <1>1, <2>1, MapKept DEF Fresh
<1> DEFINE new == Frame(Main)
<1>7. new \in FrameType /\ new.file = Main /\ new.at = "link" /\ new.next = 1 /\ IsText(new)
  BY <1>3 DEF Frame, FrameType, IsText
<1> HIDE DEF new
<1>8. /\ frames' \in Seq(FrameType) /\ Len(frames') = 1 /\ frames'[1] = new /\ frames' # <<>>
  <2>1. frames' = <<new>>
    BY <1>1 DEF new
  <2> QED BY <1>7, <2>1
<1>9. FrameInv(1)'
  <2>1. Len(links[Main]) \in Nat
    BY <1>3 DEF Translated
  <2>2. new.next - 1 \in 0..Len(links'[new.file])
    BY <1>1, <1>7, <2>1
  <2> QED BY <1>7, <1>8, <2>2 DEF FrameInv, IsText
<1>10. StackInv' /\ RankInv'
  BY <1>8, <1>9 DEF StackInv, RankInv
<1>11. PassedInv'
  BY <1>7, <1>8 DEF PassedInv, ImportedBy
<1>12. \A m \in Files : MapInv(m)'
  BY <1>4, <1>6 DEF MapInv, Busy
<1> QED
  BY <1>1, <1>2, <1>4, <1>5, <1>10, <1>11, <1>12 DEF RunInv, RunningInv

\* Nothing happens to a program that does not run.
LEMMA IdleKeeps ==
    ASSUME RunInv, program' = program, links' = links, UNCHANGED runtime,
           status \in {"running", "done"} <=> status' \in {"running", "done"},
           status' = "running" \/ frames = <<>>
    PROVE  RunInv'
<1>1. maps' = maps /\ inits' = inits /\ frames' = frames /\ started' = started /\ r0' = r0
  BY DEF runtime
<1>2. Rank' = Rank /\ \A m : (Fresh(m)' <=> Fresh(m)) /\ (Finished(m)' <=> Finished(m))
  BY <1>1, MapKept
<1>3. Processing' <=> Processing
  BY <1>1 DEF Processing, IsText, Top
<1>4. ASSUME RunningInv
      PROVE  RunningInv'
  <2>1. ASSUME NEW i, FrameInv(i)
        PROVE  FrameInv(i)'
    <3>1. Untouched => Untouched'
      BY <1>1, <1>2 DEF Untouched
    <3>2. KeysLeft(i) => KeysLeft(i)'
      <4>1. PICK m, left : m = r0 /\ left = frames[i].left
        OBVIOUS
      <4> QED BY <1>1, <4>1, KeysLeftNext DEF KeysLeft
    <3>3. Processes(i) => Processes(i)'
      BY <1>1, <3>1, <3>2 DEF Processes, MayLink
    <3> QED BY <1>1, <2>1, <3>3 DEF FrameInv, IsText, Awaits, MayLink, Target
  <2>2. StackInv'
    BY <1>1, <1>4, <2>1 DEF RunningInv, StackInv
  <2>3. RankInv'
    BY <1>1, <1>2, <1>4 DEF RunningInv, RankInv, IsText
  <2>4. PassedInv'
    BY <1>1, <1>2, <1>3, <1>4 DEF RunningInv, PassedInv, Passed, ImportedBy
  <2>5. ASSUME NEW m \in Files
        PROVE  MapInv(m)'
    <3>1. Busy(m) => Busy(m)'
      BY <1>1 DEF Busy, HasText, IsText, Top
    <3> QED BY <1>1, <1>2, <1>3, <1>4, <3>1 DEF RunningInv, MapInv
  <2> QED BY <2>2, <2>3, <2>4, <2>5 DEF RunningInv
<1> QED
  BY <1>1, <1>4 DEF RunInv

\* Nothing runs at first.
LEMMA RunInvInit == Init => RunInv
<1> SUFFICES ASSUME Init PROVE RunInv
  OBVIOUS
<1>1. /\ DOMAIN maps = Files /\ DOMAIN inits = Files /\ status = "compiling" /\ frames = <<>>
      /\ started = {Main} /\ r0 = Main /\ \A m \in Files : inits[m] = 0
  BY DEF Init
<1> QED
  BY <1>1, FilesAssumption DEF RunInv

\* RunInv is inductive, together with CompileInv.
LEMMA RunInvNext == CompileInv /\ RunInv /\ [Next]_vars => RunInv'
<1> SUFFICES ASSUME CompileInv, RunInv, [Next]_vars PROVE RunInv'
  OBVIOUS
<1>1. CASE GenerateImport \/ GenerateExport \/ GenerateExportable
  <2>1. status = "compiling" /\ UNCHANGED runtime
    BY <1>1 DEF GenerateImport, GenerateExport, GenerateExportable, Compiles
  <2>2. status' \in {"compiling", "refused"}
    BY <1>1, <2>1 DEF GenerateImport, GenerateExport, GenerateExportable, Refuse, Compiled
  <2>3. maps' = maps /\ inits' = inits /\ frames' = frames /\ started' = started /\ r0' = r0
    BY <2>1 DEF runtime
  <2> QED BY <2>1, <2>2, <2>3 DEF RunInv
<1>2. CASE Link
  BY <1>2, LinkKeeps
<1>3. CASE RunImport
  BY <1>3, RunImportKeeps
<1>4. CASE AfterInit
  BY <1>4, AfterInitKeeps
<1>5. CASE GetKeys
  BY <1>5, GetKeysKeeps
<1>6. CASE ProcessKey
  BY <1>6, ProcessKeyKeeps
<1>7. CASE EndProcessor
  BY <1>7, EndProcessorKeeps
<1>8. CASE EndText
  BY <1>8, EndTextKeeps
<1>9. CASE Finish
  <2>1. /\ status = "running" /\ status' = "done" /\ frames = <<>> /\ UNCHANGED runtime
        /\ program' = program /\ links' = links
    BY <1>9 DEF Finish, compiler
  <2> QED BY <2>1, IdleKeeps
<1>10. CASE UNCHANGED vars
  <2>1. status' = status /\ UNCHANGED runtime /\ program' = program /\ links' = links
    BY <1>10 DEF vars, runtime
  <2>2. status' = "running" \/ frames = <<>>
    BY <2>1 DEF RunInv
  <2> QED BY <2>1, <2>2, IdleKeeps
<1> QED
  BY <1>1, <1>2, <1>3, <1>4, <1>5, <1>6, <1>7, <1>8, <1>9, <1>10 DEF Next

\* The text of a module runs once, before that of whoever imports it goes on.
LEMMA InitializedOnceStep == CompileInv /\ RunInv => InitializedOnce
<1> SUFFICES ASSUME CompileInv, RunInv PROVE InitializedOnce
  OBVIOUS
<1>1. ASSUME NEW m \in Files
      PROVE  inits[m] <= 1
  <2>1. inits[m] \in {0, 1}
    BY DEF RunInv, RunningInv, MapInv
  <2> QED BY <2>1
<1>2. ASSUME NEW i \in DOMAIN frames, NEW m \in ImportedBy(frames[i])
      PROVE  inits[m] = 1
  <2>1. frames # <<>>
    BY EmptySeq
  <2>2. StackInv /\ PassedInv
    BY <2>1 DEF RunInv, RunningInv
  <2>3. i \in 1..Len(frames)
    BY <2>2 DEF StackInv
  <2> QED BY <2>2, <2>3 DEF PassedInv, Passed
<1> QED
  BY <1>1, <1>2 DEF InitializedOnce

\* On top of the stack, what a text has passed is finished.
LEMMA ImportsGiveExportsStep == CompileInv /\ RunInv => ImportsGiveExports
<1> SUFFICES ASSUME CompileInv, RunInv, NEW i \in DOMAIN frames, frames[i].at = "link", i = Len(frames),
                    NEW m \in ImportedBy(frames[i])
             PROVE  FindsClearOffers(m) /\ FindsOffers(m)
  BY DEF ImportsGiveExports
<1>1. frames # <<>>
  BY EmptySeq
<1>2. status = "running"
  BY <1>1 DEF RunInv
<1>3. Top = frames[i] /\ ImportedBy(frames[i]) \subseteq Files /\ Passed(m)
  <2>1. i \in 1..i
    BY <1>1, <1>2, RunningFacts, TopOfStack
  <2> QED BY <1>1, <1>2, <2>1, BeforeStep
<1>4. ~ Processing
  BY <1>3 DEF Processing, IsText
<1> QED
  BY <1>3, <1>4 DEF Passed, Finished

\* The text of a module runs once, before that of whoever imports it goes on, for
\* every set of programs (generate_imports).
THEOREM InitializedOnceHolds == Spec => []InitializedOnce
  BY CompileInvInit, CompileInvNext, RunInvInit, RunInvNext, InitializedOnceStep, PTL DEF Spec

\* Whoever has passed an import finds what the module exports, for every set of
\* programs, also those in which a renamed key meets another one, and every order of
\* the keys (generate_imports, import_processor).
THEOREM ImportsGiveExportsHolds == Spec => []ImportsGiveExports
  BY CompileInvInit, CompileInvNext, RunInvInit, RunInvNext, ImportsGiveExportsStep, PTL DEF Spec

=============================================================================
