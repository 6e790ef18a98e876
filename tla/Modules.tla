------------------------------ MODULE Modules ------------------------------
(***************************************************************************)
(* Imports and exports: what generator_modules.c emits for each file, and  *)
(* what the emitted code does when the linked program runs.                *)
(*                                                                         *)
(* A file exports each name under a key that starts with a letter for its  *)
(* kind.  The program that imports a module runs its @init, which runs the *)
(* text of the module, and then the import processor, which takes the      *)
(* letters away and replaces classes and enums by what their variables     *)
(* hold.  The machine is external: linking a module twice yields the same  *)
(* map, getkeys lists the keys in any order, and @init runs the text.      *)
(*                                                                         *)
(* Names are sequences of letters, as the processor takes them apart.      *)
(***************************************************************************)
EXTENDS Naturals, Sequences, FiniteSets, SequencesExt

CONSTANTS
    Files,   \* all files
    Main,    \* the file that is run
    Letters, \* what names are made of
    Programs \* for each file its imports, declarations, exports and exported declarations

Name == Seq(Letters)
Kinds == {"GLOBAL", "FUNCTION", "CLASS", "ENUM"}
InitKey == <<"@", "init">>

Prefix(kind) ==
    CASE kind = "GLOBAL" -> "v" [] kind = "FUNCTION" -> "f" [] kind = "CLASS" -> "c" [] kind = "ENUM" -> "e"

KeyOf(kind, as) == <<Prefix(kind)>> \o as

\* The names under which a file offers its declarations, and what they stand for.
Offers(file) ==
    {<<e[2], e[1]>> : e \in ToSet(file.exports)} \cup {<<n, n>> : n \in file.marked}

Declared(file, offer) == offer[2] \in DOMAIN file.decls

\* The key under which it exports one of them.
ExportKey(file, offer) == KeyOf(file.decls[offer[2]], offer[1])

ASSUME FilesAssumption == IsFiniteSet(Files) /\ Main \in Files

\* The identifiers of the grammar are letters, digits and underscores.
ASSUME LettersAssumption == "@" \notin Letters

\* What the grammar lets a file say; an export may name what is not declared.
ASSUME ProgramsAssumption ==
    \A p \in Programs : \A f \in Files :
        /\ p[f].imports \in Seq(Files \X Name)
        /\ DOMAIN p[f].decls \subseteq Name
        /\ \A n \in DOMAIN p[f].decls : p[f].decls[n] \in Kinds
        /\ p[f].exports \in Seq(Name \X Name)
        /\ IsFiniteSet(p[f].marked)
        /\ \A n \in p[f].marked : n \in DOMAIN p[f].decls /\ p[f].decls[n] # "GLOBAL"

\* No file imports itself, directly or through others: each file has a rank, and
\* imports files of lower ranks.
ASSUME ImportsAssumption ==
    \A p \in Programs : \E rank \in [Files -> 0..Cardinality(Files)] :
        \A f \in Files : \A i \in DOMAIN p[f].imports : rank[p[f].imports[i][1]] < rank[f]

VARIABLES
    program,  \* the program that is compiled and run
    todo,     \* of each file, the parts that are still to be compiled
    status,   \* "compiling", "refused", "running" or "done"
    symbols,  \* of each file, the kinds of its names
    exported, \* of each file, the keys it exports and the names they stand for
    links,    \* of each file, the modules that its emitted code links, in order
    maps,     \* the map of each module
    started,  \* the modules whose variables hold their classes and enums
    inits,    \* how often the text of each module ran
    frames,   \* the texts and import processors that are running, innermost last
    r0        \* the register that holds a module

vars == <<program, todo, status, symbols, exported, links, maps, started, inits, frames, r0>>
compiler == <<todo, symbols, exported, links>>
runtime == <<maps, started, inits, frames, r0>>

-----------------------------------------------------------------------------
(* Compiling.                                                               *)

Marked(file, kinds) == SetToSeq({n \in program[file].marked : program[file].decls[n] \in kinds})
AllAs(kind, items) == [i \in DOMAIN items |-> [kind |-> kind, item |-> items[i]]]

\* imports, exports and exportable classes and enums in turn, then functions.
Parts(file) ==
    AllAs("import", program[file].imports) \o AllAs("export", program[file].exports)
        \o AllAs("marked", Marked(file, {"CLASS", "ENUM"})) \o AllAs("marked", Marked(file, {"FUNCTION"}))

\* Each file is compiled alone, one after the other.
AllCompiled == \A f \in Files : todo[f] = <<>>
Current == CHOOSE f \in Files : todo[f] # <<>>
Part == Head(todo[Current])
Item == Part.item
Symbols == symbols[Current]

Compiles(kind) ==
    /\ status = "compiling"
    /\ ~ AllCompiled
    /\ Part.kind = kind
    /\ UNCHANGED <<program, runtime>>

Refuse == status' = "refused" /\ UNCHANGED compiler
Compiled == todo' = [todo EXCEPT ![Current] = Tail(@)] /\ UNCHANGED status

Define(f, name, value) == [n \in DOMAIN f \cup {name} |-> IF n = name THEN value ELSE f[n]]

\* A faulty variant: an alias may be that of another import.
GenerateImportAgain ==
    /\ Compiles("import")
    /\ IF Item[2] \in DOMAIN Symbols /\ Symbols[Item[2]] # "MODULE"
       THEN Refuse
       ELSE /\ symbols' = [symbols EXCEPT ![Current] = Define(@, Item[2], "MODULE")]
            /\ links' = [links EXCEPT ![Current] = Append(@, Item[1])]
            /\ Compiled
            /\ UNCHANGED exported

\* generate_imports, for one import: item is <<module, alias>>.
GenerateImport ==
    /\ Compiles("import")
    /\ IF Item[2] \in DOMAIN Symbols
       THEN Refuse
       ELSE /\ symbols' = [symbols EXCEPT ![Current] = Define(@, Item[2], "MODULE")]
            /\ links' = [links EXCEPT ![Current] = Append(@, Item[1])]
            /\ Compiled
            /\ UNCHANGED exported

Export(file, kind, name, as) ==
    exported' = [exported EXCEPT ![file] = @ \cup {<<KeyOf(kind, as), name>>}]

\* generate_exports, for one name: item is <<name, as>>.
GenerateExport ==
    /\ Compiles("export")
    /\ IF Item[1] \notin DOMAIN Symbols \/ Symbols[Item[1]] \notin Kinds
       THEN Refuse
       ELSE /\ Export(Current, Symbols[Item[1]], Item[1], Item[2])
            /\ Compiled
            /\ UNCHANGED <<symbols, links>>

\* generate_exportable_class, _enum and _function, of a marked declaration.
GenerateExportable ==
    /\ Compiles("marked")
    /\ Export(Current, Symbols[Item], Item, Item)
    /\ Compiled
    /\ UNCHANGED <<symbols, links>>

\* Where a text or a processor is, and the module below it on the stack.
Frame(file) == [file |-> file, at |-> "link", next |-> 1, operand |-> file, left |-> {}]

\* The linked program starts: each module is a map from keys to references.  One of
\* two exports with the same key holds.
Link ==
    /\ status = "compiling"
    /\ AllCompiled
    /\ status' = "running"
    /\ maps' = [m \in Files |->
                   [k \in {e[1] : e \in exported[m]} \cup {InitKey} |->
                       IF k = InitKey THEN <<"ref", m, InitKey>>
                       ELSE <<"ref", m, (CHOOSE e \in exported[m] : e[1] = k)[2]>>]]
    /\ frames' = <<Frame(Main)>>
    /\ inits' = [inits EXCEPT ![Main] = 1]
    /\ UNCHANGED <<program, compiler, started, r0>>

-----------------------------------------------------------------------------
(* Running the emitted code of imports.                                     *)

Top == Last(frames)
Linked == links[Top.file][Top.next]

Runs(place) ==
    /\ status = "running"
    /\ frames # <<>>
    /\ Top.at = place
    /\ UNCHANGED <<program, compiler, status>>

SetTop(frame) == frames' = Append(Front(frames), frame)
Enter(frame, callee) == frames' = Front(frames) \o <<frame, callee>>
NextImport == [Top EXCEPT !.at = "link", !.next = @ + 1]

HasInit(m) == InitKey \in DOMAIN maps[m]

\* A faulty variant: a module is initialized by everyone who imports it.
RunImportAlways ==
    /\ Runs("link")
    /\ Top.next \in DOMAIN links[Top.file]
    /\ r0' = Linked
    /\ Enter([Top EXCEPT !.at = "initialized", !.operand = Linked], Frame(Linked))
    /\ inits' = [inits EXCEPT ![Linked] = @ + 1]
    /\ started' = started \cup {Linked}
    /\ UNCHANGED maps

\* link; st.ref; st.reg r0; has.mapitem "@init"; call it with the map kept below.
RunImport ==
    /\ Runs("link")
    /\ Top.next \in DOMAIN links[Top.file]
    /\ r0' = Linked
    /\ IF HasInit(Linked)
       THEN /\ Enter([Top EXCEPT !.at = "initialized", !.operand = Linked], Frame(Linked))
            /\ inits' = [inits EXCEPT ![Linked] = @ + 1]
            /\ started' = started \cup {Linked}
       ELSE SetTop(NextImport) /\ UNCHANGED <<inits, started>>
    /\ UNCHANGED maps

\* A faulty variant: the register is trusted to have survived the call.
AfterInitFromRegister ==
    /\ Runs("initialized")
    /\ IF HasInit(r0)
       THEN Enter(NextImport, [Frame(Top.file) EXCEPT !.at = "getkeys"])
       ELSE SetTop(NextImport)
    /\ UNCHANGED <<maps, started, inits, r0>>

\* The map is taken back from the stack.
AfterInit ==
    /\ Runs("initialized")
    /\ r0' = Top.operand
    /\ IF HasInit(r0')
       THEN Enter(NextImport, [Frame(Top.file) EXCEPT !.at = "getkeys"])
       ELSE SetTop(NextImport)
    /\ UNCHANGED <<maps, started, inits>>

GetKeys ==
    /\ Runs("getkeys")
    /\ SetTop([Top EXCEPT !.at = "keys", !.left = DOMAIN maps[r0]])
    /\ UNCHANGED <<maps, started, inits, r0>>

\* What a variable holds; it is empty until its module has started.  What is no
\* reference to a variable stands for itself.
Deref(ref) ==
    IF ref[2] \in started THEN <<"object", ref[2], ref[3]>> ELSE <<"empty", ref[2], ref[3]>>

\* map.renamekey replaces an item that already has the new key.
Renamed(map, key, new) ==
    LET value == IF key[1] \in {"c", "e"} THEN Deref(map[key]) ELSE map[key]
    IN  [k \in (DOMAIN map \ {key}) \cup {new} |-> IF k = new THEN value ELSE map[k]]

\* A faulty variant: the loop does not go on to the next key.
ProcessKeyAgain ==
    /\ Runs("keys")
    /\ \E key \in Top.left :
          maps' = IF key[1] = "@" \/ key \notin DOMAIN maps[r0] THEN maps
                  ELSE [maps EXCEPT ![r0] = Renamed(@, key, Tail(key))]
    /\ UNCHANGED <<frames, started, inits, r0>>

\* One turn of the loop of the import processor.
ProcessKey ==
    /\ Runs("keys")
    /\ \E key \in Top.left :
          /\ SetTop([Top EXCEPT !.left = @ \ {key}])
          /\ maps' = IF key[1] = "@" \/ key \notin DOMAIN maps[r0] THEN maps
                     ELSE [maps EXCEPT ![r0] = Renamed(@, key, Tail(key))]
    /\ UNCHANGED <<started, inits, r0>>

EndProcessor ==
    /\ Runs("keys")
    /\ Top.left = {}
    /\ maps' = [maps EXCEPT ![r0] = [k \in DOMAIN @ \ {InitKey} |-> @[k]]]
    /\ frames' = Front(frames)
    /\ UNCHANGED <<started, inits, r0>>

\* The rest of the text, and the return to whoever imported it.
EndText ==
    /\ Runs("link")
    /\ Top.next \notin DOMAIN links[Top.file]
    /\ frames' = Front(frames)
    /\ UNCHANGED <<maps, started, inits, r0>>

Finish ==
    /\ status = "running"
    /\ frames = <<>>
    /\ status' = "done"
    /\ UNCHANGED <<program, compiler, runtime>>

-----------------------------------------------------------------------------

Init ==
    /\ program \in Programs
    /\ todo = [f \in Files |-> Parts(f)]
    /\ status = "compiling"
    /\ symbols = [f \in Files |-> program[f].decls]
    /\ exported = [f \in Files |-> {}]
    /\ links = [f \in Files |-> <<>>]
    /\ maps = [f \in Files |-> <<>>]
    /\ started = {Main}
    /\ inits = [f \in Files |-> 0]
    /\ frames = <<>>
    /\ r0 = Main

Next ==
    \/ GenerateImport \/ GenerateExport \/ GenerateExportable \/ Link
    \/ RunImport \/ AfterInit \/ GetKeys \/ ProcessKey \/ EndProcessor \/ EndText
    \/ Finish

Spec == Init /\ [][Next]_vars /\ WF_vars(Next)

-----------------------------------------------------------------------------
(* Properties.                                                              *)

\* What an import of a module should find under the name of an offer.
Meant(m, offer) ==
    <<IF program[m].decls[offer[2]] \in {"CLASS", "ENUM"} THEN "object" ELSE "ref", m, offer[2]>>

\* The import processor cannot mistake an offer for another one: no other has the same
\* name, or is renamed to the key of this one, and this one is not renamed to its key.
Clear(file, offer) ==
    \A other \in Offers(file) \ {offer} :
        /\ other[1] # offer[1]
        /\ other[1] # ExportKey(file, offer)
        /\ ExportKey(file, other) # offer[1]

\* Every clear offer is found, whatever becomes of the others.
FindsClearOffers(m) ==
    \A o \in Offers(program[m]) :
        Clear(program[m], o) => o[1] \in DOMAIN maps[m] /\ maps[m][o[1]] = Meant(m, o)

\* What is found has an offered name, and is offered under a name that ends in it:
\* a key that is renamed more than once loses more than its letter.
FindsOffers(m) ==
    \A n \in DOMAIN maps[m] :
        /\ \E o \in Offers(program[m]) : n = o[1]
        /\ \E o \in Offers(program[m]) :
              n \in Suffixes(o[1]) /\ maps[m][n] \in {<<"ref", m, o[2]>>, <<"object", m, o[2]>>}

\* The modules that a text has imported so far.
ImportedBy(frame) == {links[frame.file][i] : i \in 1..(frame.next - 1)}

\* Whoever has passed an import finds, whoever else imported the module before and in
\* whatever order its keys were listed, the function or variable, or the class or enum
\* itself, under each exported name that meets no other name or key, and under no name
\* that is not exported; a name that meets others holds one of those it may meet.
ImportsGiveExports ==
    \A i \in DOMAIN frames :
        frames[i].at = "link" /\ i = Len(frames) =>
            \A m \in ImportedBy(frames[i]) : FindsClearOffers(m) /\ FindsOffers(m)

\* The text of a module runs once, before that of whoever imports it goes on.
InitializedOnce ==
    /\ \A m \in Files : inits[m] <= 1
    /\ \A i \in DOMAIN frames : \A m \in ImportedBy(frames[i]) : inits[m] = 1

\* An alias that is a name of its file, or an export that its file does not declare.
Clashes(file) ==
    \/ \E i \in DOMAIN file.imports :
          \/ file.imports[i][2] \in DOMAIN file.decls
          \/ \E j \in 1..(i - 1) : file.imports[j][2] = file.imports[i][2]
    \/ \E i \in DOMAIN file.exports : file.exports[i][1] \notin DOMAIN file.decls

\* A program is refused when one of its files clashes, and only then.
RefusesClashes ==
    /\ status = "refused" => \E f \in Files : Clashes(program[f])
    /\ status \in {"running", "done"} => \A f \in Files : ~ Clashes(program[f])

\* Compiling ends, and so does the initialization of all modules.
Ends == <>(status \in {"refused", "done"})

=============================================================================
