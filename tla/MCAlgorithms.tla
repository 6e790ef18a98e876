---------------------------- MODULE MCAlgorithms ----------------------------
(* Four modules for TLC, one of which a behaviour is about: the option parser, *)
(* enums, the syntax tree and the strings of asm statements.  Meanwhile an     *)
(* empty command line is not read, an enum of one entry not walked over, and   *)
(* the syntax tree is off and no string left.                                  *)
EXTENDS Optparse, Enums, Strings

CONSTANTS
    MaxArgs,    \* bound: arguments of a command line
    MaxEntries, \* bound: entries of an enum
    MaxParsers, \* bound: parsers applied in a parse
    MaxUnits    \* bound: characters and escapes of a string literal

VARIABLES
    algorithm,
    results, derivations, parsers

enumVars == <<entries, children, i, it, items>>
treeVars == <<results, derivations, parsers>>
algorithmVars == <<algorithm, optionVars, enumVars, treeVars, stringVars>>

-----------------------------------------------------------------------------
(* Every command line of arguments of each kind, right and wrong.             *)

Option(longname, shortname, argtype) ==
    [longname |-> longname, shortname |-> shortname, argtype |-> argtype]

MCLongOpts ==
    {Option("print-parse-tree", "P", "OPTIONAL"), Option("output", "o", "REQUIRED"),
     Option("do-not-assemble", "A", "NONE"), Option("only-if-newer", "N", "NONE")}

Arguments ==
    {<<"word", "w1">>, <<"word", "w2">>, <<"dashdash">>}
    \cup {<<"short", s>> : s \in {<<"A">>, <<"A", "N">>, <<"o">>, <<"N", "o">>, <<"A", "o", "x">>,
                                  <<"P">>, <<"N", "P", "x">>, <<"A", "?">>}}
    \cup {<<"long", "output", NULL>>, <<"long", "output", <<"x">>>>,
          <<"long", "print-parse-tree", NULL>>, <<"long", "only-if-newer", <<"x">>>>,
          <<"long", "unknown", NULL>>}

MCLines == UNION {[1..n -> Arguments] : n \in 0..MaxArgs}

\* Enums of two names and values around zero and around the limits of an int of
\* three bits.
MCEntries == [name : {"a", "b"}, value : {NoValue, -4, -1, 0, 3, 4, 9}]
MCLengths == 1..MaxEntries
MCLineEnds == {1, 2}

\* Every parse of two rules and two texts.
T == INSTANCE SyntaxTree WITH Rules <- {"exp", "stmt"}, Texts <- {"x", "y"}, MaxPending <- 4

\* Every string literal.
MCLiterals ==
    {<<Quote>> \o FlattenSeq(units) \o <<Quote>> : units \in UNION {[1..n -> Units] : n \in 0..MaxUnits}}

-----------------------------------------------------------------------------
Off == <<>>

OptionsOff == line = <<>> /\ options = optparse_init(line) /\ returned = <<>>
EnumOff ==
    /\ entries = <<[name |-> "a", value |-> NoValue]>> /\ children = Tree(entries, 1)
    /\ i = FirstEntry /\ it = 0 /\ items = <<>>
TreeOff == results = Off /\ derivations = Off /\ parsers = Off
StringOff == literal = Off /\ newstr = Off /\ done = TRUE

AlgorithmsInit ==
    \/ algorithm = "options" /\ OptionsInit /\ EnumOff /\ TreeOff /\ StringOff
    \/ algorithm = "enum" /\ Init /\ OptionsOff /\ TreeOff /\ StringOff
    \/ algorithm = "tree" /\ T!Init /\ OptionsOff /\ EnumOff /\ StringOff
    \/ algorithm = "string" /\ StringsInit /\ OptionsOff /\ EnumOff /\ TreeOff

OptionStep == algorithm = "options" /\ NextOption /\ UNCHANGED <<enumVars, treeVars, stringVars>>
EnumStep == algorithm = "enum" /\ Next /\ UNCHANGED <<optionVars, treeVars, stringVars>>
TreeStep == algorithm = "tree" /\ T!Next /\ UNCHANGED <<optionVars, enumVars, stringVars>>
StringStep(A) == algorithm = "string" /\ A /\ UNCHANGED <<optionVars, enumVars, treeVars>>

AlgorithmsNext ==
    /\ OptionStep \/ EnumStep \/ TreeStep \/ StringStep(StringsNext)
    /\ UNCHANGED algorithm

\* The fairness of Strings.
AlgorithmsSpec ==
    /\ AlgorithmsInit /\ [][AlgorithmsNext]_algorithmVars
    /\ WF_algorithmVars(StringStep(Replace \/ Return) /\ UNCHANGED algorithm)

-----------------------------------------------------------------------------
(* The property of the module that is an instance.                            *)

\* compiler.c, mpc.c: the unfolded tree has one node for each rule that matched.
TreeIsTheDerivation == algorithm = "tree" => T!TreeIsTheDerivation

=============================================================================
