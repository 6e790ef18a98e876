------------------------------ MODULE MCDriver ------------------------------
(* Command lines for the program: every option, short and long, with right  *)
(* and wrong values, before and after the input files.                      *)
EXTENDS Driver

MCOption(longname, shortname, argtype) ==
    [longname |-> longname, shortname |-> shortname, argtype |-> argtype]

\* longopts of main.
MCLongOpts ==
    {MCOption("print-parse-tree", "P", "OPTIONAL"), MCOption("simulate", "S", "NONE"),
     MCOption("output", "o", "REQUIRED"), MCOption("do-not-assemble", "A", "NONE"),
     MCOption("only-if-newer", "N", "NONE"), MCOption("debug", "d", "OPTIONAL"),
     MCOption("verbose", "V", "NONE"), MCOption("version", "v", "NONE"),
     MCOption("arch", "a", "REQUIRED")}

A == <<"word", "a">>
B == <<"word", "b">>
Letters(s) == <<"short", s>>
Name(name, value) == <<"long", name, value>>

MCSources == {<<"a">>, <<"b">>}

\* The lines that leave files behind, and those that see them.
Builds ==
    {<<A>>, <<Letters(<<"A">>), A>>, <<Letters(<<"N">>), A, A, B>>, <<A, Letters(<<"N", "A">>), B>>,
     <<A, Letters(<<"N", "o">>), <<"word", "x">>>>, <<Letters(<<"N", "d", "0">>), A>>}

MCLines ==
    Builds \cup
    {<<>>, <<B, Letters(<<"P">>), A>>, <<Name("print-parse-tree", <<"unfold">>), A>>,
     <<Letters(<<"P", "fold">>), A>>, <<Name("print-parse-tree", <<"x">>), A>>,
     <<Letters(<<"o", "x">>), A, Letters(<<"S">>)>>, <<Letters(<<"S">>), Letters(<<"o">>), <<"word", "x">>, A>>,
     <<Letters(<<"A", "V">>), A, Name("output", <<"x">>), B>>, <<Letters(<<"o">>)>>,
     <<Letters(<<"a">>), A, B>>, <<Name("version", NULL), Name("unknown", NULL)>>,
     <<Name("unknown", NULL), A>>, <<Name("debug", <<"0">>), A, Letters(<<"d">>)>>,
     <<<<"dashdash">>, B, A>>, <<<<"word", "missing">>, A>>}

=============================================================================
