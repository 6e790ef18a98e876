------------------------------- MODULE Driver -------------------------------
(***************************************************************************)
(* The command line program of src/src/main.c and the compile_* functions  *)
(* of compiler.c that it calls: options, the loop over the input files,    *)
(* reading, compiling, assembling and writing.  Runs follow one another on *)
(* one file system; sources are edited, time passes in whole seconds, and  *)
(* a run may be killed between any two steps.                              *)
(*                                                                         *)
(* File names are sequences, so that ".fasm" can be appended to one.  What *)
(* a source holds is <<kind, version>>: "good" compiles, "refused" is      *)
(* refused by the generator and "unparsable" by the parser.                *)
(***************************************************************************)
EXTENDS Optparse, Integers, FiniteSetsExt

CONSTANTS
    Sources,   \* names of source files
    MaxRuns,   \* bound: runs of the program
    MaxEdits,  \* bound: changes of a source
    MaxClock   \* bound: seconds

VARIABLES
    files,    \* what each existing file holds, and when it was last changed
    clock,    \* the time in seconds
    edits,    \* changes of sources so far
    runs,     \* runs started so far
    phase,    \* where the current run is
    exit,     \* how it ended
    set,      \* the variables that options set
    filename, \* the input file
    code,     \* what compiling and assembling returned
    shown,    \* the parse tree that was printed
    source,   \* the file that was compiled and what it held
    skipped,  \* how many input files were skipped
    before    \* the files when the run began

process == <<optionVars, runs, phase, exit, set, filename, code, shown, source, skipped, before>>
vars == <<process, files, clock, edits>>

Default == <<"out.funk">>
Fasm(name) == Append(name, ".fasm")

Defaults ==
    [output |-> Default, asm_output |-> Fasm(Default), print_parse_tree |-> FALSE,
     print_parse_tree_folded |-> TRUE, assemble |-> TRUE, only_if_newer |-> FALSE, debug |-> 1]

DriverInit ==
    /\ OptionsInit
    /\ files = [s \in Sources |-> [mtime |-> 1, content |-> <<"good", 0>>]]
    /\ clock = 1 /\ edits = 0 /\ runs = 1
    /\ phase = "options" /\ exit = "running"
    /\ set = Defaults
    /\ filename = NULL /\ code = NULL /\ shown = NULL /\ source = NULL
    /\ skipped = 0
    /\ before = files

-----------------------------------------------------------------------------
(* The option loop.                                                         *)

Settings == <<set, skipped, filename, code, shown, source, before, files>>
Environment == <<clock, edits, runs, line>>

Exit(status) == phase' = "ended" /\ exit' = status
Goto(p) == phase' = p /\ UNCHANGED exit

\* The option loop reads an option.
Reads(option) ==
    /\ phase = "options"
    /\ NextOption
    /\ options'.ret = option
    /\ UNCHANGED <<filename, code, shown, source, skipped, before, files, clock, edits, runs>>

Continue(settings) == set' = settings /\ Goto("options")

\* An argument, as a file name or a word.
Text(optarg) == IF Head(optarg) = "word" THEN Tail(optarg) ELSE optarg

\* strtol, of what is no number too.
Number(optarg) == IF Text(optarg) = <<"1">> THEN 1 ELSE 0

PrintParseTree ==
    /\ Reads("P")
    /\ LET arg == options'.optarg
       IN  \/ /\ arg = NULL
              /\ Continue([set EXCEPT !.print_parse_tree = TRUE])
           \/ /\ arg \in {<<"fold">>, <<"unfold">>}
              /\ Continue([set EXCEPT !.print_parse_tree = TRUE,
                                      !.print_parse_tree_folded = (arg = <<"fold">>)])
           \/ /\ arg \notin {NULL, <<"fold">>, <<"unfold">>}
              /\ Exit("failure")
              /\ UNCHANGED set

\* A faulty variant: the name of the assembly file stays what it was.
OutputKeepsFasm == Reads("o") /\ Continue([set EXCEPT !.output = Text(options'.optarg)])

Output ==
    /\ Reads("o")
    /\ LET name == Text(options'.optarg)
       IN  Continue([set EXCEPT !.output = name, !.asm_output = Fasm(name)])

Simulate == Reads("S") /\ Continue([set EXCEPT !.output = NULL, !.assemble = FALSE])
DoNotAssemble == Reads("A") /\ Continue([set EXCEPT !.assemble = FALSE])
OnlyIfNewer == Reads("N") /\ Continue([set EXCEPT !.only_if_newer = TRUE])

Debug ==
    /\ Reads("d")
    /\ LET arg == options'.optarg
       IN  Continue([set EXCEPT !.debug = IF arg = NULL THEN 1 ELSE Number(arg)])

\* The architecture is never used; verbose adds messages.
Ignored == (Reads("a") \/ Reads("V")) /\ Continue(set)

Version == Reads("v") /\ Exit("ok") /\ UNCHANGED set

BadOption == Reads("?") /\ Exit("failure") /\ UNCHANGED set

OptionsDone ==
    /\ Reads("end")
    /\ IF options'.optind > Len(options'.argv) THEN Exit("failure") ELSE Goto("file")
    /\ UNCHANGED set

-----------------------------------------------------------------------------
(* The loop over the input files.                                           *)

Exists(name) == name \in DOMAIN files

\* What the options, as they were written, ask for.
Asked == Meaning(line)
Given(letter) == {i \in DOMAIN Asked.options : Asked.options[i][1] = letter}
LastArgument(letter) == Asked.options[Max(Given(letter))][2]
AskedAssembly == Given("A") \cup Given("S") # {}
AskedOutput ==
    LET name == IF Given("o") = {} THEN Default ELSE Text(LastArgument("o"))
    IN  IF AskedAssembly THEN Fasm(name) ELSE name

\* The output is at least as new as the input.
UpToDate(name) ==
    /\ set.only_if_newer
    /\ Exists(set.output) /\ Exists(name)
    /\ files[name].mtime <= files[set.output].mtime

Proceed == Goto(IF set.print_parse_tree THEN "tree" ELSE "compile")

NextFile ==
    /\ phase = "file"
    /\ Current(options) # NULL
    /\ filename' = Text(Current(options))
    /\ options' = optparse_arg(options)
    /\ IF UpToDate(filename')
       THEN skipped' = skipped + 1 /\ Goto("file")
       ELSE Proceed /\ UNCHANGED skipped
    /\ UNCHANGED <<Environment, returned, set, code, shown, source, before, files>>

NoMoreFiles ==
    /\ phase = "file"
    /\ Current(options) = NULL
    /\ Exit("ok")
    /\ UNCHANGED <<Environment, options, returned, Settings>>

compiler_print_parse_tree ==
    /\ phase = "tree"
    /\ shown' = IF Exists(filename) /\ files[filename].content[1] # "unparsable"
                THEN <<filename, set.print_parse_tree_folded>> ELSE NULL
    /\ Goto("compile")
    /\ UNCHANGED <<Environment, options, returned, set, skipped, filename, code, source, before, files>>

Target == IF set.assemble THEN set.output ELSE set.asm_output

Write(content) ==
    files' = [n \in DOMAIN files \cup {Target} |->
                 IF n = Target THEN [mtime |-> clock, content |-> content] ELSE files[n]]

\* compile_string_to_string returns null when it cannot parse.
Compiled(content, debug) ==
    IF content[1] = "unparsable" THEN NULL ELSE <<"assembly", content, debug>>

\* funky_assemble drops the debugging information at level 0.
Assembled(assembly, debug) == <<"bytecode", assembly, debug = 0>>

\* A faulty variant: the output is opened before the input is compiled.
CompileIntoOpenFile ==
    /\ phase = "compile"
    /\ Write(NULL)
    /\ IF Exists(filename)
       THEN /\ source' = <<filename, files[filename].content>>
            /\ code' = Compiled(source'[2], set.debug)
            /\ IF source'[2][1] = "refused" THEN Exit("failure")
               ELSE Goto(IF set.assemble THEN "assemble" ELSE "write")
       ELSE Exit("failure") /\ UNCHANGED <<code, source>>
    /\ UNCHANGED <<Environment, options, returned, set, skipped, filename, shown, before>>

\* The common part of compile_file_to_file and compile_file_to_string.
Compile ==
    /\ phase = "compile"
    /\ IF Exists(filename)
       THEN /\ source' = <<filename, files[filename].content>>
            /\ code' = Compiled(source'[2], set.debug)
            /\ IF source'[2][1] = "refused" THEN Exit("failure")
               ELSE Goto(IF set.assemble THEN "assemble" ELSE "open")
       ELSE Exit("failure") /\ UNCHANGED <<code, source>>
    /\ UNCHANGED <<Environment, options, returned, set, skipped, filename, shown, before, files>>

Assemble ==
    /\ phase = "assemble"
    /\ IF code = NULL
       THEN Exit("crash") /\ UNCHANGED code
       ELSE /\ code' = Assembled(code, set.debug)
            /\ Goto("open")
    /\ UNCHANGED <<Environment, options, returned, set, skipped, filename, shown, source, before, files>>

\* fopen empties the file, or fails.
OpenOutput ==
    /\ phase = "open"
    /\ \/ Write(NULL) /\ Goto("write")
       \/ Exit("failure") /\ UNCHANGED files
    /\ UNCHANGED <<Environment, options, returned, set, skipped, filename, code, shown, source, before>>

WriteOutput ==
    /\ phase = "write"
    /\ IF code = NULL THEN Exit("crash") /\ UNCHANGED files ELSE Write(code) /\ Exit("ok")
    /\ UNCHANGED <<Environment, options, returned, set, skipped, filename, code, shown, source, before>>

Step ==
    \/ PrintParseTree \/ Output \/ Simulate \/ DoNotAssemble \/ OnlyIfNewer \/ Debug
    \/ Ignored \/ Version \/ BadOption \/ OptionsDone
    \/ NextFile \/ NoMoreFiles \/ compiler_print_parse_tree
    \/ Compile \/ Assemble \/ OpenOutput \/ WriteOutput

-----------------------------------------------------------------------------
(* The environment.                                                         *)

Kill ==
    /\ phase # "ended"
    /\ Exit("killed")
    /\ UNCHANGED <<Environment, options, returned, Settings>>

Run ==
    /\ phase = "ended"
    /\ runs < MaxRuns
    /\ runs' = runs + 1
    /\ line' \in Lines
    /\ options' = optparse_init(line')
    /\ returned' = <<>>
    /\ phase' = "options" /\ exit' = "running"
    /\ set' = Defaults
    /\ filename' = NULL /\ code' = NULL /\ shown' = NULL /\ source' = NULL
    /\ skipped' = 0
    /\ before' = files
    /\ UNCHANGED <<files, clock, edits>>

Edit ==
    /\ edits < MaxEdits
    /\ edits' = edits + 1
    /\ \E s \in Sources, kind \in {"good", "refused", "unparsable"} :
           files' = [files EXCEPT ![s] = [mtime |-> clock, content |-> <<kind, edits'>>]]
    /\ UNCHANGED <<process, clock>>

Tick ==
    /\ clock < MaxClock
    /\ clock' = clock + 1
    /\ UNCHANGED <<process, files, edits>>

DriverNext == Step \/ Kill \/ Run \/ Edit \/ Tick

DriverSpec == DriverInit /\ [][DriverNext]_vars

-----------------------------------------------------------------------------
(* Properties.                                                              *)

\* The files that are no sources.
Written(fs) == [n \in DOMAIN fs \ Sources |-> fs[n]]

\* What compiling a source as asked leaves in the output.
Result(content) ==
    LET debug == IF Given("d") = {} \/ LastArgument("d") = NULL THEN 1 ELSE Number(LastArgument("d"))
        assembly == <<"assembly", content, debug>>
    IN  IF AskedAssembly THEN assembly ELSE Assembled(assembly, debug)

\* A run that ends well has compiled the first input file that it did not skip,
\* into the one file that the options ask for, in whatever order they and the
\* input files were written, and has touched nothing else.  An output that is one
\* of the sources may have been edited since.
DoesWhatWasAsked ==
    exit = "ok" =>
        LET files_left == SubSeq(Asked.words, skipped + 1, Len(Asked.words))
        IN  IF Given("v") # {} \/ files_left = <<>>
            THEN Written(files) = Written(before)
            ELSE /\ source[1] = Text(Head(files_left))
                 /\ Exists(AskedOutput)
                 /\ AskedOutput \notin Sources => files[AskedOutput].content = Result(source[2])
                 /\ \A n \in DOMAIN files \ (Sources \cup {AskedOutput}) :
                        n \in DOMAIN before /\ files[n] = before[n]
                 /\ (shown # NULL) => Given("P") # {} /\ shown[1] = source[1]
                 /\ skipped # 0 => Given("N") # {}

\* A run that fails, for its options, its input or its output, changes no file.
FailureWritesNothing == exit = "failure" => Written(files) = Written(before)

\* A source that does not parse is reported, and the run fails.
ParseErrorsAreFailures == exit # "crash"

=============================================================================
