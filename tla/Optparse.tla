------------------------------ MODULE Optparse ------------------------------
(***************************************************************************)
(* The option parser of src/src/optparse.h: optparse_long, which reads one *)
(* option per call and moves the other arguments behind the options, and   *)
(* optparse_arg, which steps over them.                                    *)
(*                                                                         *)
(* An argument is <<"word", w>>, <<"dashdash">>, <<"long", name, value>>,  *)
(* or <<"short", letters>>, the letters that follow a single '-'.  A value *)
(* is the sequence of its letters, or the whole argument where the next    *)
(* argument is taken; NULL is none.                                        *)
(***************************************************************************)
EXTENDS Naturals, Sequences, SequencesExt

CONSTANTS
    LongOpts, \* the options: a set of records with longname, shortname, argtype
    Lines     \* the command lines to be read

\* An argument that stands for options has letters.
IsArgument(arg) ==
    /\ arg # <<>>
    /\ arg[1] \in {"word", "dashdash", "long", "short"}
    /\ arg[1] = "short" => arg[2] # <<>> /\ arg[2] \in Seq(ToSet(arg[2]))

ASSUME LinesAssumption ==
    \A args \in Lines : args \in Seq(ToSet(args)) /\ \A i \in DOMAIN args : IsArgument(args[i])

\* "end" and "?" are what optparse_long returns besides shortnames.
ASSUME OptionsAssumption ==
    \A l \in LongOpts :
        l.argtype \in {"NONE", "REQUIRED", "OPTIONAL"} /\ l.shortname \notin {"end", "?"}

VARIABLES
    options,  \* struct optparse, and what the last call returned
    line,     \* the command line as it was written
    returned  \* the options returned so far, with their values

optionVars == <<options, line, returned>>

NULL == <<>>

optparse_init(args) ==
    [argv |-> args, optind |-> 1, subopt |-> 0, optarg |-> NULL, errmsg |-> NULL, ret |-> "none"]

-----------------------------------------------------------------------------
(* Arguments.                                                               *)

\* What lies at an index of argv, which ends with a null pointer.
ArgvAt(o, i) == IF i \in DOMAIN o.argv THEN o.argv[i] ELSE NULL

Current(o) == ArgvAt(o, o.optind)

IsKind(arg, kind) == arg # NULL /\ arg[1] = kind

optparse_error(o, msg, data) == [o EXCEPT !.errmsg = <<msg, data>>, !.ret = "?"]

\* Moves the argument at index behind those that were read after it.
optparse_permute(o, index) ==
    [o EXCEPT !.argv = SubSeq(@, 1, index - 1) \o SubSeq(@, index + 1, o.optind - 1)
                       \o <<@[index]>> \o SubSeq(@, o.optind, Len(@))]

-----------------------------------------------------------------------------
(* Short options.                                                           *)

\* A faulty variant: the place within a group of letters is not reset.
ConsumedInGroup(o) == [o EXCEPT !.optind = @ + 1]

\* Ends a call that read a whole argument.
Consumed(o) == [o EXCEPT !.subopt = 0, !.optind = @ + 1]

\* What optparse begins with, and the letter that it returns.
Clear(o, letter) == [o EXCEPT !.optarg = NULL, !.errmsg = NULL, !.ret = letter]

\* The letter of a group, where rest follows it and next is the argument behind.
ShortOption(o, letter, rest, next) ==
    LET known == {l \in LongOpts : l.shortname = letter}
        type == (CHOOSE l \in known : TRUE).argtype
        clear == Clear(o, letter)
    IN  IF known = {}
        THEN optparse_error([clear EXCEPT !.optind = @ + 1], "invalid option", letter)
        ELSE CASE type = "NONE" ->
                      IF rest # <<>> THEN [clear EXCEPT !.subopt = @ + 1] ELSE Consumed(clear)
               [] type = "REQUIRED" ->
                      IF rest # <<>> THEN [Consumed(clear) EXCEPT !.optarg = rest]
                      ELSE IF next # NULL THEN Consumed(Consumed([clear EXCEPT !.optarg = next]))
                      ELSE optparse_error(Consumed(clear), "option requires an argument", letter)
               [] type = "OPTIONAL" -> [Consumed(clear) EXCEPT !.optarg = rest]

optparse(o) ==
    LET letters == Current(o)[2]
    IN  ShortOption(o, IF o.subopt < Len(letters) THEN letters[o.subopt + 1] ELSE "",
                    SubSeq(letters, o.subopt + 2, Len(letters)), ArgvAt(o, o.optind + 1))

-----------------------------------------------------------------------------
(* Long options.                                                            *)

\* What optparse_long does before it looks at the option, which returns shortname.
Named(o, arg, shortname) ==
    [o EXCEPT !.errmsg = NULL, !.optind = @ + 1, !.optarg = arg, !.ret = shortname]

LongOption(o, name, arg) ==
    LET known == {l \in LongOpts : l.longname = name}
        opt == CHOOSE l \in known : TRUE
        read == Named(o, arg, IF known = {} THEN "?" ELSE opt.shortname)
    IN  IF known = {} THEN optparse_error(read, "invalid option", name)
        ELSE IF opt.argtype = "NONE" /\ arg # NULL
        THEN optparse_error(read, "option takes no arguments", name)
        ELSE IF opt.argtype = "REQUIRED" /\ arg = NULL
        THEN IF Current(read) = NULL
             THEN optparse_error(read, "option requires an argument", name)
             ELSE [read EXCEPT !.optarg = Current(read), !.optind = @ + 1]
        ELSE read

\* A call that begins at i, where behind is what one that begins at i + 1 leaves.  A
\* word is stepped over, and moved behind what is read.
ReadAt(o, i, behind) ==
    LET at == [o EXCEPT !.optind = i]
        option == Current(at)
    IN  CASE option = NULL -> [at EXCEPT !.ret = "end"]
          [] IsKind(option, "dashdash") -> [at EXCEPT !.ret = "end", !.optind = @ + 1]
          [] IsKind(option, "short") -> optparse(at)
          [] IsKind(option, "long") -> LongOption(at, option[2], option[3])
          [] IsKind(option, "word") -> [optparse_permute(behind, i) EXCEPT !.optind = @ - 1]

optparse_long(o) ==
    LET ReadFrom[i \in 1..(Len(o.argv) + 1)] == ReadAt(o, i, ReadFrom[i + 1])
    IN  ReadFrom[o.optind]

\* Steps over the argument it returns, Current(o).
optparse_arg(o) ==
    [o EXCEPT !.subopt = 0, !.optind = IF Current(o) # NULL THEN @ + 1 ELSE @]

-----------------------------------------------------------------------------
(* Reading a command line.                                                  *)

OptionsInit ==
    /\ line \in Lines
    /\ options = optparse_init(line)
    /\ returned = <<>>

ReadsOptions == options.ret \notin {"end", "?"}

\* A call of optparse_long.
NextOption ==
    /\ ReadsOptions
    /\ options' = optparse_long(options)
    /\ returned' = IF options'.ret \in {"end", "?"} THEN returned
                   ELSE Append(returned, <<options'.ret, options'.optarg>>)
    /\ UNCHANGED line

OptionsSpec == OptionsInit /\ [][NextOption]_optionVars /\ WF_optionVars(NextOption)

-----------------------------------------------------------------------------
(* What a command line means: getopt_long's reading of it.                  *)

Reading(opts, words, error) == [options |-> opts, words |-> words, error |-> error]
Prefixed(opt, reading) == [reading EXCEPT !.options = <<opt>> \o @]
Refused(why) == Reading(<<>>, <<>>, why)

OptionOf(field, name) == {l \in LongOpts : l[field] = name}

\* An option with the argument value as its value, behind which others is read.
ReadNext(letter, value, others) ==
    IF value = NULL THEN Refused("option requires an argument")
    ELSE Prefixed(<<letter, value>>, others)

\* The letter at k of a group, where group is what the letters behind it mean.
ReadLetter(letters, k, group, next, after, others) ==
    LET known == OptionOf("shortname", letters[k])
        l == CHOOSE o \in known : TRUE
        rest == SubSeq(letters, k + 1, Len(letters))
    IN  IF known = {} THEN Refused("invalid option")
        ELSE CASE l.argtype = "NONE" -> Prefixed(<<l.shortname, NULL>>, group)
               [] l.argtype = "REQUIRED" /\ rest = <<>> -> ReadNext(l.shortname, next, others)
               [] OTHER -> Prefixed(<<l.shortname, rest>>, after)

\* The letters stand for options of their own, up to one with a value.
ReadLetters(letters, next, after, others) ==
    LET Group[k \in 1..(Len(letters) + 1)] ==
            IF k > Len(letters) THEN after
            ELSE ReadLetter(letters, k, Group[k + 1], next, after, others)
    IN  Group

ReadLong(name, value, next, after, others) ==
    LET named == OptionOf("longname", name)
        l == CHOOSE o \in named : TRUE
    IN  IF named = {} THEN Refused("invalid option")
        ELSE CASE l.argtype = "NONE" /\ value # NULL -> Refused("option takes no arguments")
               [] l.argtype = "REQUIRED" /\ value = NULL -> ReadNext(l.shortname, next, others)
               [] OTHER -> Prefixed(<<l.shortname, value>>, after)

\* The argument at i.  What is behind it means after, and what is behind the next
\* argument others.
ReadArgument(args, i, after, others) ==
    LET arg == args[i]
        next == IF i < Len(args) THEN args[i + 1] ELSE NULL
    IN  CASE arg[1] = "dashdash" -> Reading(<<>>, SubSeq(args, i + 1, Len(args)), NULL)
          [] arg[1] = "word" -> [after EXCEPT !.words = <<arg>> \o @]
          [] arg[1] = "short" -> ReadLetters(arg[2], next, after, others)[1]
          [] arg[1] = "long" -> ReadLong(arg[2], arg[3], next, after, others)

\* What is meant from every argument on.
Meanings(args) ==
    LET From[i \in 1..(Len(args) + 2)] ==
            IF i > Len(args) THEN Reading(<<>>, <<>>, NULL)
            ELSE ReadArgument(args, i, From[i + 1], From[i + 2])
    IN  From

Meaning(args) == Meanings(args)[1]

-----------------------------------------------------------------------------
(* Properties.                                                              *)

\* The parser returns the options as they were written, with their values, and
\* stops at the first that is wrong; what it leaves for optparse_arg are the
\* other arguments, none lost and in the order they were written.
ReadsAsWritten ==
    LET meaning == Meaning(line)
    IN  /\ IsPrefix(returned, meaning.options)
        /\ ~ReadsOptions => returned = meaning.options
        /\ options.ret = "end" =>
               /\ meaning.error = NULL
               /\ SubSeq(options.argv, options.optind, Len(options.argv)) = meaning.words
        /\ options.ret = "?" => options.errmsg[1] = meaning.error

=============================================================================
