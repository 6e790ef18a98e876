# A TLA+ model of the Wicked compiler

The Wicked compiler translates programs in the Wicked language into Funky
assembly.  It is a single-threaded C program that walks over a syntax tree:
each kind of syntax node has a generator function that appends assembly text to
one buffer and updates the state that all generators share
(`generator_state_t`).  Nothing runs concurrently and nothing is persisted
except the output file.  What is hard is *protocol*: stacks that nested
generators push and pop, numbers that become label names, a symbol table that
one walk over the tree fills and another one reads, a scope string that is
built by two functions independently, and a hash table under all of it that is
changed while it is iterated over.

Paths below are relative to the repository.

## 1. Inventory

| part | source | state it keeps | operations |
|---|---|---|---|
| driver | `src/main.c` | options, names of outputs, and the files | option loop, `-N` comparison of file times, compile and assemble each file |
| option parser | `optparse.h` (vendored) | `argv`, which it permutes, `optind`, `subopt` | `optparse`, `optparse_long`, `optparse_arg` |
| compilation | `src/libwickedc/compiler.c` | the parser | read a file, parse, `mpc_unfold`, `generate`, write or return the text |
| parser library | `mpc/mpc.c` (vendored) | none | match, fold the parts of a rule into nodes |
| generator core | `generators/generator.c`, `generator.h` | `generator_state_t`: output, scope, label stacks, `uniqueid`, flags, symbol table | `generate` (the passes), `append_output`, `cleanup` |
| statement generators | `generator_statements.c`, `generator_while.c`, `generator_if.c` | the scope and label stacks while their bodies run, numbers of labels in locals | `generate_stmt`, `_block`, `_while`, `_do`, `_for`, `_if`, `_break`, `_continue`, `_return`, `_asm` |
| functions | `generator_functions.c` | `is_conv_method`, number of locals | `generate_function`, `generate_syscall`, `generate_default_params` |
| scopes and symbols | `generator_symbols.c`, `generator_variables.c` | `state->scope`, `state->symbol_table` | `populate_symbol_table`, `enter_scope`, `leave_scope`, `get_symbol_from_*`, `generate_ident` |
| hash map | `hashmap.c` | the table of slots, number of entries, copies of names | init, put, get, remove, clear, reset, iteration with removal, `hashmap_foreach`, growth |
| expressions | `generator_expressions.c`, `generator_arrays.c` | `exp_state`: lvalue and member flags | one generator per precedence, calls, indexing, assignment, literals |
| classes | `generator_class.c` | `is_static`; at run time the maps of classes and instances | `generate_class`, `_extends`, `_new`, `_prototypeof` |
| enums | `generator_enum.c` | the running value | `generate_enum` |
| modules | `generator_modules.c` | symbols of imported modules; at run time their maps | `generate_imports`, `_import_processor`, `_exports`, `_exportables` |
| string functions | `string_functions.c` | none | `str_replace`, `str_startswith` |
| grammar | `wicked.grammar`, `tools/generate_parser.sh` | none | source of the generated parser |
| external | the assembler and machine fetched by CMake | | assembling, running |
| tests, library | `test/`, `stdlib/` | | |

How they interact: the driver calls the compilation once per file, which calls
`generate`.  `generate` initializes the hash map, runs
`populate_symbol_table` over the whole tree for the globals, then generates
imports, classes, functions and statements, and cleans up.  Every generator
calls those of its children; a function generator runs
`populate_symbol_table` again over its own body, and `leave_scope` removes what
that added.  `generate_break` and `generate_continue` talk to the enclosing
loop only over the label stacks; branches talk to their targets only over label
names, which are global to the output file.

What makes each part correct, in a phrase: the statement generators leave the
stacks as they found them and every jump goes where the statement's meaning
says; the symbol table resolves names lexically and refuses exactly the
ill-scoped programs; the hash map is a map; the code of an expression, a
function or a program does what its tree means, and leaves one value; methods
and `super` reach the class that the hierarchy says; whoever imports a module
finds what it exports; the tree that the generators walk is the one the grammar
describes; the driver reads its options as they are written and writes the
output it was asked for, or none.

`PROJECT.json` lists the hazards of this code at their lines.  The hard
behaviours are: long nestings of legal statements after which a stack or a
counter is off by one; state that is changed by a nested generator while an
outer one still holds the old value; names declared by one walk and looked up
by another; removal during iteration; growth and failure of the hash table at
its limits; renaming the keys of a map while it is walked over; runs of the
program that follow one another on the same files.

## 2. Modules

| module | models | checked in |
|---|---|---|
| `StatementGen` | statement and function generators with the label stacks | `MCStatementGen`; `StatementGenProofs` |
| `Symbols` | the passes of `generate`, scopes, declarations, lookup, cleanup | `MCSymbols`; `SymbolsProofs` |
| `SymbolMap` | the abstract map that users of `hashmap.c` rely on | implemented by `Hashmap` |
| `Hashmap`, `HashmapForeach` | `hashmap.c`; the walk with a callback | `MCHashmap`, `MCHashmapForeach`; `HashmapProofs` |
| `Machine` | the instructions of the machine, as the generators use them (external) | by the next three |
| `ExpressionGen` | the expression generators; EXTENDS `Machine` | `MCPrograms` |
| `FunctionGen` | functions, system calls and statements around expressions; EXTENDS `ExpressionGen` | `MCPrograms` |
| `Meaning` | what expressions and programs mean; EXTENDS `FunctionGen` | `MCPrograms` |
| `Trees`, `SmallExpressions`, `SmallPrograms` | the trees that are compiled there | |
| `Classes` | classes, instances, `super` | `MCClasses`; `ClassesProofs` |
| `Modules` | imports, exports and the import processor | `MCModules`; `ModulesProofs` |
| `Driver` | the program and `compile_*`; EXTENDS `Optparse` | `MCDriver`; `DriverProofs` |
| `Optparse` | the option parser | `MCAlgorithms`; `DriverProofs` |
| `SyntaxTree` | folding by mpc and `mpc_unfold` | `MCAlgorithms` |
| `Enums` | enums | `MCAlgorithms`; `AlgorithmsProofs` |
| `Strings` | the text of an `asm` statement and `str_replace` | `MCAlgorithms`; `AlgorithmsProofs` |

`ProofLemmas` has the facts about numbers, sequences and recursive functions that
several of the proof modules cite.

An MC module may hold more than one instance of a specification, or of several,
and a variable that says which one a behaviour is about.

### StatementGen

A generator's activation record is a *frame*; `frames` is the C stack of
generators, outermost first.  A step is one statement, or the beginning or the
end of a compound one, chosen freely: the behaviours are the runs of the
generator over all programs within the bounds.  `OpenWhile` is
`generate_while` up to its call of `generate_block`; `CloseWhile` is the rest.
`OpenIf`, `Else`, `CloseIf` and `CloseElse` split `generate_if` in the same
way, `OpenCallable`, `DefaultParam`, `BeginFunctionBody`, `CloseFunction`
and `CloseSyscall` split `generate_function` and `generate_syscall`.  `scope`,
`continue_labels`, `break_labels` and `uniqueid` are the fields of
`generator_state_t`.

The text is reduced to what control flow can tell apart.  `output` counts
instructions (`addr`), keeps how deep the operand stack is (`depth`), the set
of label definitions and the set of jumps, each with its address and depth.
`sprintf("startwhile_%d", id)` is the pair `<<"startwhile", id>>`; generators
that use the same number for different labels, or different numbers for the
same kind of label, are therefore told apart as in the text.  An expression is
one of six shapes: without labels, with `&&`, `||`, `? :`, `new` or `super`;
default values of parameters are expressions of these shapes too.

Properties: `JumpsTargetInnermostLoop` (break and continue),
`LabelsAreUnique`, `JumpsKeepDepth` (a label is reached with one depth of the
operand stack, whatever the path), `StatementsAreBalanced`,
`BackwardJumpsRepeatLoops`, `JumpsStayInFunction`, `JumpsAreResolved`.

Not in the model: the verbatim `asm` statement, which may emit anything (its
text is in `Strings`); the
longer return sequence of conversion methods; the address at which a class
emits its allocator.  Functions, methods and numbered labels are assumed to
have different names (`FunctionsAssumption`): a program that names a function
`endwhile_0` is outside the model.

### Symbols

A program is its syntax tree written as a sequence of tokens, so that a
position is a token's index.  It is first written token by token (`AddToken`),
then compiled: phase `globals` is `populate_symbol_table` on the whole tree,
`classes` and `code` are the passes of `generate` (the classes first), and
`locals` is the walk over one function that `generate_function` makes before it
generates the body.  `scope` is `state->scope` and `subscope` the argument that
`populate_symbol_table` passes down; a key is the sequence of components that
the code joins with dots, `<<"^", i>>` for the block at position i.  `refs`
records what each use was resolved to.

`ResolvesLexically` compares that with `Meaning`, a definition of lexical scope
that knows nothing of the table; `ErrorsAreExact` compares the programs refused
with `WellScoped`.  `SlotsAreDistinct`, `LocalsAreForgotten`,
`GlobalsArePermanent` and `Terminates` are about the slots and lifetimes.

Not in the model: imports and enums as symbols (`Modules` has those), exports,
parameters of system calls, the prefix `global.` that the lookup knows but the
grammar does not, `this` and the literals, which never reach the table.  Keys of the table
are distinct sequences, so the hash map is used here as the map that
`SymbolMap` describes.

### Hashmap and SymbolMap

`table` is the array of slots and `num_entries` its counter; `hash` is any
function on the keys, chosen in the initial state.  Each action is one call;
`EntryFind`, `EntryRemove` and `Rehash` are the static functions of the same
names.  `EntryRemove` describes the shifting loop by its result: each gap is
filled by the first entry behind it, up to the end of the chain, that passes the
test `HASHMAP_INDEX_LE` (`MayFill`, `Fills`), and leaves the next gap.
The loops of `leave_scope` and `cleanup` are `BeginCleanup` (`hashmap_iter`)
followed by `CleanupRemove` (`hashmap_iter_remove`) and `CleanupKeep`
(`hashmap_iter_next`) one entry at a time.  calloc succeeds or fails as
`Memory` allows, independently at both growths of a put.

`SymbolMap` is what the callers rely on: an entry is never overwritten, a put
that reports failure changes nothing, a cleanup loop removes only what it is to
remove.  `IsSymbolMap` says that the table implements it, under the mapping
that reads the table through `hashmap_get`.

The removal test is right only for chains up to half of the table, so the
passing runs start removals in a table that is at most half full
(`SparseSpec`): for the program's table of 256 slots, with at most 128 symbols.
The run `overfull_table` shows what happens beyond (section 4).

The program sets `key_alloc` and `key_free` (`generator.c:70`), so a name is
copied when it is put and its copy freed when it is removed; a copy may fail as
`Memory` allows.  `NamesAreOwned` says that every name in the table is a copy
that is not freed, and that no other copy is left.

`HashmapForeach` is `hashmap_foreach`: one step is one call of the callback,
which may go on, stop, or remove its own entry or another one, and what the
walk does next.  `ForeachReachesAll` is about callbacks that remove their own,
which is what the comment of the function allows; the removal of another one,
for which it promises that the walk halts, is not noticed when it shifts an
entry into the current slot.  A callback that puts entries is left out: when
the table grows the walk goes on in memory that was freed.  What a walk has
seen is forgotten with the next call.

Not in the model: entries whose data is NULL, which the program never puts, the
metrics, and the text of the hash functions.

### Machine, ExpressionGen, FunctionGen and Meaning

These compile a program *and run it*.  `todo` is the work of the active
generators, the innermost first; a step is one call of a generator, or what it
does after one, and appends instructions to `code`.  A tree names only the
precedence levels that have more than one child, since the others only call the
next.  `exp_states` holds `state->exp_state` and those that `generate_exp` has
saved.  When nothing is left to generate the labels are resolved and `Machine`
runs the code: operand stack, registers, frames of calls, the debugger's
scopes.  An unknown value may count as true or as false, so every branch is
taken.

Values are symbolic and `log` records what was done to which values in which
order: loads, stores, calls, tests, operations.  `Meaning` computes such a log
directly from the tree, with neither stack nor registers nor flags, and
`DoesWhatIsMeant` says that every program comes to the end of its code and that
the two are then equal, so it also says that no operand is asked for that was
not pushed.  It covers at once what is hard here: the lvalue flags, the operands of method
calls, the order of operands, short circuits, default values, loops left by a
return, the object of the caller after a call.  `RefusesExactly` compares the
expressions refused with those that cannot be meant, and `ScopesFollowCalls` is
about the debugger's scopes, for programs whose functions end with a return: one
that falls off its end does not leave its debug scope.

`Meaning` follows the code where nothing says what is meant: the value of an
assignment is computed before its target, a compound assignment evaluates the
target twice, `a..b..c` uses only the first two.  Accepted, with nothing stored,
are assignments to a literal, to a parenthesised expression and to `super`;
`a + b = 1` stores into both; a member that is named `this`, `empty`, `true` or
`false` is loaded as that literal; `a.string(x)` ignores x.  A `return` without
value leaves the return register as it was.  `in`, `instanceof`, unary `+`,
`typeof`, `++` and `--` are parsed and refused.

Not in the model: the return sequence of conversion methods (`string`), whose
relative stack positions are the machine's; the parameters of system calls as
names in their own default values, since `generate_syscall` declares none; and
what loops and jumps do, which is in `StatementGen`.

### Classes

A class is a map with its methods, its fields and its allocator, its prototype
the map of the class it extends; an instance is a map whose prototype is the
class.  `generate_class` is one step per class in the order of the text;
the rest runs statements of a main program that make instances and call
methods, with bodies that store a field, call a method of this or of super.
`LoadItem` is the machine's search through the prototypes.
`SuperReachesParent` and `InstancesHaveTheirMethods` compare with the hierarchy
as it is written.  `WritesStayInFamily` is about stores: what a statement does
to an instance changes no other instance and no class that it is not of.

Two kinds of programs are in the model though the code does not do what they
say (section 4), and the properties name them.  A class that extends `lib.k` has
no prototype, so what it should inherit is asked only of programs that extend
classes of their own file (`ExtendsByName`); and `super` in a method that is
inherited is not that of the class that wrote it, so what it reaches is asked
only where none is inherited (`SuperIsNotInherited`).  `WritesStayInFamily` is
asked of all.

Hierarchies have no cycles, and no field has the name of a method: these are
assumptions on the constant `Programs`.  Static members and the prototypes of built-in types
are left out.  A field whose default is `new` of a class further down is not in
the model: that class has no allocator yet.

### Enums

One step of the loop of `generate_enum` over the children of the tree.  A number
counts in a long, which is taken to be wide enough, and is emitted as an int,
which has `IntBits` bits here.  Values are those that `strtol` with base 0 has
read: `010` is eight.

### Modules

Each file is compiled (`todo` holds its imports, exports and exported
declarations, in the order of the passes), then the linked program runs: `frames` are the texts and import processors that are
active, `r0` the register in which the processor finds its map.  Names are
sequences of letters, since the processor takes them apart; it meets the keys of
a map in any order.  That linking a module twice gives the same map, and that
`@init` runs its text, is the machine's.

Imports have no cycles (`ImportsAssumption`): each file is compiled alone and
nothing would notice them.  A file may export two things under one name, or one
under a name that is the key of another, and nothing checks it: which of them
the importer finds then depends on the order of the keys.  An export is `Clear`
if no other has its name or its key as a name, nor is its name the key of
another; `ImportsGiveExports` says that whoever has passed an import finds every
clear one as it is meant, whatever becomes of the others (`FindsClearOffers`),
and of all that it finds that it has an exported name and holds something
exported under a name that ends in this one (`FindsOffers`), since a key that is
renamed more than once loses more than its letter.  Of names it is assumed only
that no identifier has an `@` (`LettersAssumption`).  Not in the model: the operand that the processor leaves for a key that
begins with `@`, which the machine drops when the text ends.

### SyntaxTree

`results` are the results that the parsers have in hand, `derivations` the
rules and terminals they stand for.  A step is a terminal, an absent part, a
sequence or repetition (`mpcf_fold_ast`) or the reference to a rule
(`mpcaf_grammar_id`), in any order.  The property unfolds what would be the tree
of a program and compares.  Sequences of three parts have one that is
present, as all of the grammar do: otherwise mpc makes an empty node for them.
What terminals match, and positions, are left out.

### Strings

A step is one replacement.  `Units` is what the grammar allows between the
quotes of a literal; memory may fail at each replacement.  `\\\"` in a literal
loses both escapes: all backslashes in front of a quote go.

### Optparse and Driver

`Optparse` is `optparse_long` with permutation: `argv`, `optind` and `subopt`.
Arguments are words, `--`, groups of letters and long options with or without a
value.  `ReadsAsWritten` compares with the reading of `getopt_long`, a recursive
function on the places of the line.  After an unknown letter in a group `subopt` is
left where it is; the program ends there.

`Driver` is `main` with the `compile_*` functions.  `phase` is where the run is:
options, the next input file, the comparison of times, printing the tree,
reading, compiling, opening and writing the output.  Between the steps of a run
sources are edited, the clock advances, and the run may be killed; the next run
finds what it left.  Files hold what they were made from, with their time in
seconds.  A source is good, refused by a generator or does not parse.

Not in the model: `--arch`, whose value nothing uses, the wording of messages,
and errors of the disk during a write.

## 3. Runs

| run | question | bounds |
|---|---|---|
| `statements` | where break, continue and branches lead, the operand stack, labels | 4 statements, 4 levels, two functions; with six shapes of expressions 3 statements, 3 levels |
| `unresolved_do_labels` | are all jumps resolved? (no) | 2 statements |
| `symbols` | name resolution, errors, slots, cleanup, termination | 6 tokens, one variable; blocks with one function or class name, and classes with a method named like the variable and a conversion method |
| `hashmap` | finding, cleanup and growth | 4 keys, table of 4 to 8 slots, hashes 0, 3, 6, 7 |
| `symbol_map` | is it a map that owns its names, with failing memory; do loops end; does a walk reach every entry | 3 keys, two data, table of 4 to 8 slots, hashes 3, 7 |
| `overfull_table` | finding in a table more than half full (no) | the true size 256, 129 keys |
| `programs` | does compiled code do what expressions and programs mean | some 2000 expressions, targets of up to three links, and some 370 programs of two functions and a system call; 3 true answers |
| `classes` | methods, super and stores in every hierarchy | 648 programs of three classes, two methods, 3 statements |
| `modules` | what importers find, who is initialized, what is refused | three files, 1024 programs |
| `algorithms` | options as written; enums; the unfolded tree that of the grammar; what `str_replace` removes, and that it ends | 4 of 16 arguments; 3 entries, ints of 3 bits; 8 parsers, 4 results in hand; 5 characters or escapes |
| `driver` | which file is written, from which source; failures | two runs, 21 command lines, one edit, two seconds |
| `driver_parse_errors` | is a parse error reported (no) | the same |

Why they are enough.  Statements: the interesting cases are a loop within a
loop, a conditional between them, a break after an inner loop closed, and a
default value or a second function beside them; four statements reach each of
these.  `uniqueid` is not bounded but by the number of statements.  Symbols: six
tokens are a declaration and a use with two nested scopes around either, or two
functions; one variable name suffices, since a lookup never compares two names
with each other but only with itself in different scopes, and in the second kind of
programs a variable and a function share a name.  Hash map: 3, 6 and 7 are slots at the
end of the table of 8 from which chains wrap to slot 0, and 3 and 7 collide
before the growth and not after; four keys fill half of the table of 8.
Keys are never compared otherwise, so more keys only lengthen chains; in
`symbol_map`, the hashes of 1, 2 and 3 are in order, since names may be renamed.
Expressions: a generator talks to its children over flags and operands only,
and every kind of node stands in every kind of place; three links are one whose
object is a chain itself, between two others.  Programs: two functions are a
caller and a callee, also of each other; `MaxTests` lets loops run and end.
Classes: a grandparent, a parent and a child, each before or after the others,
and a class that extends by a path.
Modules: the diamond of a main file and a module that import the same third;
exports under the name of another, under the key of another, and under a name
whose key loses two or three letters.
Syntax tree: mpc treats no, one and more children differently, and three levels
of rules over each are built.  Driver: the second run meets whatever the first
left, killed or not.

Deadlock is checked in the three runs of the hash map; everywhere else a
program, a compilation or a run ends.

### Fairness

The program is one thread without waits, so a step that is possible is
eventually taken: the specifications with a liveness property assume weak
fairness of the program's own steps only.  In `Symbols`, `ExpressionGen`,
`FunctionGen`, `Modules` and `Optparse` that is any step, in `Hashmap` the
cleanup loop and in `HashmapForeach` the walk, whose callers do nothing else
while they run, in `Strings` a step in which memory does not fail.  No call is
assumed ever to come, and nothing is assumed to fail.

## 4. Disagreements found

Each of these is a run that TLC shows violated; `PROJECT.json` quotes the line
the code disagrees with.

* `generate_do` registers `@while_N` for continue and `@enddo_N` for break, but
  emits the first only for a loop with a `while` clause and the second only for
  one without.  A break in `do ... while`, or a continue in a plain `do`,
  jumps to a label that does not exist and the assembler rejects the output,
  which `test/frontend.cpp` expects never to happen.
* `HASHMAP_INDEX_LE` compares slots by one bit of their difference.  When a
  chain is longer than half of the table, which the load factor of 0.75
  permits, a removal may move an entry in front of its home slot, where
  `hashmap_get` does not find it.
* A source that does not parse is a null pointer in `compile_file_to_file` and
  in `main`.

These were met while modelling and are kept out of the inputs or out of the
properties, as said at the modules:

* an assignment to the result of a method call is compiled and stores nothing;
* `^` is in the grammar, and the generator of its level knows only `|`;
* a function may be called `endfor_0`, as the label of a loop is;
* `super` is found from the object: an inherited method that uses it calls
  itself, and what `super.new()` stores is stored in the class;
* `extends lib.k` loads an item with an empty name, so the class has no
  prototype;
* an enum whose first entry stands on the line of its name loses it;
* a module that exports a function as `x` and something else as `fx` may lose
  one of them when the import processor takes the letters away, in some orders of
  the keys (`FindsOffers` says what is certain);
* `hashmap_foreach` does not always notice that its callback removed another
  entry;
* `-N` skips a source that was changed in the second in which it was compiled,
  and looks at the bytecode when the assembly would be written; `-S` writes a
  file.

## 5. Proofs

Checked by TLAPS, for all values of the constants.  The bounds that make the
models finite (`MaxPos`, `MaxNesting`, `MaxTokens`) are constants too and play no
part in the arguments: a theorem is about programs of any length and nesting,
tables of any size, and any number of files.

Each property below is also checked by a run.  Every inductive invariant was
given to TLC before it was proved.

### StatementGen

* `TypeCorrect` (`StatementGenProofs`): `TypeOK`.  The inductive invariant is
  `TypeInv`, which strengthens it with `StacksMatch`: the three stacks are as
  long as `frames`, and each entry of the label stacks is the label that the
  generator of that frame registered.  Without it, that leaving a scope keeps
  the stacks in step with the generators does not follow.
* `BreakAndContinueAreCorrect` (same module): `JumpsTargetInnermostLoop`, from
  `StackInv` and what the search for the last label that is not NULL returns.
* `LabelsAreUniqueHolds` (same module): `LabelsAreUnique`.  The
  property is not inductive, since a generator emits its end labels long after
  it took their number.  `LabelInv` adds the labels that the active generators
  have still to emit: they are not emitted yet, no two generators owe the same
  one, every number in use is below `uniqueid`, and a function owes its end
  label only after its entry.  Each action is then shown to add only labels
  that it owed or that carry a number from `uniqueid` on.
* `StatementsAreBalancedHolds`, `JumpsKeepDepthHolds`,
  `BackwardJumpsRepeatLoopsHolds`, `JumpsAreResolvedHolds` and
  `JumpsStayInFunctionHolds` (`StatementGenProofs`).  A jump and its label
  are emitted with any number of statements between them, so none of these is
  inductive.  `FlowInv` speaks of the numbers that active generators have taken:
  whatever in the text carries the number of an active generator has that
  generator's base depth, three operands for each `for` loop around it; no
  other generator has the number; its forward labels are owed, its backward
  ones defined; and what lies within a function that is complete carries
  numbers of its own.  The five properties follow from it together.  TLC checks
  `FlowInv` for three statements at three levels, in 816244 states.

### Symbols

`SymbolsTypeOKHolds`, `SlotsAreDistinctHolds`, `LocalsAreForgottenHolds` and
`GlobalsArePermanentHolds` (`SymbolsProofs`).  The two passes over a function
must meet the same blocks, or `leave_scope` of the one leaves something of the
other.  `Inv` says so with a history, `opens`: which constructs are open after
each token.  The scope *mirrors* the constructs around the position of the pass,
component by component; locals and parameters have keys below the function
around them (`LocalKeys`) and globals keys outside of any (`GlobalKeys`); and
the counters are above every slot that is in use.  TLC checks it with six
tokens, in 2,066,005 states.

`ResolvesLexicallyHolds` and `ErrorsAreExactHolds` (same module) compare the
compiler with a meaning that is read off the program alone, so the argument has
two halves.

* `MeansInv` is about the steps.  It adds a second history, `places`: the
  constructs around each token, as the tokens that open them (`Tree`).  The
  scope is the `Path` of a place; `Holds` says that the table has exactly the
  entries of what was declared so far in the constructs that are global or in
  the function that is generated (`Live`), each with the entry that is meant and
  under a key that no other declaration has; the counters are the numbers of
  variables met (`NumbersInv`); `GeneratedInv` and `RefersInv` keep what is
  known of tokens that were generated and of what they refer to.  A lookup
  then finds the innermost construct of a place that declares the name
  (`LookupFinding`), a key that is taken is a second declaration
  (`HoldsClash`), and the end of a function takes away the entries of that
  function and no other (`LeaveFunctionTable`).  `ResolvedHolds` is the
  invariant of the two histories.
* The other half has no steps: the places, built token by token, and the
  levels from which `Surrounds` reads the constructs around a token are the same
  thing (`LevelIs`, `SurroundsIs`), and so are what is declared in a construct,
  which construct declares a name, and what the name means (`DeclarationsAre`,
  `DeclaringIs`, `MeaningIs`, `WellScopedIs`).

TLC checks `MeansInv` for all programs of five tokens, in 1,226,382 states.

### Hash map

`HashmapProofs` begins with tables alone: `hashmap_entry_find` finds what is
`Reachable`; growth loses nothing and always finds a slot; in a table at most
half full every chain is shorter than half of the table, so the bit that
`HASHMAP_INDEX_LE` looks at tells the order of slots, each gap that a removal
shifts stays closed for whoever is behind it, and every entry stays within
reach.  The size is a power of two, which is what `SizeAssumption` says.

It draws from this `HashmapInv`: the table is `Sound`, the counter
counts its entries, there is one copy of each name, and the iterator has left
nothing behind that it was to remove.

* `FindsWhatIsStoredHolds`, `EveryNameHasASlotHolds`, `CleanupIsCompleteHolds`.
* `TableIsSymbolMap`: the table implements `SymbolMap`.  Each step keeps, adds
  or drops entries, and each of these is a step of the map or none.
* `NamesAreOwnedHolds`, `ForeachIsSymbolMap` and `ForeachReachesAllHolds`: the
  same for walks with a callback (`ForeachInv`), and that a walk whose callback
  removes its own entries calls it for every name: whoever is not visited yet
  stands at or behind the walk, also after a removal has shifted entries over
  the end of the table.  TLC checks `ForeachInv` in 18120 states.

Assumed are `HashAssumption`, `MemoryAssumption` and `NULLAssumption`, which say
what kind of values the constants are, and as in the runs that removals start in
a table that is at most half full.

### Modules

`RefusesClashesHolds`, `InitializedOnceHolds` and `ImportsGiveExportsHolds`
(`ModulesProofs`), from two invariants.

* `CompileInv`: of each file, the parts that are compiled have given it the
  symbols, links and exports that they stand for, and had no clash.  When all
  files are compiled, the keys of a file are those of its offers and the links
  are its imports in order (`Translated`).
* `RunInv`: ranks go down along the stack, since files have ranks that imports
  go down (`ImportsAssumption`), so no module is on the stack twice and none
  is imported by a text above its own.  Above a text that has imported a module
  stands that module's text or the import processor.  The map of a module is as
  it was linked while its text has not run or not returned; taken apart by the
  processor on top of the stack; or finished.  `Partly` says what a map that is
  taken apart looks like, also when a renamed key has met another one: the keys
  that are left are all in it; every other key is an exported name; what is under
  a key comes from an export whose name ends in it, or from the one that has this
  key while it is left; and a clear export is as it was linked while its key is
  left, and afterwards as it is meant.  No name begins with `@`, so the key of
  `@init` meets none, and it tells a fresh map from a finished one, which is all
  that the emitted code asks before it runs a text again.

TLC checks both on the programs of the run `modules`, in 20426 states.

### Enums

`EnumIsAsWrittenHolds` (`AlgorithmsProofs`).  `LoopInv` says of the loop how many
entries it has met (`Reached`: where entries are among the children), that the
running number is the number meant for the next entry unless that has its own,
and that the map holds those of the entries met (`Built`).  It is for enums
whose first entry stands on a line of its own (`Grammatical`): the others lose
it, as section 4 says.  TLC checks it for up to three entries, in 49327 states.

### Strings

`VerbatimButForQuotesHolds` (`AlgorithmsProofs`), for any literals over any characters
of which a quote and a backslash are two (`CharactersAssumption`).  That the loop
looks at its own result is what makes it hard: a replacement may join a backslash
and a quote that stood apart.  `StringInv` says that what is left can be traced to the
text (`Traces`): its characters come from increasing places of it, and what is
missing are backslashes with nothing but backslashes between them and a quote.  A
replacement loses one more of these (`ReplaceTraces`), since between the backslash
it takes and the quote behind it only such backslashes are missing.  At the
end strstr finds nothing, so no place that is left is one of these either
(`LeftIsKept`), and the places left, in order, are those that are kept
(`CountIncreasing`).  TLC checks `StringInv` for up to three characters or escapes, in
770 states.

### Classes

`WritesStayInFamilyHolds`, `InstancesHaveTheirMethodsHolds` and
`SuperReachesParentHolds` (`ClassesProofs`), for any number of classes,
instances and statements, and for hierarchies of any depth.

The search along prototypes and the ancestors of a class are recursive
functions.  That there is a function which satisfies the equation is
`RecursionOnRank` of `ProofLemmas`: whatever looks only at places of smaller
rank defines one.  The rank is the one that `HierarchyAssumption` gives to
classes, with instances above them (`HeapDescends`).  From the equations, what
holds along a hierarchy follows by taking the first class, or the first map, for
which it fails (`FirstOfHierarchy`, `FirstOfHeap`).

* `HeapInv`: a class that is built has its allocator and its own methods in its
  map, under the names of inherited methods nothing, and the map of its parent,
  built or not, as its prototype; an instance has its class, its mark and no
  methods.  It stays so because what statements store is a field, and those
  have other names (`NamesAssumption`).  `LookupsAreDefined` is what the
  hierarchy makes of it: whatever a class or an instance finds is what was
  written nearest.
* `RunInv`: the this of every running method is the instance of the statement or
  the map of one of its classes, and what it has still to do is part of its
  body.  `SuperIsInvolved` shows that `super` does not lead out of them.
* `FramesAreDefined`: every running method is the one that the class of its
  this finds.  Together with `SuperIsOwn`, that a class which finds a method
  with `super` wrote it itself, it tells that the class of this is the class
  whose method is running, which is what `SuperReachesParent` compares with.

TLC checks the three on the programs of the run `classes`, in 110827 states.

### Option parser

`ReadsAsWrittenHolds` (`DriverProofs`), for any options and any command lines.
Assumed are only what kind of values these are: arguments are words, `--`,
long options or groups of at least one letter (`LinesAssumption`), options have
one of three types, and their letters are none of the two values by which the
parser tells that it has ended (`OptionsAssumption`).

The meaning is read off the line that was written; the parser works on an argv
that it has permuted.  `OptionsInv` says how the two belong together between
calls (`AtArgument`): what was returned and what is left to read, from some
argument and some letter in it on (`Rest`), are the meaning of the line; from that
argument on argv is the line as it was written (`Facing`), and between
`optind` and it stand the words that were passed, in their order.

A call does not loop but calls itself for the next argument, and moves a word
behind what that call has read.  `Call` says what the call that begins at an
argument leaves, also of argv (`Moved`), and is proved from the last argument
of the line downwards (`DownwardInduction` in `ProofLemmas`), with `WordPassed`
as the step.  `LetterRead` and `LongRead` compare one option with its meaning, case
by case.  `ReadLettersEach` and `MeaningsEach` give the equations of the
recursive functions.

### Driver

`FailureWritesNothingHolds` (`DriverProofs`).  `FailureInv` adds where a run is:
as long as it has not opened its output the files that are no sources are those
it found, and after that no step reports failure.  What was opened can be lost
when the run crashes or is killed, which is why the theorem is about failures
only.  It holds for every set of options and lines; no assumption on the
constants is used.  TLC checks `FailureInv` in 167187 states.

`DoesWhatWasAskedHolds`, for any sources, options and lines under the two assumptions
of the option parser.  The options and input files are read off the whole line;
the program sets its variables one option at a time.  `AskedInv` follows it
phase by phase.  While options are read, `OptionsInv` holds and the variables are
what the options returned so far ask for (`Sets`; `ChoiceAppend` says what one
more option changes, `OptionSets` that the program changes the same).  When they
end, what was returned is all that the line asks for (`Chosen`), and the words of the
line that are left are the arguments behind `optind`, which `optparse_arg` steps
over one by one (`WordsLeft`).  The file that is compiled is the first one not
skipped (`FileMet`), what is written is made from it (`CodeMade`), and it is
written to the one file that was asked for (`OnlyTarget`, `TargetIsAsked`): with
`-A` or `-S` wherever they stand among the options, with the last `-o`, and with
the last level of `-d`.  Afterwards only edits change files, and they change sources,
which is why the property leaves open what an output holds that is a source itself.
TLC checks `AskedInv` in the same 167187 states.

### Model-checked only

* Liveness (`DoesWhatIsMeant`, `Terminates`, `LoopsEnd`, `Ends`,
  `ReplacementEnds`): the prover handles neither fairness nor ENABLED.
* What compares with a meaning that is defined over whole texts or trees:
  `RefusesExactly` and `ScopesFollowCalls` in `MCPrograms`, and the trees of
  `SyntaxTree`, whose `mpc_unfold` is a RECURSIVE operator.

## 6. Plan

Models: conversion methods in `FunctionGen`, static members in `Classes`, enums
and imports as symbols in `Symbols`.

## 7. Not modelled

* The text that terminals match, and the parser combinators beyond how they
  build nodes: generated and vendored code.  Positions, and the wording of
  messages.
* The assembler and the machine: external.  What the models take for granted of
  them is in `Machine`, in the labels of `StatementGen` and, marked external in
  the map, in `Classes`, `Enums` and `Modules`.
* The length of texts: `append_output` formats into a buffer of 2048 characters
  more than its format, which a long name, literal or `asm` text may exceed.
* The loop of the lookup of a name, which shortens the scope by one component at
  a time: `Lookup` in `Symbols` is its result.
* Callers of `symbol_table_hashmap_put` that ignore its failure, and the
  sections of the output.
* The metrics of the hash map, which only another build has.
* Cycles of classes or imports, about which no file says anything.
