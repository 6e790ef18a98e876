------------------------------- MODULE Enums -------------------------------
(***************************************************************************)
(* Enums as generate_enum compiles them: the map of the enum, made when    *)
(* its name was declared, gets an item for each entry of the syntax tree   *)
(* of the enum.  An entry is a record of its name and its value, or        *)
(* NoValue.  Numbers count in a long, taken to be wide enough for every    *)
(* value in an enum and its successors, and are emitted as an int, which   *)
(* is narrow here.                                                         *)
(***************************************************************************)
EXTENDS Integers, Sequences

CONSTANTS
    Entries,   \* the entries that an enum may have
    Lengths,   \* how many of them it may have
    LineEnds,  \* how many ends of line may follow the name of the enum
    NoValue,
    IntBits    \* width of an int

VARIABLES
    entries,  \* as they are written
    children, \* the syntax tree of the enum
    i,        \* the child at which the loop is, counted from 0
    it,       \* the number of the next entry
    items     \* the map of the enum at run time

vars == <<entries, children, i, it, items>>

AsInt(n) == ((n + 2^(IntBits - 1)) % 2^IntBits) - 2^(IntBits - 1)

-----------------------------------------------------------------------------
(* The tree: "enum", the name, the ends of the line, the entries with what  *)
(* separates them, "end", the end of the line.                              *)

Token(tag) == [tag |-> tag]
Decl(entry) == [tag |-> "enumDecl", entry |-> entry]

Child(es, eos, n) == \* child n of the tree, after the name and eos ends of line
    IF n < eos THEN Token("eos")
    ELSE IF n - eos < 2 * Len(es) - 1
         THEN IF (n - eos) % 2 = 0 THEN Decl(es[((n - eos) \div 2) + 1]) ELSE Token(",")
    ELSE Token("end")

Tree(es, eos) == [n \in 0..(eos + 2 * Len(es) + 2) |->
                    IF n < 2 THEN Token("name") ELSE Child(es, eos, n - 2)]

FirstEntry == 3

Init ==
    /\ entries \in UNION {[1..n -> Entries] : n \in Lengths}
    /\ \E eos \in LineEnds : children = Tree(entries, eos)
    /\ i = FirstEntry
    /\ it = 0
    /\ items = <<>>

\* What an entry sets the running number to.
Start(entry) == IF entry.value = NoValue THEN it ELSE entry.value

\* A faulty variant: a value of its own does not move the running number.
AdvancedUnlessGiven(entry, start) == IF entry.value = NoValue THEN start + 1 ELSE it

Advanced(entry, start) == start + 1

Store(name, value) == [n \in DOMAIN items \cup {name} |-> IF n = name THEN value ELSE items[n]]

enumDecl ==
    /\ i \in DOMAIN children /\ children[i].tag = "enumDecl"
    /\ LET entry == children[i].entry
       IN  /\ items' = Store(entry.name, AsInt(Start(entry)))
           /\ it' = Advanced(entry, Start(entry))
    /\ i' = i + 1
    /\ UNCHANGED <<entries, children>>

Other ==
    /\ i \in DOMAIN children /\ children[i].tag /= "enumDecl"
    /\ i' = i + 1
    /\ UNCHANGED <<entries, children, it, items>>

Next == enumDecl \/ Other

Spec == Init /\ [][Next]_vars

-----------------------------------------------------------------------------
(* Properties.                                                              *)

\* The number that is meant for entry k: its own value, or as many more than
\* the last value in front of it, or than 0 for the first entry, as entries
\* lie between.
Meant(k) ==
    LET valued == {j \in 1..k : entries[j].value /= NoValue}
        from == CHOOSE j \in valued : \A o \in valued : o <= j
    IN  AsInt(IF valued = {} THEN k - 1 ELSE entries[from].value + (k - from))

(* When the enum is built each of its names gives the number of the last   *)
(* entry of that name, counted from the values written in front of it, in  *)
(* the width of an int (generator_enum.c, the loop of generate_enum).      *)
EnumIsAsWritten ==
    i \notin DOMAIN children =>
        /\ DOMAIN items = {entries[k].name : k \in DOMAIN entries}
        /\ \A k \in DOMAIN entries :
              (\A l \in (k + 1)..Len(entries) : entries[l].name /= entries[k].name)
                => items[entries[k].name] = Meant(k)

=============================================================================
