------------------------------ MODULE Strings ------------------------------
(***************************************************************************)
(* The text of an asm statement, as generate_asm takes it from its string  *)
(* literal: without the quotes around it, and with str_replace taking the  *)
(* backslash from each escaped quote.  str_replace looks for the next      *)
(* place from the start of what it has made so far, so that what one       *)
(* replacement joins may be replaced by the next.                          *)
(***************************************************************************)
EXTENDS Naturals, Sequences, FiniteSets

CONSTANTS
    Quote, Backslash, \* two characters
    Others,           \* the other characters
    Literals,         \* string literals with their quotes
    NoString          \* what str_replace returns when memory fails

VARIABLES
    literal, \* the string literal with its quotes
    newstr,  \* what str_replace has made of it
    done

stringVars == <<literal, newstr, done>>

Characters == Others \cup {Quote, Backslash}

\* stringlit: a character other than a quote, or a backslash and any character.
Units == {<<c>> : c \in Others} \cup {<<Backslash, c>> : c \in Characters}

ASSUME CharactersAssumption == Quote # Backslash
ASSUME LiteralsAssumption == \A string \in Literals : string \in Seq(Characters)

\* generate_asm: what is between the quotes.
Code == SubSeq(literal, 2, Len(literal) - 1)

Substr == <<Backslash, Quote>>

\* A faulty variant: the quote keeps its backslash.
EscapedQuote == <<Backslash, Quote>>

Replacement == <<Quote>>

\* The places at which strstr may find Substr.
Found(string) == {i \in 1..(Len(string) - 1) : SubSeq(string, i, i + 1) = Substr}

First(places) == CHOOSE i \in places : \A j \in places : i <= j

\* A faulty variant: what follows an escape is taken one character late.
ReplacedShort(string, i) == SubSeq(string, 1, i - 1) \o Replacement \o SubSeq(string, i + Len(Substr) + 1, Len(string))

Replaced(string, i) == SubSeq(string, 1, i - 1) \o Replacement \o SubSeq(string, i + Len(Substr), Len(string))

StringsInit ==
    /\ literal \in Literals
    /\ newstr = Code
    /\ done = FALSE

Replace ==
    /\ ~done
    /\ Found(newstr) # {}
    /\ newstr' = Replaced(newstr, First(Found(newstr)))
    /\ UNCHANGED <<literal, done>>

Return ==
    /\ ~done
    /\ Found(newstr) = {}
    /\ done' = TRUE
    /\ UNCHANGED <<literal, newstr>>

OutOfMemory ==
    /\ ~done
    /\ Found(newstr) # {}
    /\ newstr' = NoString
    /\ done' = TRUE
    /\ UNCHANGED literal

StringsNext == Replace \/ Return \/ OutOfMemory

StringsSpec == StringsInit /\ [][StringsNext]_stringVars /\ WF_stringVars(Replace \/ Return)

-----------------------------------------------------------------------------
(* Properties.                                                              *)

\* Whether a backslash at i has only backslashes between it and a quote.
BeforeQuote(string, i) ==
    \E q \in i..Len(string) : string[q] = Quote /\ \A j \in i..(q - 1) : string[j] = Backslash

(* The text that is emitted is that between the quotes of the literal,     *)
(* without the backslashes that stand in front of a quote and with every   *)
(* other character and backslash in its place (generate_asm, str_replace). *)
VerbatimButForQuotes ==
    done /\ newstr # NoString =>
        LET kept == {i \in DOMAIN Code : Code[i] = Backslash => ~BeforeQuote(Code, i)}
            Place(i) == Cardinality({j \in kept : j <= i})
        IN  /\ Len(newstr) = Cardinality(kept)
            /\ \A i \in kept : newstr[Place(i)] = Code[i]

(* The loop of str_replace comes to its end: it looks for more in what it  *)
(* has put in itself (string_functions.c, the while of str_replace).       *)
ReplacementEnds == <>done

=============================================================================
