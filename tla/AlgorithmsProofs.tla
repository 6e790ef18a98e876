-------------------------- MODULE AlgorithmsProofs --------------------------
(***************************************************************************)
(* Proofs about Enums and Strings: enums of any length, with any values    *)
(* and of ints of any width, are built as they are written; and texts of   *)
(* any length lose the backslashes in front of their quotes, and no others.*)
(***************************************************************************)
EXTENDS Enums, Strings, ProofLemmas, FiniteSetTheorems

\* What the grammar lets an enum be.  Its first entry stands on a line of its own.
Grammatical ==
    /\ Lengths \subseteq Nat
    /\ LineEnds \subseteq Nat \ {0}
    /\ \A e \in Entries : e.value # NoValue => e.value \in Int

-----------------------------------------------------------------------------
(* The invariant of the loop.                                               *)

\* The number that is meant for an entry, before it becomes an int.
Valued(k) == {j \in 1..k : entries[j].value # NoValue}
From(k) == CHOOSE j \in Valued(k) : \A o \in Valued(k) : o <= j
Number(k) == IF Valued(k) = {} THEN k - 1 ELSE entries[From(k)].value + (k - From(k))

\* Behind the name and eos ends of line, the loop has met the first d entries.
Reached(eos, d) ==
    /\ children = Tree(entries, eos)
    /\ d = 0 \/ eos + 2 * d < i
    /\ d = Len(entries) \/ i <= eos + 2 * d + 2

\* The map holds the number of the last of the first d entries of each name.
Built(d) ==
    /\ DOMAIN items = {entries[k].name : k \in 1..d}
    /\ \A k \in 1..d :
          (\A l \in (k + 1)..d : entries[l].name # entries[k].name)
            => items[entries[k].name] = AsInt(Number(k))

LoopInv ==
    /\ entries \in Seq(Entries)
    /\ i \in Nat /\ i >= FirstEntry
    /\ \E eos \in Nat \ {0}, d \in 0..Len(entries) :
          /\ Reached(eos, d)
          /\ it = IF d = 0 THEN 0 ELSE Number(d) + 1
          /\ Built(d)

-----------------------------------------------------------------------------
(* Numbers.                                                                 *)

\* The last value in front of an entry.
LEMMA LastValue ==
    ASSUME NEW k \in Nat, Valued(k) # {}
    PROVE  From(k) \in Valued(k) /\ \A o \in Valued(k) : o <= From(k)
<1>1. Valued(k) \subseteq 1..k
  BY DEF Valued
<1>2. \E j \in Valued(k) : \A o \in Valued(k) : o <= j
  BY <1>1, GreatestElement
<1> QED
  BY <1>2 DEF From

\* An entry has its own value, or one more than the entry in front of it.
LEMMA NextNumber ==
    ASSUME Grammatical, entries \in Seq(Entries), NEW d \in Nat, d < Len(entries),
           it = IF d = 0 THEN 0 ELSE Number(d) + 1
    PROVE  Number(d + 1) = Start(entries[d + 1])
<1> DEFINE e == entries[d + 1]
<1>1. d + 1 \in 1..Len(entries) /\ e \in Entries
  OBVIOUS
<1>2. \A j : j \in Valued(d + 1) <=> (j \in Valued(d) \/ (j = d + 1 /\ e.value # NoValue))
  BY DEF Valued
<1>3. CASE e.value # NoValue
  <2>1. d + 1 \in Valued(d + 1) /\ \A o \in Valued(d + 1) : o <= d + 1
    BY <1>3 DEF Valued
  <2>2. From(d + 1) = d + 1
    <3>1. From(d + 1) \in Valued(d + 1) /\ \A o \in Valued(d + 1) : o <= From(d + 1)
      BY <2>1, LastValue
    <3>2. From(d + 1) \in Nat
      BY <3>1 DEF Valued
    <3> QED BY <2>1, <3>1, <3>2
  <2>3. e.value \in Int
    BY <1>1, <1>3 DEF Grammatical
  <2>4. Number(d + 1) = e.value + ((d + 1) - (d + 1))
    BY <2>1, <2>2 DEF Number
  <2> QED BY <1>3, <2>3, <2>4 DEF Start
<1>4. CASE e.value = NoValue
  <2>1. Valued(d + 1) = Valued(d)
    BY <1>2, <1>4
  <2>2. Start(e) = it
    BY <1>4 DEF Start
  <2>3. CASE Valued(d) = {}
    <3>1. Number(d + 1) = d /\ (d # 0 => Number(d) = d - 1)
      BY <2>1, <2>3 DEF Number
    <3> QED BY <2>2, <3>1
  <2>4. CASE Valued(d) # {}
    <3>1. From(d + 1) = From(d) /\ From(d) \in 1..d /\ entries[From(d)].value # NoValue
      BY <2>1, <2>4, LastValue DEF From, Valued
    <3>2. entries[From(d)].value \in Int
      <4>1. entries[From(d)] \in Entries
        BY <3>1
      <4> QED BY <3>1, <4>1 DEF Grammatical
    <3>3. Number(d) = entries[From(d)].value + (d - From(d))
      BY <2>4 DEF Number
    <3>4. Number(d + 1) = entries[From(d)].value + (d + 1 - From(d))
      BY <2>1, <2>4, <3>1 DEF Number
    <3> QED BY <2>2, <3>1, <3>2, <3>3, <3>4, SMTT(30)
  <2> QED BY <2>3, <2>4
<1> QED
  BY <1>3, <1>4

-----------------------------------------------------------------------------
(* The loop.                                                                *)

\* Where the entries are among the children.
LEMMA Children ==
    ASSUME entries \in Seq(Entries), NEW eos \in Nat \ {0}, children = Tree(entries, eos),
           NEW n \in Nat, n >= FirstEntry
    PROVE  /\ n \in DOMAIN children <=> n <= eos + 2 * Len(entries) + 2
           /\ n \in DOMAIN children =>
                 (children[n].tag = "enumDecl" <=> \E d \in 0..(Len(entries) - 1) : n = eos + 2 * d + 2)
           /\ \A d \in 0..(Len(entries) - 1) : n = eos + 2 * d + 2 => children[n].entry = entries[d + 1]
<1> DEFINE len == Len(entries)
<1>1. len \in Nat
  OBVIOUS
<1> DEFINE m == n - 2
<1>2. m \in Nat /\ ~ (n < 2)
  BY DEF FirstEntry
<1>3. DOMAIN children = 0..(eos + 2 * len + 2)
  BY DEF Tree
<1>4. n \in DOMAIN children => children[n] = Child(entries, eos, m)
  BY <1>2, <1>3 DEF Tree
<1>5. ASSUME NEW d \in 0..(len - 1), n = eos + 2 * d + 2
      PROVE  n \in DOMAIN children /\ Child(entries, eos, m) = Decl(entries[d + 1])
  <2>1. m - eos = 2 * d /\ ~ (m < eos) /\ m - eos < 2 * len - 1 /\ (m - eos) % 2 = 0 /\ (m - eos) \div 2 = d
    BY <1>1, <1>5
  <2>2. n \in DOMAIN children
    BY <1>1, <1>3, <1>5
  <2> QED BY <2>1, <2>2 DEF Child
<1>6. ASSUME \A d \in 0..(len - 1) : n # eos + 2 * d + 2
      PROVE  Child(entries, eos, m) \in {Token("eos"), Token(","), Token("end")}
  <2>1. CASE m < eos
    BY <2>1 DEF Child
  <2>2. CASE ~ (m < eos) /\ m - eos < 2 * len - 1
    <3>1. (m - eos) % 2 # 0
      <4> SUFFICES ASSUME (m - eos) % 2 = 0
                   PROVE  FALSE
        OBVIOUS
      <4> DEFINE d == (m - eos) \div 2
      <4>1. m - eos = 2 * d /\ d \in 0..(len - 1)
        BY <1>1, <1>2, <2>2
      <4> HIDE DEF d
      <4>2. n = eos + 2 * d + 2
        BY <1>2, <4>1
      <4> QED BY <1>6, <4>1, <4>2
    <3> QED BY <2>2, <3>1 DEF Child
  <2>3. CASE ~ (m < eos) /\ ~ (m - eos < 2 * len - 1)
    BY <2>3 DEF Child
  <2> QED BY <2>1, <2>2, <2>3
<1> HIDE DEF m, len
<1>7. n \in DOMAIN children <=> n <= eos + 2 * len + 2
  BY <1>1, <1>3
<1>8. ASSUME n \in DOMAIN children
      PROVE  children[n].tag = "enumDecl" <=> \E d \in 0..(len - 1) : n = eos + 2 * d + 2
  <2>1. CASE \A d \in 0..(len - 1) : n # eos + 2 * d + 2
    <3>1. children[n] \in {Token("eos"), Token(","), Token("end")}
      BY <1>4, <1>6, <1>8, <2>1
    <3>2. Token("eos").tag = "eos" /\ Token(",").tag = "," /\ Token("end").tag = "end"
      BY DEF Token
    <3>3. children[n].tag \in {"eos", ",", "end"}
      BY <3>1, <3>2
    <3> QED BY <2>1, <3>3
  <2>2. ASSUME NEW d \in 0..(len - 1), n = eos + 2 * d + 2
        PROVE  children[n].tag = "enumDecl"
    <3>1. children[n] = Decl(entries[d + 1])
      BY <1>4, <1>5, <1>8, <2>2
    <3> QED BY <3>1 DEF Decl
  <2> QED BY <2>1, <2>2
<1>9. ASSUME NEW d \in 0..(len - 1), n = eos + 2 * d + 2
      PROVE  children[n].entry = entries[d + 1]
  BY <1>4, <1>5, <1>9 DEF Decl
<1> QED
  BY <1>7, <1>8, <1>9 DEF len

\* Before the loop no entry is met.
LEMMA LoopInvInit == Grammatical /\ Init => LoopInv
<1> SUFFICES ASSUME Grammatical, Init PROVE LoopInv
  OBVIOUS
<1>1. PICK n \in Lengths : entries \in [1..n -> Entries]
  BY DEF Init
<1>2. n \in Nat /\ entries \in Seq(Entries) /\ Len(entries) = n
  BY <1>1 DEF Grammatical
<1>3. PICK eos \in LineEnds : children = Tree(entries, eos)
  BY DEF Init
<1>4. i = 3 /\ it = 0 /\ items = <<>> /\ eos \in Nat \ {0}
  BY <1>3 DEF Init, FirstEntry, Grammatical
<1>5. Reached(eos, 0)
  BY <1>3, <1>4 DEF Reached
<1>6. Built(0)
  BY <1>4 DEF Built
<1> QED
  BY <1>2, <1>4, <1>5, <1>6 DEF LoopInv, FirstEntry

\* An entry that is met goes into the map.
LEMMA enumDeclKeeps == Grammatical /\ LoopInv /\ enumDecl => LoopInv'
<1> SUFFICES ASSUME Grammatical, LoopInv, enumDecl PROVE LoopInv'
  OBVIOUS
<1>1. PICK eos \in Nat \ {0}, d \in 0..Len(entries) :
          Reached(eos, d) /\ (it = IF d = 0 THEN 0 ELSE Number(d) + 1) /\ Built(d)
  BY DEF LoopInv
<1> DEFINE len == Len(entries)
<1> DEFINE e == entries[d + 1]
<1>2. /\ entries \in Seq(Entries) /\ i \in Nat /\ i >= FirstEntry /\ len \in Nat
      /\ entries' = entries /\ children' = children /\ i' = i + 1
      /\ i \in DOMAIN children /\ children[i].tag = "enumDecl"
  BY DEF LoopInv, enumDecl
<1>3. d \in 0..(len - 1) /\ i = eos + 2 * d + 2 /\ children[i].entry = e
  <2>1. /\ \E q \in 0..(len - 1) : i = eos + 2 * q + 2
        /\ \A q \in 0..(len - 1) : i = eos + 2 * q + 2 => children[i].entry = entries[q + 1]
    BY <1>1, <1>2, Children DEF Reached
  <2>2. PICK q \in 0..(len - 1) : i = eos + 2 * q + 2
    BY <2>1
  <2>3. q = d
    <3> HIDE DEF len
    <3>1. (d = 0 \/ eos + 2 * d < i) /\ (d = len \/ i <= eos + 2 * d + 2) /\ d \in 0..len
      BY <1>1 DEF Reached, len
    <3> QED BY <1>1, <1>2, <2>2, <3>1
  <2> QED BY <2>1, <2>2, <2>3
<1>4. Number(d + 1) = Start(e)
  BY <1>1, <1>2, <1>3, NextNumber
<1>5. items' = Store(e.name, AsInt(Number(d + 1))) /\ it' = Number(d + 1) + 1
  BY <1>3, <1>4 DEF enumDecl, Advanced
<1>6. \A k : Number(k)' = Number(k)
  BY <1>2 DEF Number, From, Valued
<1>7. Reached(eos, d + 1)'
  <2>1. eos + 2 * (d + 1) < i' /\ i' <= eos + 2 * (d + 1) + 2
    BY <1>2, <1>3
  <2> QED BY <1>1, <1>2, <2>1 DEF Reached
<1>8. Built(d + 1)'
  <2> DEFINE value == AsInt(Number(d + 1))
  <2>1. /\ DOMAIN items' = DOMAIN items \cup {e.name}
        /\ items'[e.name] = value
        /\ \A n \in DOMAIN items : n # e.name => items'[n] = items[n]
    BY <1>5 DEF Store
  <2>2. d + 1 \in 1..(d + 1) /\ \A k : k \in 1..(d + 1) <=> (k \in 1..d \/ k = d + 1)
    BY <1>3
  <2>3. DOMAIN items = {entries[k].name : k \in 1..d}
    BY <1>1 DEF Built
  <2>4. DOMAIN items' = {entries[k].name : k \in 1..(d + 1)}
    BY <2>1, <2>2, <2>3
  <2>5. ASSUME NEW k \in 1..(d + 1), \A l \in (k + 1)..(d + 1) : entries[l].name # entries[k].name
        PROVE  items'[entries[k].name] = AsInt(Number(k))
    <3>1. CASE k = d + 1
      BY <2>1, <3>1
    <3>2. CASE k \in 1..d
      <4>1. entries[k].name # e.name
        <5>1. d + 1 \in (k + 1)..(d + 1)
          BY <1>3, <3>2
        <5> QED BY <2>5, <5>1
      <4>2. \A l \in (k + 1)..d : entries[l].name # entries[k].name
        BY <1>3, <2>5, <3>2
      <4>3. items[entries[k].name] = AsInt(Number(k)) /\ entries[k].name \in DOMAIN items
        BY <1>1, <2>3, <3>2, <4>2 DEF Built
      <4> QED BY <2>1, <4>1, <4>3
    <3> QED BY <2>2, <3>1, <3>2
  <2> HIDE DEF value
  <2> QED BY <1>2, <1>6, <2>4, <2>5 DEF Built, AsInt
<1>9. /\ eos \in Nat \ {0} /\ d + 1 \in 0..len /\ d + 1 # 0
      /\ i + 1 \in Nat /\ i + 1 >= FirstEntry
  BY <1>2, <1>3 DEF FirstEntry
<1> QED
  BY <1>2, <1>5, <1>6, <1>7, <1>8, <1>9 DEF LoopInv

\* Other children are passed.
LEMMA OtherKeeps == Grammatical /\ LoopInv /\ Other => LoopInv'
<1> SUFFICES ASSUME Grammatical, LoopInv, Other PROVE LoopInv'
  OBVIOUS
<1>1. PICK eos \in Nat \ {0}, d \in 0..Len(entries) :
          Reached(eos, d) /\ (it = IF d = 0 THEN 0 ELSE Number(d) + 1) /\ Built(d)
  BY DEF LoopInv
<1> DEFINE len == Len(entries)
<1>2. /\ entries \in Seq(Entries) /\ i \in Nat /\ i >= FirstEntry /\ len \in Nat
      /\ entries' = entries /\ children' = children /\ i' = i + 1 /\ it' = it /\ items' = items
      /\ i \in DOMAIN children /\ children[i].tag # "enumDecl"
  BY DEF LoopInv, Other
<1>3. \A q \in 0..(len - 1) : i # eos + 2 * q + 2
  BY <1>1, <1>2, Children DEF Reached
<1>4. \A k : Number(k)' = Number(k)
  BY <1>2 DEF Number, From, Valued
<1>5. Reached(eos, d)'
  <2>1. (d = 0 \/ eos + 2 * d < i) /\ (d = len \/ i <= eos + 2 * d + 2)
    BY <1>1 DEF Reached
  <2>2. d = len \/ d \in 0..(len - 1)
    BY <1>2
  <2>3. (d = 0 \/ eos + 2 * d < i + 1) /\ (d = len \/ i + 1 <= eos + 2 * d + 2)
    BY <1>1, <1>2, <1>3, <2>1, <2>2
  <2> QED BY <1>1, <1>2, <2>3 DEF Reached
<1>6. Built(d)'
  BY <1>1, <1>2, <1>4, ZenonT(30) DEF Built, AsInt
<1>7. i + 1 \in Nat /\ i + 1 >= FirstEntry
  BY <1>2 DEF FirstEntry
<1> QED
  BY <1>1, <1>2, <1>4, <1>5, <1>6, <1>7 DEF LoopInv

\* The invariant is inductive.
LEMMA LoopInvNext == Grammatical /\ LoopInv /\ [Next]_vars => LoopInv'
<1> SUFFICES ASSUME Grammatical, LoopInv, [Next]_vars PROVE LoopInv'
  OBVIOUS
<1>1. CASE enumDecl
  BY <1>1, enumDeclKeeps
<1>2. CASE Other
  BY <1>2, OtherKeeps
<1>3. CASE UNCHANGED vars
  <2>1. entries' = entries /\ children' = children /\ i' = i /\ it' = it /\ items' = items
    BY <1>3 DEF vars
  <2>2. PICK eos \in Nat \ {0}, d \in 0..Len(entries) :
            Reached(eos, d) /\ (it = IF d = 0 THEN 0 ELSE Number(d) + 1) /\ Built(d)
    BY DEF LoopInv
  <2>3. \A k : Number(k)' = Number(k)
    BY <2>1 DEF Number, From, Valued
  <2>4. Reached(eos, d)' /\ Built(d)'
    BY <2>1, <2>2, <2>3 DEF Reached, Built, AsInt
  <2> QED BY <2>1, <2>2, <2>3, <2>4 DEF LoopInv
<1> QED
  BY <1>1, <1>2, <1>3 DEF Next

\* At its end the loop has met all entries.
LEMMA BuiltAtTheEnd == LoopInv => EnumIsAsWritten
<1> SUFFICES ASSUME LoopInv, i \notin DOMAIN children PROVE EnumIsAsWritten
  BY DEF EnumIsAsWritten
<1>1. PICK eos \in Nat \ {0}, d \in 0..Len(entries) : Reached(eos, d) /\ Built(d)
  BY DEF LoopInv
<1>2. entries \in Seq(Entries) /\ i \in Nat /\ i >= FirstEntry
  BY DEF LoopInv
<1>3. d = Len(entries)
  <2>1. ~ (i <= eos + 2 * Len(entries) + 2)
    BY <1>1, <1>2, Children DEF Reached
  <2> DEFINE len == Len(entries)
  <2>2. len \in Nat /\ d \in 0..len /\ ~ (i <= eos + 2 * len + 2) /\ (d = len \/ i <= eos + 2 * d + 2)
    BY <1>1, <1>2, <2>1 DEF Reached
  <2> HIDE DEF len
  <2>3. d = len
    BY <1>1, <1>2, <2>2
  <2> QED BY <2>3 DEF len
<1>4. DOMAIN entries = 1..d
  BY <1>2, <1>3
<1>5. \A k \in 1..d : Meant(k) = AsInt(Number(k))
  BY DEF Meant, Number, From, Valued
<1> QED
  BY <1>1, <1>3, <1>4, <1>5 DEF EnumIsAsWritten, Built

\* Every name of an enum gives the number of its last entry, however many entries
\* there are, whatever values are written and whichever wrap around in an int.
THEOREM EnumIsAsWrittenHolds ==
    ASSUME Grammatical
    PROVE  Spec => []EnumIsAsWritten
<1>1. Init => LoopInv
  BY LoopInvInit
<1>2. LoopInv /\ [Next]_vars => LoopInv'
  BY LoopInvNext
<1> QED
  BY <1>1, <1>2, BuiltAtTheEnd, PTL DEF Spec

-----------------------------------------------------------------------------
(* The invariant of str_replace.                                            *)

\* string is what is left of text when f[1], f[2] ... are the places of its
\* characters; what is missing are backslashes in front of quotes.
Traces(f, string, text) ==
    /\ f \in [1..Len(string) -> 1..Len(text)]
    /\ \A m, n \in 1..Len(string) : m < n => f[m] < f[n]
    /\ \A n \in 1..Len(string) : string[n] = text[f[n]]
    /\ \A p \in 1..Len(text) :
          (\A n \in 1..Len(string) : f[n] # p) => text[p] = Backslash /\ BeforeQuote(text, p)

Traced(string) ==
    string \in Seq(Characters) /\ \E f \in [1..Len(string) -> 1..Len(Code)] : Traces(f, string, Code)

StringInv ==
    /\ Code \in Seq(Characters)
    /\ ~done \/ newstr # NoString => Traced(newstr)
    /\ done /\ newstr # NoString => Found(newstr) = {}

\* strstr finds a place in its string.
LEMMA FoundPlace ==
    ASSUME NEW string \in Seq(Characters)
    PROVE  /\ \A tok \in 1..(Len(string) - 1) :
                 string[tok] = Backslash /\ string[tok + 1] = Quote => tok \in Found(string)
           /\ \A tok \in Found(string) :
                 tok \in 1..(Len(string) - 1) /\ string[tok] = Backslash /\ string[tok + 1] = Quote
           /\ Found(string) # {} => First(Found(string)) \in Found(string)
<1>1. ASSUME NEW tok \in 1..(Len(string) - 1)
      PROVE  SubSeq(string, tok, tok + 1) = Substr <=> string[tok] = Backslash /\ string[tok + 1] = Quote
  <2> DEFINE found == SubSeq(string, tok, tok + 1)
  <2>1. tok \in Nat \ {0} /\ tok + 1 \in 1..Len(string) /\ tok <= tok + 1 /\ (tok + 1) - tok + 1 = 2
    OBVIOUS
  <2>2. \A k \in tok..(tok + 1) : string[k] \in Characters
    BY <2>1
  <2>3. found \in Seq(Characters) /\ Len(found) = 2
    BY <2>1, <2>2, SubSeqProperties
  <2>4. found[1] = string[tok] /\ found[2] = string[tok + 1]
    BY <2>1
  <2> HIDE DEF found
  <2>5. found = <<found[1], found[2]>>
    BY <2>3
  <2>6. found = Substr <=> found[1] = Backslash /\ found[2] = Quote
    BY <2>5 DEF Substr
  <2> QED BY <2>4, <2>6 DEF found
<1>2. \A tok \in Found(string) :
         tok \in 1..(Len(string) - 1) /\ string[tok] = Backslash /\ string[tok + 1] = Quote
  BY <1>1 DEF Found
<1>3. ASSUME Found(string) # {}
      PROVE  First(Found(string)) \in Found(string)
  <2>1. Found(string) \subseteq Nat
    BY DEF Found
  <2>2. \E tok \in Found(string) : \A j \in Found(string) : tok <= j
    BY <1>3, <2>1, SmallestElement
  <2> QED BY <2>2 DEF First
<1> QED BY <1>1, <1>2, <1>3 DEF Found

\* What a replacement leaves.
LEMMA ReplacedString ==
    ASSUME NEW string \in Seq(Characters), NEW tok \in Found(string)
    PROVE  LET new == Replaced(string, tok)
           IN  /\ new \in Seq(Characters) /\ Len(new) = Len(string) - 1
               /\ \A n \in 1..Len(new) : new[n] = IF n < tok THEN string[n] ELSE string[n + 1]
<1> DEFINE new == Replaced(string, tok)
           front == SubSeq(string, 1, tok - 1)
           back == SubSeq(string, tok + 2, Len(string))
<1>1. tok \in 1..(Len(string) - 1) /\ string[tok] = Backslash /\ string[tok + 1] = Quote
  BY FoundPlace
<1>2. /\ front \in Seq(Characters) /\ Len(front) = tok - 1
      /\ \A n \in 1..(tok - 1) : front[n] = string[n]
  BY <1>1
<1>3. /\ back \in Seq(Characters) /\ Len(back) = Len(string) - tok - 1
      /\ \A n \in 1..(Len(string) - tok - 1) : back[n] = string[tok + 1 + n]
  BY <1>1
<1>4. Replacement \in Seq(Characters) /\ Len(Replacement) = 1 /\ Replacement[1] = Quote
  BY DEF Replacement, Characters
<1>5. new = front \o Replacement \o back
  BY DEF Replaced, Substr
<1> HIDE DEF new, front, back
<1> DEFINE head == front \o Replacement
<1>6. /\ head \in Seq(Characters) /\ Len(head) = tok
      /\ \A n \in 1..tok : head[n] = IF n < tok THEN front[n] ELSE Quote
  <2>1. head \in Seq(Characters) /\ Len(head) = Len(front) + Len(Replacement)
    BY <1>2, <1>4, ConcatProperties
  <2>2. \A n \in 1..(Len(front) + Len(Replacement)) :
           head[n] = IF n <= Len(front) THEN front[n] ELSE Replacement[n - Len(front)]
    BY <1>2, <1>4, ConcatProperties
  <2> HIDE DEF head
  <2>3. Len(front) + Len(Replacement) = tok
    BY <1>1, <1>2, <1>4
  <2>4. \A n \in 1..tok : (n <= tok - 1 <=> n < tok) /\ (~(n < tok) => n - (tok - 1) = 1)
    BY <1>1
  <2> QED BY <1>2, <1>4, <2>1, <2>2, <2>3, <2>4
<1>7. /\ new \in Seq(Characters) /\ Len(new) = tok + (Len(string) - tok - 1)
      /\ \A n \in 1..(tok + (Len(string) - tok - 1)) :
            new[n] = IF n <= tok THEN head[n] ELSE back[n - tok]
  <2>1. new = head \o back
    BY <1>5
  <2> HIDE DEF head
  <2>2. new \in Seq(Characters) /\ Len(new) = Len(head) + Len(back)
    BY <1>3, <1>6, <2>1, ConcatProperties
  <2>3. \A n \in 1..(Len(head) + Len(back)) :
           new[n] = IF n <= Len(head) THEN head[n] ELSE back[n - Len(head)]
    BY <1>3, <1>6, <2>1, ConcatProperties, ZenonT(30)
  <2>4. Len(head) + Len(back) = tok + (Len(string) - tok - 1)
    BY <1>3, <1>6
  <2> QED BY <1>6, <2>2, <2>3, <2>4
<1> HIDE DEF head
<1>8. tok + (Len(string) - tok - 1) = Len(string) - 1
  BY <1>1
<1>9. ASSUME NEW n \in 1..(Len(string) - 1)
      PROVE  new[n] = IF n < tok THEN string[n] ELSE string[n + 1]
  <2>1. CASE n < tok
    <3>1. n \in 1..(tok - 1) /\ n \in 1..tok /\ n <= tok
      BY <1>1, <2>1
    <3> QED BY <1>2, <1>6, <1>7, <1>8, <2>1, <3>1
  <2>2. CASE n = tok
    <3>1. n \in 1..tok /\ n <= tok /\ ~(n < tok)
      BY <1>1, <2>2
    <3> QED BY <1>1, <1>6, <1>7, <1>8, <2>2, <3>1
  <2>3. CASE n > tok
    <3>1. /\ n - tok \in 1..(Len(string) - tok - 1) /\ tok + 1 + (n - tok) = n + 1
          /\ ~(n <= tok) /\ ~(n < tok)
      BY <1>1, <2>3
    <3>2. new[n] = back[n - tok]
      BY <1>7, <1>8, <3>1
    <3>3. back[n - tok] = string[n + 1]
      BY <1>3, <3>1
    <3> QED BY <3>1, <3>2, <3>3
  <2> QED BY <1>1, <2>1, <2>2, <2>3
<1> QED BY <1>7, <1>8, <1>9 DEF new

\* A replacement takes a backslash in front of a quote, and nothing else.
LEMMA ReplaceTraces ==
    ASSUME NEW text \in Seq(Characters), NEW string \in Seq(Characters), NEW tok \in Found(string),
           NEW f, Traces(f, string, text)
    PROVE  LET new == Replaced(string, tok)
               g == [n \in 1..Len(new) |-> IF n < tok THEN f[n] ELSE f[n + 1]]
           IN  Traces(g, new, text)
<1> DEFINE new == Replaced(string, tok)
           g == [n \in 1..Len(new) |-> IF n < tok THEN f[n] ELSE f[n + 1]]
<1>1. tok \in 1..(Len(string) - 1) /\ string[tok] = Backslash /\ string[tok + 1] = Quote
  BY FoundPlace
<1>2. /\ Len(new) = Len(string) - 1 /\ Len(string) \in Nat /\ Len(text) \in Nat
      /\ \A n \in 1..Len(new) : new[n] = IF n < tok THEN string[n] ELSE string[n + 1]
  BY ReplacedString
<1> HIDE DEF new
<1>3. /\ f \in [1..Len(string) -> 1..Len(text)]
      /\ \A m, n \in 1..Len(string) : m < n => f[m] < f[n]
      /\ \A n \in 1..Len(string) : string[n] = text[f[n]]
      /\ \A p \in 1..Len(text) :
            (\A n \in 1..Len(string) : f[n] # p) => text[p] = Backslash /\ BeforeQuote(text, p)
  BY DEF Traces
<1>4. \A n \in 1..Len(new) : /\ n \in 1..Len(string) /\ n + 1 \in 1..Len(string)
                             /\ g[n] = IF n < tok THEN f[n] ELSE f[n + 1]
  BY <1>1, <1>2
<1>5. g \in [1..Len(new) -> 1..Len(text)]
  BY <1>3, <1>4
<1>6. ASSUME NEW m \in 1..Len(new), NEW n \in 1..Len(new), m < n
      PROVE  g[m] < g[n]
  <2>1. m \in Nat /\ n \in Nat /\ tok \in Nat
    BY <1>1, <1>2
  <2>2. CASE n < tok
    BY <1>3, <1>4, <1>6, <2>1, <2>2
  <2>3. CASE ~(m < tok)
    BY <1>3, <1>4, <1>6, <2>1, <2>3
  <2>4. CASE m < tok /\ ~(n < tok)
    BY <1>3, <1>4, <1>6, <2>1, <2>4
  <2> QED BY <2>2, <2>3, <2>4
<1>7. \A n \in 1..Len(new) : new[n] = text[g[n]]
  BY <1>2, <1>3, <1>4
<1>8. ASSUME NEW p \in 1..Len(text), \A n \in 1..Len(new) : g[n] # p
      PROVE  text[p] = Backslash /\ BeforeQuote(text, p)
  <2>1. CASE \A n \in 1..Len(string) : f[n] # p
    BY <1>3, <2>1
  <2>2. CASE \E n \in 1..Len(string) : f[n] = p
    <3>1. PICK n \in 1..Len(string) : f[n] = p
      BY <2>2
    <3>2. n = tok
      <4>1. CASE n < tok
        <5>1. n \in 1..Len(new) /\ g[n] = f[n]
          BY <1>1, <1>2, <1>4, <4>1
        <5> QED BY <1>8, <3>1, <5>1
      <4>2. CASE n > tok
        <5>1. n - 1 \in 1..Len(new) /\ ~(n - 1 < tok) /\ n - 1 + 1 = n
          BY <1>1, <1>2, <4>2
        <5>2. g[n - 1] = f[n]
          BY <1>4, <5>1
        <5> QED BY <1>8, <3>1, <5>1, <5>2
      <4> QED BY <1>1, <4>1, <4>2
    <3> DEFINE q == f[tok + 1]
    <3>3. /\ tok + 1 \in 1..Len(string) /\ tok \in 1..Len(string) /\ tok < tok + 1
          /\ p \in Int /\ q \in 1..Len(text) /\ p < q
      BY <1>1, <1>2, <1>3, <3>1, <3>2
    <3>4. text[p] = Backslash /\ text[q] = Quote
      BY <1>1, <1>3, <3>1, <3>2, <3>3
    <3>5. ASSUME NEW j \in (p + 1)..(q - 1)
          PROVE  text[j] = Backslash
      <4>1. j \in 1..Len(text) /\ p < j /\ j < q
        BY <1>2, <3>3
      <4>2. ASSUME NEW k \in 1..Len(string), f[k] = j
            PROVE  FALSE
        <5>1. CASE k <= tok
          <6>1. k = tok \/ f[k] < f[tok]
            BY <1>1, <1>3, <3>3, <5>1
          <6>2. f[tok] = p
            BY <3>1, <3>2
          <6> QED BY <4>1, <4>2, <6>1, <6>2, <3>3
        <5>2. CASE k >= tok + 1
          <6>1. k = tok + 1 \/ f[tok + 1] < f[k]
            BY <1>1, <1>3, <3>3, <5>2
          <6> QED BY <4>1, <4>2, <6>1, <3>3
        <5> QED BY <1>1, <5>1, <5>2
      <4> QED BY <1>3, <4>1, <4>2
    <3> HIDE DEF q
    <3>6. q \in p..Len(text) /\ \A j \in p..(q - 1) : j = p \/ j \in (p + 1)..(q - 1)
      <4>1. p \in Int /\ q \in Int /\ p < q /\ q <= Len(text) /\ Len(text) \in Int
        BY <1>2, <3>3
      <4> QED BY <4>1
    <3> QED BY <3>4, <3>5, <3>6 DEF BeforeQuote
  <2> QED BY <2>1, <2>2
<1> QED BY <1>5, <1>6, <1>7, <1>8 DEF Traces, new

\* The places at which a text keeps its character.
Keeps(text) == {p \in DOMAIN text : text[p] = Backslash => ~BeforeQuote(text, p)}

\* When no escaped quote is left, what is left is what is kept.
LEMMA LeftIsKept ==
    ASSUME NEW text \in Seq(Characters), NEW string \in Seq(Characters),
           Found(string) = {}, NEW f, Traces(f, string, text)
    PROVE  \A p \in 1..Len(text) : p \in Keeps(text) <=> \E n \in 1..Len(string) : f[n] = p
<1>1. /\ f \in [1..Len(string) -> 1..Len(text)]
      /\ \A m, n \in 1..Len(string) : m < n => f[m] < f[n]
      /\ \A n \in 1..Len(string) : string[n] = text[f[n]]
      /\ \A p \in 1..Len(text) :
            (\A n \in 1..Len(string) : f[n] # p) => text[p] = Backslash /\ BeforeQuote(text, p)
  BY DEF Traces
<1>2. Len(string) \in Nat /\ Len(text) \in Nat /\ DOMAIN text = 1..Len(text)
  OBVIOUS
<1>3. ASSUME NEW p \in Keeps(text)
      PROVE  \E n \in 1..Len(string) : f[n] = p
  BY <1>1, <1>2 DEF Keeps
<1>4. ASSUME NEW n \in 1..Len(string), text[f[n]] = Backslash, BeforeQuote(text, f[n])
      PROVE  FALSE
  <2>1. PICK q \in f[n]..Len(text) :
           text[q] = Quote /\ \A j \in f[n]..(q - 1) : text[j] = Backslash
    BY <1>4 DEF BeforeQuote
  <2>2. q \in 1..Len(text) /\ f[n] \in 1..Len(text) /\ f[n] < q
    <3>1. q # f[n]
      BY <1>4, <2>1, CharactersAssumption
    <3>2. f[n] \in 1..Len(text)
      BY <1>1
    <3> QED BY <1>2, <3>1, <3>2
  <2>3. PICK m \in 1..Len(string) : f[m] = q
    BY <1>1, <2>1, <2>2, CharactersAssumption
  <2>4. n < m
    <3>1. m # n /\ ~(m < n)
      BY <1>1, <2>2, <2>3
    <3> QED BY <1>2, <3>1
  <2>5. m - 1 \in 1..Len(string) /\ m - 1 \in 1..(Len(string) - 1) /\ n <= m - 1
    BY <1>2, <2>4
  <2>6. f[m - 1] \in f[n]..(q - 1)
    <3>1. m - 1 < m /\ (n = m - 1 \/ n < m - 1)
      BY <1>2, <2>5
    <3>2. f[m - 1] < f[m]
      BY <1>1, <2>5, <3>1
    <3>3. f[n] = f[m - 1] \/ f[n] < f[m - 1]
      BY <1>1, <2>5, <3>1
    <3>4. f[m - 1] \in Int /\ f[n] \in Int /\ q \in Int /\ f[m] = q
      <4>1. f[m - 1] \in 1..Len(text)
        BY <1>1, <2>5
      <4> QED BY <1>2, <2>2, <2>3, <4>1
    <3> QED BY <3>2, <3>3, <3>4
  <2>7. string[m - 1] = Backslash /\ string[m - 1 + 1] = Quote
    <3>1. m - 1 + 1 = m
      BY <1>2
    <3> QED BY <1>1, <2>1, <2>3, <2>5, <2>6, <3>1
  <2> QED BY <2>5, <2>7, FoundPlace
<1>5. ASSUME NEW p \in 1..Len(text), NEW n \in 1..Len(string), f[n] = p
      PROVE  p \in Keeps(text)
  BY <1>2, <1>4, <1>5 DEF Keeps
<1> QED BY <1>3, <1>5

\* f[1] < f[2] < ... < f[n] are the elements of S.
Enumerates(f, n, S) ==
    /\ n \in Nat /\ \A k \in 1..n : f[k] \in Int
    /\ \A k, l \in 1..n : k < l => f[k] < f[l]
    /\ \A p : p \in S <=> \E k \in 1..n : f[k] = p

\* A set has as many elements as an increasing enumeration of it.
LEMMA CountIncreasing ==
    ASSUME NEW n, NEW f, NEW S, Enumerates(f, n, S)
    PROVE  Cardinality(S) = n
<1> USE DEF Enumerates
<1> DEFINE h == [k \in 1..n |-> f[k]]
<1>1. h \in [1..n -> S] /\ \A p \in S : \E k \in 1..n : h[k] = p
  OBVIOUS
<1>2. ASSUME NEW k \in 1..n, NEW l \in 1..n, h[k] = h[l]
      PROVE  k = l
  <2>1. f[k] = f[l] /\ f[k] \in Int /\ f[l] \in Int
    BY <1>2
  <2>2. ~(k < l) /\ ~(l < k)
    BY <2>1
  <2> QED BY <2>2
<1> HIDE DEF h
<1>3. h \in Bijection(1..n, S)
  BY <1>1, <1>2 DEF Bijection, Injection, Surjection, IsInjective
<1>4. ExistsBijection(1..n, S)
  BY <1>3 DEF ExistsBijection
<1> QED BY <1>4, FS_CountingElements

\* The characters of a string that is what a text keeps are in the places of that.
LEMMA Verbatim ==
    ASSUME NEW text \in Seq(Characters), NEW string \in Seq(Characters),
           Found(string) = {}, NEW f, Traces(f, string, text)
    PROVE  /\ Len(string) = Cardinality(Keeps(text))
           /\ \A p \in Keeps(text) : string[Cardinality({j \in Keeps(text) : j <= p})] = text[p]
<1>1. /\ f \in [1..Len(string) -> 1..Len(text)]
      /\ \A m, n \in 1..Len(string) : m < n => f[m] < f[n]
      /\ \A n \in 1..Len(string) : string[n] = text[f[n]]
  BY DEF Traces
<1>2. /\ Len(string) \in Nat /\ Len(text) \in Nat
      /\ \A n \in 1..Len(string) : f[n] \in Int /\ f[n] \in 1..Len(text)
  BY <1>1
<1>3. \A p : p \in Keeps(text) <=> \E n \in 1..Len(string) : f[n] = p
  <2>1. \A p \in 1..Len(text) : p \in Keeps(text) <=> \E n \in 1..Len(string) : f[n] = p
    BY LeftIsKept
  <2>2. \A p \in Keeps(text) : p \in 1..Len(text)
    BY DEF Keeps
  <2> QED BY <1>2, <2>1, <2>2
<1>4. Cardinality(Keeps(text)) = Len(string)
  <2> DEFINE kept == Keeps(text)
         total == Len(string)
  <2>1. total \in Nat /\ \A k \in 1..total : f[k] \in Int
    BY <1>2
  <2>2. \A k, l \in 1..total : k < l => f[k] < f[l]
    BY <1>1
  <2>3. \A p : p \in kept <=> \E k \in 1..total : f[k] = p
    BY <1>3
  <2> HIDE DEF kept, total
  <2>4. Enumerates(f, total, kept)
    BY <2>1, <2>2, <2>3 DEF Enumerates
  <2> QED BY <2>4, CountIncreasing DEF kept, total
<1>5. ASSUME NEW p \in Keeps(text)
      PROVE  string[Cardinality({j \in Keeps(text) : j <= p})] = text[p]
  <2> DEFINE upto == {j \in Keeps(text) : j <= p}
  <2>1. PICK n \in 1..Len(string) : f[n] = p
    BY <1>3, <1>5
  <2>2. n \in Nat /\ \A k \in 1..n : k \in 1..Len(string)
    BY <1>2
  <2>3. ASSUME NEW j
        PROVE  j \in upto <=> \E k \in 1..n : f[k] = j
    <3>1. ASSUME NEW k \in 1..n
          PROVE  f[k] \in upto
      <4>1. f[k] <= p
        <5>1. k = n \/ k < n
          BY <2>2
        <5>2. f[k] = f[n] \/ f[k] < f[n]
          BY <1>1, <2>2, <5>1
        <5> QED BY <1>2, <2>1, <2>2, <5>2
      <4> QED BY <1>3, <2>2, <4>1
    <3>2. ASSUME j \in upto
          PROVE  \E k \in 1..n : f[k] = j
      <4>1. PICK k \in 1..Len(string) : f[k] = j
        BY <1>3, <3>2
      <4>2. ~(n < k)
        <5>1. f[k] <= f[n] /\ f[k] \in Int /\ f[n] \in Int
          BY <1>2, <2>1, <3>2, <4>1
        <5>2. n < k => f[n] < f[k]
          BY <1>1, <2>1
        <5> QED BY <5>1, <5>2
      <4>3. k \in 1..n
        BY <1>2, <4>2
      <4> QED BY <4>1, <4>3
    <3> QED BY <3>1, <3>2
  <2> HIDE DEF upto
  <2>4. \A k \in 1..n : f[k] \in Int
    BY <1>2, <2>2
  <2>5. \A k, l \in 1..n : k < l => f[k] < f[l]
    BY <1>1, <2>2
  <2>6. Enumerates(f, n, upto)
    BY <2>2, <2>3, <2>4, <2>5 DEF Enumerates
  <2>7. Cardinality(upto) = n
    BY <2>6, CountIncreasing
  <2> QED BY <1>1, <2>1, <2>7 DEF upto
<1> QED BY <1>4, <1>5

-----------------------------------------------------------------------------
LEMMA StringInvInit == StringsInit => StringInv
<1> SUFFICES ASSUME StringsInit
             PROVE  StringInv
  OBVIOUS
<1>1. Code \in Seq(Characters)
  <2>1. literal \in Seq(Characters)
    BY LiteralsAssumption DEF StringsInit
  <2>2. Len(literal) - 1 \in Int /\ \A p \in 2..(Len(literal) - 1) : literal[p] \in Characters
    BY <2>1
  <2> QED BY <2>2, SubSeqProperties DEF Code
<1> DEFINE f == [n \in 1..Len(Code) |-> n]
<1>2. f \in [1..Len(Code) -> 1..Len(Code)] /\ Traces(f, Code, Code)
  BY <1>1 DEF Traces
<1> QED BY <1>1, <1>2 DEF StringsInit, StringInv, Traced

LEMMA StringInvStep == StringInv /\ [StringsNext]_stringVars => StringInv'
<1> SUFFICES ASSUME StringInv, [StringsNext]_stringVars
             PROVE  StringInv'
  OBVIOUS
<1>1. CASE Replace
  <2> DEFINE p == First(Found(newstr))
  <2>1. /\ ~done /\ ~done' /\ Found(newstr) # {} /\ literal' = literal
        /\ newstr' = Replaced(newstr, p)
    BY <1>1 DEF Replace
  <2>2. Code' = Code /\ Code \in Seq(Characters)
    BY <2>1 DEF Code, StringInv
  <2>3. newstr \in Seq(Characters) /\ \E f : Traces(f, newstr, Code)
    BY <2>1 DEF StringInv, Traced
  <2>4. PICK f : Traces(f, newstr, Code)
    BY <2>3
  <2>5. p \in Found(newstr)
    BY <2>1, <2>3, FoundPlace
  <2>6. newstr' \in Seq(Characters)
    BY <2>1, <2>3, <2>5, ReplacedString
  <2>7. \E g : Traces(g, newstr', Code)
    BY <2>1, <2>2, <2>3, <2>4, <2>5, ReplaceTraces
  <2>8. \E g \in [1..Len(newstr') -> 1..Len(Code)] : Traces(g, newstr', Code)
    BY <2>7 DEF Traces
  <2> QED BY <2>1, <2>2, <2>6, <2>8 DEF StringInv, Traced
<1>2. CASE Return
  BY <1>2 DEF Return, StringInv, Traced, Code
<1>3. CASE OutOfMemory
  BY <1>3 DEF OutOfMemory, StringInv, Code
<1>4. CASE UNCHANGED stringVars
  BY <1>4 DEF stringVars, StringInv, Traced, Code
<1> QED BY <1>1, <1>2, <1>3, <1>4 DEF StringsNext

LEMMA VerbatimAtTheEnd == StringInv => VerbatimButForQuotes
<1> SUFFICES ASSUME StringInv, done, newstr # NoString
             PROVE  /\ Len(newstr) = Cardinality(Keeps(Code))
                    /\ \A p \in Keeps(Code) :
                          newstr[Cardinality({j \in Keeps(Code) : j <= p})] = Code[p]
  BY DEF VerbatimButForQuotes, Keeps
<1>1. /\ Code \in Seq(Characters) /\ newstr \in Seq(Characters)
      /\ Found(newstr) = {} /\ \E f : Traces(f, newstr, Code)
  BY DEF StringInv, Traced
<1> QED BY <1>1, Verbatim

\* The text of an asm statement is that of its literal without the backslashes in
\* front of its quotes, whatever the literal, and in however many replacements.
THEOREM VerbatimButForQuotesHolds == StringsSpec => []VerbatimButForQuotes
<1> QED BY StringInvInit, StringInvStep, VerbatimAtTheEnd, PTL DEF StringsSpec

=============================================================================
