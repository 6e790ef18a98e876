---------------------------- MODULE DriverProofs ----------------------------
(***************************************************************************)
(* Proofs about the options and about the program.                         *)
(*                                                                         *)
(* optparse.h returns the options of a command line as they were written.  *)
(* A call that begins at words passes them, reads the option behind them   *)
(* and moves it in front of them: what is left to read stays a part of the *)
(* line as it was written, and the words that were passed stand, in their  *)
(* order, between what was read and that part.                             *)
(*                                                                         *)
(* Between the start of a run and the fopen of its output nothing that the *)
(* program calls changes a file, so a run that fails leaves the files as   *)
(* it found them, whatever the options and the input files are and whoever *)
(* edits the sources meanwhile.                                            *)
(***************************************************************************)
EXTENDS Driver, ProofLemmas, TLAPS

-----------------------------------------------------------------------------
(* What is read.                                                            *)

IsLine(args) == args \in Seq(ToSet(args)) /\ \A i \in DOMAIN args : IsArgument(args[i])

\* The values that options on a line can have, and what an option is returned as.
Valued(args) ==
    {NULL} \cup ToSet(args) \cup {args[i][3] : i \in DOMAIN args}
    \cup {SubSeq(args[i][2], k, Len(args[i][2])) : i \in DOMAIN args, k \in Nat}
Read(args) == {l.shortname : l \in LongOpts} \X Valued(args)

Errors == {"invalid option", "option requires an argument", "option takes no arguments"}

Readings(args) == [options : Seq(Read(args)), words : Seq(ToSet(args)), error : {NULL} \cup Errors]

\* What is read of a line that is refused.
LEMMA RefusedTyped ==
    ASSUME NEW args
    PROVE  /\ Refused("invalid option") \in Readings(args)
           /\ Refused("option requires an argument") \in Readings(args)
           /\ Refused("option takes no arguments") \in Readings(args)
<1>1. \A why \in Errors : Refused(why) \in Readings(args)
  BY DEF Refused, Reading, Readings
<1> QED BY <1>1 DEF Errors

\* An option before what is read behind it.
LEMMA PrefixedTyped ==
    ASSUME NEW args, NEW opt \in Read(args), NEW reading \in Readings(args)
    PROVE  /\ Prefixed(opt, reading) \in Readings(args)
           /\ Prefixed(opt, reading) = [reading EXCEPT !.options = <<opt>> \o reading.options]
<1>1. <<opt>> \in Seq(Read(args)) /\ reading.options \in Seq(Read(args))
  BY DEF Readings
<1>2. <<opt>> \o reading.options \in Seq(Read(args))
  BY <1>1, ConcatProperties
<1> QED BY <1>2 DEF Prefixed, Readings

\* An option with the argument behind it as its value.
LEMMA ReadNextTyped ==
    ASSUME NEW args, NEW l \in LongOpts, NEW value \in Valued(args), NEW others \in Readings(args)
    PROVE  ReadNext(l.shortname, value, others) \in Readings(args)
<1>1. <<l.shortname, value>> \in Read(args)
  BY DEF Read
<1> QED BY <1>1, PrefixedTyped, RefusedTyped DEF ReadNext

\* What is left of a group of letters can be a value.
LEMMA SuffixValued ==
    ASSUME NEW args, NEW i \in DOMAIN args, NEW m \in Nat
    PROVE  SubSeq(args[i][2], m, Len(args[i][2])) \in Valued(args)
<1> DEFINE Suffix(j, k) == SubSeq(args[j][2], k, Len(args[j][2]))
<1>1. Suffix(i, m) \in {Suffix(j, k) : j \in DOMAIN args, k \in Nat}
  <2> HIDE DEF Suffix
  <2> QED OBVIOUS
<1>2. Valued(args) = {NULL} \cup ToSet(args) \cup {args[j][3] : j \in DOMAIN args}
                     \cup {Suffix(j, k) : j \in DOMAIN args, k \in Nat}
  BY DEF Valued
<1> HIDE DEF Suffix
<1>3. Suffix(i, m) \in Valued(args)
  BY <1>1, <1>2
<1> QED BY <1>3 DEF Suffix

\* A letter of a group.
LEMMA ReadLetterTyped ==
    ASSUME NEW args, NEW i \in DOMAIN args, NEW k \in Nat, NEW next \in Valued(args),
           NEW group \in Readings(args), NEW after \in Readings(args), NEW others \in Readings(args)
    PROVE  ReadLetter(args[i][2], k, group, next, after, others) \in Readings(args)
<1> DEFINE letters == args[i][2]
           known == OptionOf("shortname", letters[k])
           l == CHOOSE o \in known : TRUE
           rest == SubSeq(letters, k + 1, Len(letters))
<1>1. CASE known = {}
  <2>1. ReadLetter(args[i][2], k, group, next, after, others) = Refused("invalid option")
    BY <1>1 DEF ReadLetter
  <2> QED BY <2>1, RefusedTyped
<1>2. CASE known # {}
  <2>1. l \in LongOpts
    <3>1. l \in known
      <4> HIDE DEF known
      <4> QED BY <1>2
    <3> HIDE DEF l
    <3> QED BY <3>1 DEF OptionOf
  <2>2. rest \in Valued(args) /\ NULL \in Valued(args)
    <3>1. k + 1 \in Nat
      OBVIOUS
    <3>2. NULL \in Valued(args)
      BY DEF Valued
    <3> QED BY ONLY <3>1, <3>2, i \in DOMAIN args, SuffixValued
  <2>3. <<l.shortname, rest>> \in Read(args) /\ <<l.shortname, NULL>> \in Read(args)
    <3> HIDE DEF l, rest
    <3> QED BY <2>1, <2>2 DEF Read
  <2>4. ReadNext(l.shortname, next, others) \in Readings(args)
    BY <2>1, ReadNextTyped
  <2>5. /\ Prefixed(<<l.shortname, NULL>>, group) \in Readings(args)
        /\ Prefixed(<<l.shortname, rest>>, after) \in Readings(args)
    BY <2>3, PrefixedTyped
  <2>6. ReadLetter(letters, k, group, next, after, others) =
          IF known = {} THEN Refused("invalid option")
          ELSE CASE l.argtype = "NONE" -> Prefixed(<<l.shortname, NULL>>, group)
                 [] l.argtype = "REQUIRED" /\ rest = <<>> -> ReadNext(l.shortname, next, others)
                 [] OTHER -> Prefixed(<<l.shortname, rest>>, after)
    BY DEF ReadLetter
  <2> HIDE DEF known, l, rest, letters
  <2>7. ReadLetter(letters, k, group, next, after, others) \in Readings(args)
    BY <1>2, <2>4, <2>5, <2>6
  <2> QED BY <2>7 DEF letters
<1> QED BY <1>1, <1>2

\* The letters of a group, one by one.
LEMMA ReadLettersEach ==
    ASSUME NEW letters, Len(letters) \in Nat, NEW next, NEW after, NEW others
    PROVE  /\ DOMAIN ReadLetters(letters, next, after, others) = 1..(Len(letters) + 1)
           /\ \A k \in 1..(Len(letters) + 1) :
                  ReadLetters(letters, next, after, others)[k] =
                      IF k > Len(letters) THEN after
                      ELSE ReadLetter(letters, k, ReadLetters(letters, next, after, others)[k + 1],
                                      next, after, others)
<1> DEFINE n == Len(letters) + 1
           Each(f, k) == IF k > Len(letters) THEN after
                         ELSE ReadLetter(letters, k, f[k + 1], next, after, others)
           Solved == {m \in 0..n : \E f : \A k \in (m + 1)..n : f[k] = Each(f, k)}
<1>1. n \in Nat
  OBVIOUS
<1>2. n \in Solved
  <2>1. \A f : \A k \in (n + 1)..n : f[k] = Each(f, k)
    BY <1>1
  <2> QED BY <1>1, <2>1
<1>3. ASSUME NEW m \in 1..n, m \in Solved
      PROVE  m - 1 \in Solved
  <2>1. PICK f : \A k \in (m + 1)..n : f[k] = Each(f, k)
    BY <1>3
  <2> DEFINE g == [k \in 1..(n + 1) |-> IF k = m THEN Each(f, m) ELSE f[k]]
  <2>2. ASSUME NEW k \in m..n
        PROVE  g[k] = Each(g, k)
    <3>1. k + 1 \in 1..(n + 1) /\ k + 1 # m /\ k \in 1..(n + 1)
      BY <1>1
    <3>2. g[k + 1] = f[k + 1]
      BY <3>1
    <3>3. Each(g, k) = Each(f, k)
      <4> HIDE DEF g
      <4> QED BY <3>2
    <3>4. g[k] = Each(f, k)
      <4>1. CASE k = m
        <5> HIDE DEF Each
        <5> QED BY <3>1, <4>1
      <4>2. CASE k # m
        <5>1. k \in (m + 1)..n
          BY <1>1, <4>2
        <5> HIDE DEF Each
        <5> QED BY <2>1, <3>1, <4>2, <5>1
      <4> QED BY <4>1, <4>2
    <3> QED BY <3>3, <3>4
  <2>3. m - 1 \in 0..n /\ (m - 1) + 1 = m
    BY <1>1
  <2> HIDE DEF g, Each, n
  <2> QED BY <2>2, <2>3
<1>4. PICK f : \A k \in 1..n : f[k] = Each(f, k)
  <2>1. 0 \in Solved
    <3> HIDE DEF Solved, n
    <3> QED BY <1>1, <1>2, <1>3, DownwardInduction
  <2>2. 0 + 1 = 1
    OBVIOUS
  <2> HIDE DEF n, Each
  <2> QED BY <2>1, <2>2
<1> DEFINE h == [k \in 1..n |-> IF k > Len(letters) THEN after
                                ELSE ReadLetter(letters, k, f[k + 1], next, after, others)]
           Is(g) == g = [k \in 1..n |-> IF k > Len(letters) THEN after
                                ELSE ReadLetter(letters, k, g[k + 1], next, after, others)]
<1>5. Is(h)
  <2>1. \A k \in 1..n : k <= Len(letters) => k + 1 \in 1..n /\ h[k + 1] = f[k + 1]
    BY <1>4
  <2> QED BY <2>1
<1>6. Is(ReadLetters(letters, next, after, others))
  <2>1. ReadLetters(letters, next, after, others) = CHOOSE g : Is(g)
    BY DEF ReadLetters
  <2> HIDE DEF Is, h
  <2> QED BY <1>5, <2>1
<1> QED
  BY <1>6

\* A group of letters, from any of them on.
LEMMA ReadLettersTyped ==
    ASSUME NEW args, NEW i \in DOMAIN args, args[i][2] \in Seq(ToSet(args[i][2])),
           NEW next \in Valued(args),
           NEW after \in Readings(args), NEW others \in Readings(args)
    PROVE  \A k \in 1..(Len(args[i][2]) + 1) :
               ReadLetters(args[i][2], next, after, others)[k] \in Readings(args)
<1> DEFINE letters == args[i][2]
           n == Len(letters) + 1
           group == ReadLetters(letters, next, after, others)
           T == {k \in 0..n : k # 0 => group[k] \in Readings(args)}
<1>0. Len(letters) \in Nat /\ n \in Nat /\ n # 0
  OBVIOUS
<1>1. \A k \in 1..n : group[k] = IF k > Len(letters) THEN after
                                  ELSE ReadLetter(letters, k, group[k + 1], next, after, others)
  <2> HIDE DEF letters
  <2> QED BY <1>0, ReadLettersEach
<1>2. n \in T
  BY <1>0, <1>1
<1>3. ASSUME NEW k \in 1..n, k \in T
      PROVE  k - 1 \in T
  <2>1. CASE k - 1 = 0
    BY <2>1, <1>0
  <2>2. CASE k - 1 # 0
    <3>1. k - 1 \in 1..n /\ k - 1 <= Len(letters) /\ k - 1 \in Nat /\ (k - 1) + 1 = k /\ k # 0
      BY <1>0, <2>2
    <3>2. group[k - 1] = ReadLetter(letters, k - 1, group[k], next, after, others)
      <4> HIDE DEF group, n
      <4> QED BY <1>0, <1>1, <3>1
    <3>3. group[k] \in Readings(args)
      BY <1>3, <3>1
    <3>4. ReadLetter(letters, k - 1, group[k], next, after, others) \in Readings(args)
      <4> HIDE DEF group
      <4> QED BY <3>1, <3>3, ReadLetterTyped
    <3> QED BY <3>1, <3>2, <3>4
  <2> QED BY <2>1, <2>2
<1>4. \A k \in 0..n : k \in T
  <2> HIDE DEF T, n
  <2> QED BY <1>0, <1>2, <1>3, DownwardInduction
<1>5. ASSUME NEW k \in 1..n
      PROVE  group[k] \in Readings(args)
  <2>1. k \in 0..n /\ k # 0
    BY <1>0
  <2>2. k \in T
    <3> HIDE DEF T
    <3> QED BY <1>4, <2>1
  <2> QED BY <2>1, <2>2
<1> QED BY <1>5

\* What lies behind an argument, as optparse reads it.
NextOf(args, i) == IF i < Len(args) THEN args[i + 1] ELSE NULL

\* The argument behind one can be a value.
LEMMA NextOfTyped ==
    ASSUME NEW args, IsLine(args), NEW i \in DOMAIN args
    PROVE  NextOf(args, i) \in Valued(args)
<1>1. Len(args) \in Nat /\ DOMAIN args = 1..Len(args)
  BY DEF IsLine
<1>2. i < Len(args) => i + 1 \in DOMAIN args
  BY <1>1
<1>3. i < Len(args) => args[i + 1] \in ToSet(args)
  BY <1>2 DEF ToSet
<1> QED BY <1>3 DEF NextOf, Valued

\* An option with a long name.
LEMMA ReadLongTyped ==
    ASSUME NEW args, NEW i \in DOMAIN args, NEW next \in Valued(args), NEW name,
           NEW after \in Readings(args), NEW others \in Readings(args)
    PROVE  ReadLong(name, args[i][3], next, after, others) \in Readings(args)
<1> DEFINE named == OptionOf("longname", name)
           l == CHOOSE o \in named : TRUE
<1>1. CASE named = {}
  <2>1. ReadLong(name, args[i][3], next, after, others) = Refused("invalid option")
    BY <1>1 DEF ReadLong
  <2> QED BY <2>1, RefusedTyped
<1>2. CASE named # {}
  <2>1. l \in LongOpts
    <3>1. l \in named
      <4> HIDE DEF named
      <4> QED BY <1>2
    <3> HIDE DEF l
    <3> QED BY <3>1 DEF OptionOf
  <2>2. args[i][3] \in Valued(args)
    BY DEF Valued
  <2>3. <<l.shortname, args[i][3]>> \in Read(args)
    <3> HIDE DEF l
    <3> QED BY <2>1, <2>2 DEF Read
  <2>4. ReadNext(l.shortname, next, others) \in Readings(args)
    BY <2>1, ReadNextTyped
  <2>5. Prefixed(<<l.shortname, args[i][3]>>, after) \in Readings(args)
    BY <2>3, PrefixedTyped
  <2>6. Refused("option takes no arguments") \in Readings(args)
    BY RefusedTyped
  <2>7. ReadLong(name, args[i][3], next, after, others) =
          IF named = {} THEN Refused("invalid option")
          ELSE CASE l.argtype = "NONE" /\ args[i][3] # NULL -> Refused("option takes no arguments")
                 [] l.argtype = "REQUIRED" /\ args[i][3] = NULL -> ReadNext(l.shortname, next, others)
                 [] OTHER -> Prefixed(<<l.shortname, args[i][3]>>, after)
    BY DEF ReadLong
  <2> HIDE DEF named, l
  <2> QED BY <1>2, <2>4, <2>5, <2>6, <2>7
<1> QED BY <1>1, <1>2

\* An argument and what is behind it.
LEMMA ReadArgumentTyped ==
    ASSUME NEW args, IsLine(args), NEW i \in DOMAIN args,
           NEW after \in Readings(args), NEW others \in Readings(args)
    PROVE  ReadArgument(args, i, after, others) \in Readings(args)
<1> DEFINE arg == args[i]
<1>1. /\ IsArgument(arg) /\ arg[1] \in {"word", "dashdash", "long", "short"}
      /\ args \in Seq(ToSet(args)) /\ Len(args) \in Nat /\ i \in 1..Len(args)
  BY DEF IsLine, IsArgument
<1>2. CASE arg[1] = "dashdash"
  <2>1. \A m \in (i + 1)..Len(args) : args[m] \in ToSet(args)
    BY <1>1
  <2>2. SubSeq(args, i + 1, Len(args)) \in Seq(ToSet(args))
    BY <1>1, <2>1, SubSeqProperties
  <2>3. ReadArgument(args, i, after, others) = Reading(<<>>, SubSeq(args, i + 1, Len(args)), NULL)
    BY <1>2 DEF ReadArgument
  <2> QED BY <2>2, <2>3 DEF Reading, Readings
<1>3. CASE arg[1] = "word"
  <2>1. <<arg>> \in Seq(ToSet(args)) /\ after.words \in Seq(ToSet(args))
    BY <1>1 DEF Readings
  <2>2. <<arg>> \o after.words \in Seq(ToSet(args))
    BY <2>1, ConcatProperties
  <2>3. ReadArgument(args, i, after, others) = [after EXCEPT !.words = <<arg>> \o after.words]
    BY <1>3 DEF ReadArgument, Readings
  <2> QED BY <2>2, <2>3 DEF Readings
<1>4. CASE arg[1] = "short"
  <2>1. arg[2] \in Seq(ToSet(arg[2]))
    BY <1>1, <1>4 DEF IsArgument
  <2>2. 1 \in 1..(Len(arg[2]) + 1)
    BY <2>1
  <2>3. ReadArgument(args, i, after, others) = ReadLetters(arg[2], NextOf(args, i), after, others)[1]
    BY <1>4 DEF ReadArgument, NextOf
  <2> QED BY <2>1, <2>2, <2>3, ReadLettersTyped, NextOfTyped
<1>5. CASE arg[1] = "long"
  <2>1. ReadArgument(args, i, after, others) = ReadLong(arg[2], arg[3], NextOf(args, i), after, others)
    BY <1>5 DEF ReadArgument, NextOf
  <2> QED BY <2>1, ReadLongTyped, NextOfTyped
<1> QED BY <1>1, <1>2, <1>3, <1>4, <1>5

\* The arguments of a line, one by one.
LEMMA MeaningsEach ==
    ASSUME NEW args, Len(args) \in Nat
    PROVE  \A i \in 1..(Len(args) + 2) :
               Meanings(args)[i] = IF i > Len(args) THEN Reading(<<>>, <<>>, NULL)
                                   ELSE ReadArgument(args, i, Meanings(args)[i + 1], Meanings(args)[i + 2])
<1> DEFINE n == Len(args) + 2
           Each(f, i) == IF i > Len(args) THEN Reading(<<>>, <<>>, NULL)
                         ELSE ReadArgument(args, i, f[i + 1], f[i + 2])
           Solved == {m \in 0..n : \E f : \A i \in (m + 1)..n : f[i] = Each(f, i)}
<1>1. n \in Nat
  OBVIOUS
<1>2. n \in Solved
  <2>1. \A f : \A i \in (n + 1)..n : f[i] = Each(f, i)
    BY <1>1
  <2> QED BY <1>1, <2>1
<1>3. ASSUME NEW m \in 1..n, m \in Solved
      PROVE  m - 1 \in Solved
  <2>1. PICK f : \A i \in (m + 1)..n : f[i] = Each(f, i)
    BY <1>3
  <2> DEFINE g == [i \in 1..(n + 2) |-> IF i = m THEN Each(f, m) ELSE f[i]]
  <2>2. ASSUME NEW i \in m..n
        PROVE  g[i] = Each(g, i)
    <3>1. /\ i + 1 \in 1..(n + 2) /\ i + 1 # m /\ i \in 1..(n + 2)
          /\ i + 2 \in 1..(n + 2) /\ i + 2 # m
      BY <1>1
    <3>2. g[i + 1] = f[i + 1] /\ g[i + 2] = f[i + 2]
      BY <3>1
    <3>3. Each(g, i) = Each(f, i)
      <4> HIDE DEF g
      <4> QED BY <3>2
    <3>4. g[i] = Each(f, i)
      <4>1. CASE i = m
        <5> HIDE DEF Each
        <5> QED BY <3>1, <4>1
      <4>2. CASE i # m
        <5>1. i \in (m + 1)..n
          BY <1>1, <4>2
        <5> HIDE DEF Each
        <5> QED BY <2>1, <3>1, <4>2, <5>1
      <4> QED BY <4>1, <4>2
    <3> QED BY <3>3, <3>4
  <2>3. m - 1 \in 0..n /\ (m - 1) + 1 = m
    BY <1>1
  <2> HIDE DEF g, Each, n
  <2> QED BY <2>2, <2>3
<1>4. PICK f : \A i \in 1..n : f[i] = Each(f, i)
  <2>1. 0 \in Solved
    <3> HIDE DEF Solved, n
    <3> QED BY <1>1, <1>2, <1>3, DownwardInduction
  <2>2. 0 + 1 = 1
    OBVIOUS
  <2> HIDE DEF n, Each
  <2> QED BY <2>1, <2>2
<1> DEFINE h == [i \in 1..n |-> IF i > Len(args) THEN Reading(<<>>, <<>>, NULL)
                                ELSE ReadArgument(args, i, f[i + 1], f[i + 2])]
           Is(g) == g = [i \in 1..n |-> IF i > Len(args) THEN Reading(<<>>, <<>>, NULL)
                                ELSE ReadArgument(args, i, g[i + 1], g[i + 2])]
<1>5. Is(h)
  <2>1. \A i \in 1..n : i <= Len(args) =>
            /\ i + 1 \in 1..n /\ h[i + 1] = f[i + 1]
            /\ i + 2 \in 1..n /\ h[i + 2] = f[i + 2]
    BY <1>4
  <2> QED BY <2>1, SMTT(30)
<1>6. Is(Meanings(args))
  <2>1. Meanings(args) = CHOOSE g : Is(g)
    BY DEF Meanings
  <2> HIDE DEF Is, h
  <2> QED BY <1>5, <2>1
<1> QED
  BY <1>6

\* A line, from any argument on.
LEMMA MeaningsTyped ==
    ASSUME NEW args, IsLine(args)
    PROVE  \A i \in 1..(Len(args) + 2) : Meanings(args)[i] \in Readings(args)
<1> DEFINE n == Len(args) + 2
           from == Meanings(args)
           T == {m \in 0..n : \A i \in m..n : i # 0 => from[i] \in Readings(args)}
<1>0. Len(args) \in Nat /\ n \in Nat /\ DOMAIN args = 1..Len(args)
  BY DEF IsLine
<1>1. \A i \in 1..n : from[i] = IF i > Len(args) THEN Reading(<<>>, <<>>, NULL)
                                ELSE ReadArgument(args, i, from[i + 1], from[i + 2])
  BY <1>0, MeaningsEach
<1>2. Reading(<<>>, <<>>, NULL) \in Readings(args)
  BY DEF Reading, Readings
<1>3. n \in T
  <2>1. \A i \in n..n : i \in 1..n /\ i > Len(args)
    BY <1>0
  <2> HIDE DEF from, n
  <2> QED BY <1>0, <1>1, <1>2, <2>1
<1>4. ASSUME NEW m \in 1..n, m \in T
      PROVE  m - 1 \in T
  <2>1. ASSUME NEW i \in (m - 1)..n, i # 0
        PROVE  from[i] \in Readings(args)
    <3>1. CASE i > Len(args)
      <4>1. i \in 1..n
        BY <1>0, <2>1
      <4> HIDE DEF from, n
      <4> QED BY <1>1, <1>2, <3>1, <4>1
    <3>2. CASE i \in m..n
      <4> HIDE DEF from, n
      <4> QED BY <1>4, <2>1, <3>2
    <3>3. CASE i <= Len(args) /\ i \notin m..n
      <4>1. /\ i \in 1..n /\ i \in DOMAIN args /\ ~ (i > Len(args))
            /\ i + 1 \in m..n /\ i + 2 \in m..n /\ i + 1 # 0 /\ i + 2 # 0
        BY <1>0, <2>1, <3>3
      <4>2. from[i + 1] \in Readings(args) /\ from[i + 2] \in Readings(args)
        <5> HIDE DEF from, n
        <5> QED BY <1>4, <4>1
      <4>3. from[i] = ReadArgument(args, i, from[i + 1], from[i + 2])
        <5> HIDE DEF from, n
        <5> QED BY <1>1, <4>1
      <4> HIDE DEF from, n
      <4> QED BY <4>1, <4>2, <4>3, ReadArgumentTyped
    <3> QED BY <1>0, <3>1, <3>2, <3>3
  <2>2. m - 1 \in 0..n
    BY <1>0
  <2> HIDE DEF from, n
  <2> QED BY <2>1, <2>2
<1>5. \A m \in 0..n : m \in T
  <2> HIDE DEF T, n
  <2> QED BY <1>0, <1>3, <1>4, DownwardInduction
<1>6. \A i \in 0..n : i # 0 => from[i] \in Readings(args)
  <2>1. 0 \in T
    <3> HIDE DEF T
    <3> QED BY <1>0, <1>5
  <2> HIDE DEF from, n
  <2> QED BY <2>1
<1> QED BY <1>0, <1>6

-----------------------------------------------------------------------------
(* A call that does not begin at a word.                                    *)

Fields == {"argv", "optind", "subopt", "optarg", "errmsg", "ret"}

IsState(o) == o = [f \in Fields |-> o[f]]

\* What is left to be read at an argument, of which k letters have been read.
Rest(args, i, k) ==
    IF k = 0 THEN Meanings(args)[i]
    ELSE ReadLetters(args[i][2], NextOf(args, i), Meanings(args)[i + 1], Meanings(args)[i + 2])[k + 1]

\* k letters of the argument have been read, and there are more.
Within(args, i, k) ==
    /\ k \in Nat
    /\ k # 0 => i <= Len(args) /\ args[i][1] = "short" /\ k < Len(args[i][2])

\* A call that returns b has read, of what was left, one option or the end.
HasRead(args, i, k, b) ==
    /\ b.optind \in i..(Len(args) + 1)
    /\ b.ret \notin {"end", "?"} =>
           /\ Within(args, b.optind, b.subopt)
           /\ <<b.ret, b.optarg>> \in Read(args)
           /\ Rest(args, i, k) = Prefixed(<<b.ret, b.optarg>>, Rest(args, b.optind, b.subopt))
    /\ b.ret = "end" => Rest(args, i, k) = Reading(<<>>, SubSeq(args, b.optind, Len(args)), NULL)
    /\ b.ret = "?" => Rest(args, i, k) = Refused(b.errmsg[1])

\* What is left of a line.
LEMMA RestTyped ==
    ASSUME NEW args, IsLine(args), NEW i \in 1..(Len(args) + 1), NEW k, Within(args, i, k)
    PROVE  Rest(args, i, k) \in Readings(args)
<1>0. Len(args) \in Nat /\ DOMAIN args = 1..Len(args)
  BY DEF IsLine
<1>1. CASE k = 0
  <2>1. i \in 1..(Len(args) + 2)
    BY <1>0
  <2> QED BY <1>1, <2>1, MeaningsTyped DEF Rest
<1>2. CASE k # 0
  <2>1. /\ i \in DOMAIN args /\ i + 1 \in 1..(Len(args) + 2) /\ i + 2 \in 1..(Len(args) + 2)
        /\ args[i][1] = "short"
    BY <1>0, <1>2 DEF Within
  <2>2. args[i][2] \in Seq(ToSet(args[i][2]))
    BY <2>1 DEF IsLine, IsArgument
  <2>3. k + 1 \in 1..(Len(args[i][2]) + 1)
    BY <2>2, <1>2 DEF Within
  <2>4. NextOf(args, i) \in Valued(args)
    BY <2>1, NextOfTyped
  <2>5. Meanings(args)[i + 1] \in Readings(args) /\ Meanings(args)[i + 2] \in Readings(args)
    BY <2>1, MeaningsTyped
  <2> QED BY <1>2, <2>1, <2>2, <2>3, <2>4, <2>5, ReadLettersTyped DEF Rest
<1> QED BY <1>1, <1>2

\* What is left within a group of letters is what they mean from the next on.
LEMMA RestInGroup ==
    ASSUME NEW args, IsLine(args), NEW i \in 1..Len(args), args[i][1] = "short",
           NEW k \in 0..(Len(args[i][2]) - 1)
    PROVE  Rest(args, i, k) =
               ReadLetter(args[i][2], k + 1,
                          IF k + 1 = Len(args[i][2]) THEN Rest(args, i + 1, 0) ELSE Rest(args, i, k + 1),
                          NextOf(args, i), Rest(args, i + 1, 0), Rest(args, i + 2, 0))
<1> DEFINE letters == args[i][2]
           group == ReadLetters(letters, NextOf(args, i), Meanings(args)[i + 1], Meanings(args)[i + 2])
<1>1. /\ Len(args) \in Nat /\ i \in 1..(Len(args) + 2) /\ ~ (i > Len(args))
      /\ letters \in Seq(ToSet(letters)) /\ Len(letters) \in Nat
  BY DEF IsLine, IsArgument
<1>2. Meanings(args)[i] = group[1]
  <2>1. Meanings(args)[i] = ReadArgument(args, i, Meanings(args)[i + 1], Meanings(args)[i + 2])
    BY <1>1, MeaningsEach
  <2> QED BY <2>1 DEF ReadArgument, NextOf
<1>3. Rest(args, i, k) = group[k + 1]
  BY <1>2 DEF Rest
<1>4. \A m \in 1..(Len(letters) + 1) :
          group[m] = IF m > Len(letters) THEN Meanings(args)[i + 1]
                     ELSE ReadLetter(letters, m, group[m + 1], NextOf(args, i),
                                     Meanings(args)[i + 1], Meanings(args)[i + 2])
  <2> HIDE DEF letters
  <2> QED BY <1>1, ReadLettersEach
<1>5. /\ k + 1 \in 1..(Len(letters) + 1) /\ ~ (k + 1 > Len(letters))
      /\ k + 2 \in 1..(Len(letters) + 1) /\ k + 1 # 0
      /\ k + 1 = Len(letters) <=> k + 2 > Len(letters)
      /\ (k + 1) + 1 = k + 2
  BY <1>1
<1>6. group[k + 1] = ReadLetter(letters, k + 1, group[k + 2], NextOf(args, i),
                                Meanings(args)[i + 1], Meanings(args)[i + 2])
  <2> HIDE DEF group, letters
  <2> QED BY <1>4, <1>5
<1>7. Meanings(args)[i + 1] = Rest(args, i + 1, 0) /\ Meanings(args)[i + 2] = Rest(args, i + 2, 0)
  BY DEF Rest
<1>8. group[k + 2] = IF k + 1 = Len(letters) THEN Rest(args, i + 1, 0) ELSE Rest(args, i, k + 1)
  <2>1. CASE k + 1 = Len(letters)
    <3> HIDE DEF group, letters
    <3> QED BY <1>4, <1>5, <1>7, <2>1
  <2>2. CASE k + 1 # Len(letters)
    BY <1>5, <2>2 DEF Rest
  <2> QED BY <2>1, <2>2
<1> QED BY <1>3, <1>6, <1>7, <1>8

\* The arguments from i on have not been moved.
Facing(args, i, o) ==
    /\ IsState(o) /\ o.argv \in Seq(ToSet(args)) /\ Len(o.argv) = Len(args)
    /\ i \in 1..(Len(args) + 1)
    /\ \A a \in i..Len(args) : o.argv[a] = args[a]
    /\ Within(args, i, o.subopt)

\* Fields of the parser after a call.
IsResult(b, argv, optind, subopt, optarg, ret) ==
    /\ IsState(b)
    /\ b.argv = argv /\ b.optind = optind /\ b.subopt = subopt /\ b.optarg = optarg /\ b.ret = ret

\* The argument has been read to its end.
LEMMA ConsumedResult ==
    ASSUME NEW c, NEW v, NEW i, NEW s, NEW a, NEW r, IsResult(c, v, i, s, a, r)
    PROVE  IsResult(Consumed(c), v, i + 1, 0, a, r)
  BY DEF IsResult, IsState, Fields, Consumed

\* An error says why, and moves nothing.
LEMMA ErrorResult ==
    ASSUME NEW c, NEW v, NEW i, NEW s, NEW a, NEW r, IsResult(c, v, i, s, a, r), NEW why, NEW data
    PROVE  /\ IsResult(optparse_error(c, why, data), v, i, s, a, "?")
           /\ optparse_error(c, why, data).errmsg[1] = why
  BY DEF IsResult, IsState, Fields, optparse_error

\* Arguments that have not been moved are read as they were written.
LEMMA FacingArgs ==
    ASSUME NEW args, IsLine(args), NEW i, NEW o, Facing(args, i, o), o.optind = i
    PROVE  /\ Len(args) \in Nat /\ DOMAIN args = 1..Len(args)
           /\ i <= Len(args) => Current(o) = args[i] /\ args[i] # NULL /\ args[i] \in ToSet(args)
           /\ i > Len(args) => Current(o) = NULL
           /\ i <= Len(args) => ArgvAt(o, i + 1) = NextOf(args, i)
           /\ i < Len(args) <=> ArgvAt(o, i + 1) # NULL
<1>1. /\ Len(args) \in Nat /\ DOMAIN args = 1..Len(args) /\ DOMAIN o.argv = 1..Len(args)
      /\ i \in 1..(Len(args) + 1)
      /\ \A a \in 1..Len(args) : args[a] # NULL /\ args[a] \in ToSet(args)
  <2>1. Len(args) \in Nat /\ DOMAIN args = 1..Len(args)
    BY DEF IsLine
  <2>2. DOMAIN o.argv = 1..Len(args) /\ i \in 1..(Len(args) + 1)
    BY DEF Facing
  <2>3. \A a \in DOMAIN args : args[a] # NULL
    BY DEF IsLine, IsArgument, NULL
  <2>4. \A a \in DOMAIN args : args[a] \in ToSet(args)
    BY <2>1 DEF ToSet, IsLine
  <2> QED BY <2>1, <2>2, <2>3, <2>4
<1>2. \A a \in i..Len(args) : o.argv[a] = args[a]
  BY DEF Facing
<1>3. /\ i <= Len(args) => i \in i..Len(args) /\ i \in 1..Len(args)
      /\ i < Len(args) => i + 1 \in i..Len(args) /\ i + 1 \in 1..Len(args)
      /\ ~ (i < Len(args)) => i + 1 \notin 1..Len(args)
      /\ i > Len(args) => i \notin 1..Len(args)
  BY <1>1
<1>4. /\ i <= Len(args) => Current(o) = args[i]
      /\ i > Len(args) => Current(o) = NULL
  BY <1>1, <1>2, <1>3 DEF Current, ArgvAt
<1>5. ArgvAt(o, i + 1) = IF i < Len(args) THEN args[i + 1] ELSE NULL
  BY <1>1, <1>2, <1>3 DEF ArgvAt
<1> QED BY <1>1, <1>3, <1>4, <1>5 DEF NextOf

\* optparse reads the next letter of a group.
LEMMA LetterRead ==
    ASSUME NEW args, IsLine(args), NEW i, NEW o, Facing(args, i, o), o.optind = i,
           i <= Len(args), args[i][1] = "short"
    PROVE  /\ IsState(optparse(o)) /\ optparse(o).argv = o.argv
           /\ HasRead(args, i, o.subopt, optparse(o))
<1> DEFINE letters == args[i][2]
           k == o.subopt
           letter == letters[k + 1]
           rest == SubSeq(letters, k + 2, Len(letters))
           known == OptionOf("shortname", letter)
           l == CHOOSE opt \in known : TRUE
           next == NextOf(args, i)
           after == Rest(args, i + 1, 0)
           others == Rest(args, i + 2, 0)
           group == IF k + 1 = Len(letters) THEN after ELSE Rest(args, i, k + 1)
           b == optparse(o)
<1>1. /\ Len(args) \in Nat /\ i \in 1..Len(args) /\ i \in DOMAIN args
      /\ letters # <<>> /\ letters \in Seq(ToSet(letters)) /\ Len(letters) \in Nat \ {0}
  <2>1. Len(args) \in Nat /\ i \in 1..Len(args) /\ i \in DOMAIN args
    BY FacingArgs DEF Facing
  <2>2. letters # <<>> /\ letters \in Seq(ToSet(letters))
    BY <2>1 DEF IsLine, IsArgument
  <2> QED BY <2>1, <2>2
<1>2. k \in 0..(Len(letters) - 1) /\ k < Len(letters) /\ (k + 1) + 1 = k + 2 /\ k \in Nat
  BY <1>1 DEF Facing, Within
<1>3. Current(o) = args[i] /\ ArgvAt(o, o.optind + 1) = next
  BY FacingArgs
<1>4. rest = <<>> <=> k + 1 = Len(letters)
  <2>1. \A m \in (k + 2)..Len(letters) : letters[m] \in ToSet(letters)
    BY <1>1, <1>2, SMTT(30)
  <2>2. Len(rest) = IF k + 2 <= Len(letters) THEN Len(letters) - (k + 2) + 1 ELSE 0
    BY <1>1, <1>2, <2>1, SubSeqProperties
  <2>3. rest \in Seq(ToSet(letters))
    BY <1>1, <1>2, <2>1, SubSeqProperties, SMTT(30)
  <2>4. rest = <<>> <=> Len(rest) = 0
    BY <2>3, EmptySeq, ZenonT(30)
  <2> HIDE DEF rest
  <2> QED BY <1>1, <1>2, <2>2, <2>4, SMTT(30)
<1>5. Rest(args, i, k) =
          IF known = {} THEN Refused("invalid option")
          ELSE CASE l.argtype = "NONE" -> Prefixed(<<l.shortname, NULL>>, group)
                 [] l.argtype = "REQUIRED" /\ rest = <<>> -> ReadNext(l.shortname, next, others)
                 [] OTHER -> Prefixed(<<l.shortname, rest>>, after)
  <2>1. Rest(args, i, k) = ReadLetter(letters, k + 1, group, next, after, others)
    BY <1>1, <1>2, RestInGroup, ZenonT(30)
  <2> HIDE DEF group, next, after, others
  <2> QED BY <1>2, <2>1 DEF ReadLetter
<1> DEFINE c == Clear(o, letter)
           known0 == {opt \in LongOpts : opt.shortname = letter}
           l0 == CHOOSE opt \in known0 : TRUE
<1>6. known0 = known /\ l0 = l
  BY DEF OptionOf
<1>7. b = ShortOption(o, letter, rest, next)
  <2>1. /\ Current(o)[2] = letters /\ o.subopt + 2 = k + 2
        /\ (IF o.subopt < Len(letters) THEN letters[o.subopt + 1] ELSE "") = letter
    BY <1>2, <1>3
  <2> HIDE DEF next
  <2> QED BY <1>3, <2>1 DEF optparse
<1>8. IsResult(c, o.argv, i, k, NULL, letter)
  <2> HIDE DEF letter
  <2> QED BY DEF Clear, IsResult, IsState, Fields, Facing
<1>9. b = IF known0 = {} THEN optparse_error([c EXCEPT !.optind = @ + 1], "invalid option", letter)
          ELSE CASE l0.argtype = "NONE" ->
                        IF rest # <<>> THEN [c EXCEPT !.subopt = @ + 1] ELSE Consumed(c)
                 [] l0.argtype = "REQUIRED" ->
                        IF rest # <<>> THEN [Consumed(c) EXCEPT !.optarg = rest]
                        ELSE IF next # NULL THEN Consumed(Consumed([c EXCEPT !.optarg = next]))
                        ELSE optparse_error(Consumed(c), "option requires an argument", letter)
                 [] l0.argtype = "OPTIONAL" -> [Consumed(c) EXCEPT !.optarg = rest]
  BY <1>7 DEF ShortOption
<1> HIDE DEF letters, k, letter, rest, known, l, next, after, others, group, b, c, known0, l0
<1>11. ASSUME known # {}
       PROVE  /\ l \in LongOpts /\ l.shortname = letter /\ l.shortname \notin {"end", "?"}
              /\ \/ l.argtype = "NONE"
                 \/ l.argtype = "REQUIRED"
                 \/ l.argtype = "OPTIONAL"
  <2>1. l \in known
    BY <1>11 DEF l
  <2>2. l \in LongOpts /\ l.shortname = letter
    <3> HIDE DEF l
    <3> QED BY <2>1 DEF known, OptionOf
  <2> QED BY <2>2, OptionsAssumption
<1>12. /\ rest \in Valued(args) /\ next \in Valued(args) /\ NULL \in Valued(args)
       /\ known # {} => \A x \in Valued(args) : <<letter, x>> \in Read(args)
  <2>1. rest \in Valued(args)
    <3>1. k + 2 \in Nat
      BY <1>2
    <3> QED BY ONLY <1>1, <3>1, SuffixValued DEF rest, letters
  <2>2. next \in Valued(args)
    BY <1>1, NextOfTyped DEF next
  <2>3. NULL \in Valued(args)
    BY DEF Valued
  <2>4. ASSUME known # {}, NEW x \in Valued(args)
        PROVE  <<letter, x>> \in Read(args)
    BY <1>11, <2>4 DEF Read
  <2> QED BY <2>1, <2>2, <2>3, <2>4
\* An option is read, and optparse goes on at another place.
<1>13. ASSUME NEW optind \in i..(Len(args) + 1), NEW subopt, NEW value \in Valued(args),
              known # {}, IsResult(b, o.argv, optind, subopt, value, letter),
              Within(args, optind, subopt),
              Rest(args, i, k) = Prefixed(<<l.shortname, value>>, Rest(args, optind, subopt))
       PROVE  /\ IsState(b) /\ b.argv = o.argv
              /\ HasRead(args, i, k, b)
  BY <1>11, <1>12, <1>13 DEF IsResult, HasRead
\* The option is wrong.
<1>14. ASSUME NEW subopt, IsResult(b, o.argv, i + 1, subopt, NULL, "?"),
              NEW why, b.errmsg[1] = why, Rest(args, i, k) = Refused(why)
       PROVE  /\ IsState(b) /\ b.argv = o.argv
              /\ HasRead(args, i, k, b)
  BY <1>1, <1>14 DEF IsResult, HasRead
<1>10. CASE known = {}
  <2> DEFINE e == [c EXCEPT !.optind = @ + 1]
  <2>1. IsResult(e, o.argv, i + 1, k, NULL, letter)
    BY <1>8 DEF IsResult, IsState, Fields
  <2>2. b = optparse_error(e, "invalid option", letter)
    BY <1>6, <1>9, <1>10
  <2> HIDE DEF e
  <2>3. \A why : /\ IsResult(optparse_error(e, why, letter), o.argv, i + 1, k, NULL, "?")
                 /\ optparse_error(e, why, letter).errmsg[1] = why
    BY <2>1, ErrorResult
  <2>4. Rest(args, i, k) = Refused("invalid option")
    BY <1>5, <1>10
  <2> QED BY <1>14, <2>2, <2>3, <2>4 DEF b, k
<1>15. /\ i \in i..(Len(args) + 1) /\ i + 1 \in i..(Len(args) + 1)
       /\ i < Len(args) => i + 1 + 1 \in i..(Len(args) + 1)
       /\ i < Len(args) <=> next # NULL
       /\ i + 1 + 1 = i + 2
       /\ \A m : Within(args, m, 0)
  <2>1. i < Len(args) <=> next # NULL
    BY <1>3, FacingArgs DEF next
  <2> QED BY <1>1, <2>1 DEF Within
<1>16. IsResult(Consumed(c), o.argv, i + 1, 0, NULL, letter)
  BY <1>8, ConsumedResult
<1>17. CASE known # {} /\ l.argtype = "NONE"
  <2>1. Rest(args, i, k) = Prefixed(<<l.shortname, NULL>>, group)
    BY <1>5, <1>17
  <2>2. CASE rest = <<>>
    <3>1. b = Consumed(c)
      BY <1>6, <1>9, <1>17, <2>2
    <3>2. group = Rest(args, i + 1, 0)
      BY <1>4, <2>2 DEF group, after
    <3>3. Rest(args, i, k) = Prefixed(<<l.shortname, NULL>>, Rest(args, i + 1, 0))
      BY <2>1, <3>2
    <3> QED BY <1>12, <1>13, <1>15, <1>16, <1>17, <3>1, <3>3 DEF b, k
  <2>3. CASE rest # <<>>
    <3>1. b = [c EXCEPT !.subopt = @ + 1]
      BY <1>6, <1>9, <1>17, <2>3
    <3>2. IsResult(b, o.argv, i, k + 1, NULL, letter)
      BY <1>8, <3>1 DEF IsResult, IsState, Fields
    <3>3. group = Rest(args, i, k + 1)
      BY <1>4, <2>3 DEF group
    <3>4. Rest(args, i, k) = Prefixed(<<l.shortname, NULL>>, Rest(args, i, k + 1))
      BY <2>1, <3>3
    <3>5. Within(args, i, k + 1)
      <4>1. k + 1 \in Nat /\ k + 1 < Len(letters)
        BY <1>1, <1>2, <1>4, <2>3
      <4> QED BY <4>1 DEF Within, letters
    <3> QED BY <1>12, <1>13, <1>15, <1>17, <3>2, <3>4, <3>5 DEF b, k
  <2> QED BY <2>2, <2>3
<1>18. CASE known # {} /\ l.argtype = "REQUIRED"
  <2>1. CASE rest # <<>>
    <3>1. b = [Consumed(c) EXCEPT !.optarg = rest]
      BY <1>6, <1>9, <1>18, <2>1
    <3>2. IsResult(b, o.argv, i + 1, 0, rest, letter)
      BY <1>16, <3>1 DEF IsResult, IsState, Fields
    <3>3. Rest(args, i, k) = Prefixed(<<l.shortname, rest>>, Rest(args, i + 1, 0))
      BY <1>5, <1>18, <2>1 DEF after
    <3> QED BY <1>12, <1>13, <1>15, <1>18, <3>2, <3>3 DEF b, k
  <2>2. CASE rest = <<>> /\ next # NULL
    <3> DEFINE e == [c EXCEPT !.optarg = next]
    <3>1. b = Consumed(Consumed(e))
      BY <1>6, <1>9, <1>18, <2>2
    <3>2. IsResult(e, o.argv, i, k, next, letter)
      BY <1>8 DEF IsResult, IsState, Fields
    <3> HIDE DEF e
    <3>3. IsResult(Consumed(e), o.argv, i + 1, 0, next, letter)
      BY <3>2, ConsumedResult
    <3>4. IsResult(b, o.argv, i + 1 + 1, 0, next, letter)
      BY <3>1, <3>3, ConsumedResult
    <3>5. Rest(args, i, k) = Prefixed(<<l.shortname, next>>, Rest(args, i + 2, 0))
      BY <1>5, <1>18, <2>2 DEF others, ReadNext
    <3> QED BY <1>12, <1>13, <1>15, <1>18, <2>2, <3>4, <3>5 DEF b, k
  <2>3. CASE rest = <<>> /\ next = NULL
    <3>1. b = optparse_error(Consumed(c), "option requires an argument", letter)
      BY <1>6, <1>9, <1>18, <2>3
    <3>2. \A why : /\ IsResult(optparse_error(Consumed(c), why, letter), o.argv, i + 1, 0, NULL, "?")
                   /\ optparse_error(Consumed(c), why, letter).errmsg[1] = why
      BY <1>16, ErrorResult
    <3>3. Rest(args, i, k) = Refused("option requires an argument")
      BY <1>5, <1>18, <2>3 DEF ReadNext
    <3> QED BY <1>14, <3>1, <3>2, <3>3 DEF b, k
  <2> QED BY <2>1, <2>2, <2>3
<1>19. CASE known # {} /\ l.argtype = "OPTIONAL"
  <2>1. b = [Consumed(c) EXCEPT !.optarg = rest]
    BY <1>6, <1>9, <1>19
  <2>2. IsResult(b, o.argv, i + 1, 0, rest, letter)
    BY <1>16, <2>1 DEF IsResult, IsState, Fields
  <2>3. Rest(args, i, k) = Prefixed(<<l.shortname, rest>>, Rest(args, i + 1, 0))
    BY <1>5, <1>19 DEF after
  <2> QED BY <1>12, <1>13, <1>15, <1>19, <2>2, <2>3 DEF b, k
<1> QED BY <1>10, <1>11, <1>17, <1>18, <1>19

\* optparse_long reads a long option.
LEMMA LongRead ==
    ASSUME NEW args, IsLine(args), NEW i, NEW o, Facing(args, i, o), o.optind = i,
           i <= Len(args), args[i][1] = "long", NEW b, b = LongOption(o, args[i][2], args[i][3])
    PROVE  /\ IsState(b) /\ b.argv = o.argv
           /\ HasRead(args, i, o.subopt, b)
<1> DEFINE name == args[i][2]
           arg == args[i][3]
           known == OptionOf("longname", name)
           l == CHOOSE opt \in known : TRUE
           next == NextOf(args, i)
           after == Rest(args, i + 1, 0)
           others == Rest(args, i + 2, 0)
           ret == IF known = {} THEN "?" ELSE l.shortname
           r == Named(o, arg, ret)
<1>1. /\ Len(args) \in Nat /\ i \in 1..Len(args) /\ i \in DOMAIN args
      /\ i \in 1..(Len(args) + 2) /\ ~ (i > Len(args))
  BY FacingArgs DEF Facing
<1>2. o.subopt = 0
  BY DEF Facing, Within
<1>3. Rest(args, i, 0) =
          IF known = {} THEN Refused("invalid option")
          ELSE CASE l.argtype = "NONE" /\ arg # NULL -> Refused("option takes no arguments")
                 [] l.argtype = "REQUIRED" /\ arg = NULL -> ReadNext(l.shortname, next, others)
                 [] OTHER -> Prefixed(<<l.shortname, arg>>, after)
  <2>1. Rest(args, i, 0) = ReadArgument(args, i, after, others)
    BY <1>1, MeaningsEach, SMTT(30) DEF Rest
  <2>2. ReadArgument(args, i, after, others) = ReadLong(name, arg, next, after, others)
    BY <1>1 DEF ReadArgument, NextOf
  <2> HIDE DEF next, after, others, name, arg
  <2> QED BY <2>1, <2>2 DEF ReadLong
<1>4. IsResult(r, o.argv, i + 1, 0, arg, ret)
  <2> HIDE DEF arg, ret
  <2> QED BY <1>2 DEF Named, IsResult, IsState, Fields, Facing
<1>5. b = IF known = {} THEN optparse_error(r, "invalid option", name)
          ELSE IF l.argtype = "NONE" /\ arg # NULL
          THEN optparse_error(r, "option takes no arguments", name)
          ELSE IF l.argtype = "REQUIRED" /\ arg = NULL
          THEN IF Current(r) = NULL
               THEN optparse_error(r, "option requires an argument", name)
               ELSE [r EXCEPT !.optarg = Current(r), !.optind = @ + 1]
          ELSE r
  BY DEF LongOption, OptionOf
<1>6. Current(r) = next
  <2>1. ArgvAt(o, i + 1) = next
    BY FacingArgs
  <2>2. Current(r) = ArgvAt(o, i + 1)
    <3> HIDE DEF r
    <3> QED BY <1>4 DEF Current, ArgvAt, IsResult
  <2> QED BY <2>1, <2>2
<1> HIDE DEF name, arg, known, l, next, after, others, ret, r
<1>7. ASSUME known # {}
      PROVE  /\ l \in LongOpts /\ l.shortname \notin {"end", "?"} /\ ret = l.shortname
             /\ \/ l.argtype = "NONE"
                \/ l.argtype = "REQUIRED"
                \/ l.argtype = "OPTIONAL"
  <2>1. l \in known
    BY <1>7 DEF l
  <2>2. l \in LongOpts
    <3> HIDE DEF l
    <3> QED BY <2>1 DEF known, OptionOf
  <2> QED BY <1>7, <2>2, OptionsAssumption DEF ret
<1>8. /\ arg \in Valued(args) /\ next \in Valued(args)
      /\ known # {} => \A x \in Valued(args) : <<l.shortname, x>> \in Read(args)
  <2>1. arg \in Valued(args)
    BY <1>1 DEF Valued, arg
  <2>2. next \in Valued(args)
    BY <1>1, NextOfTyped DEF next
  <2>3. ASSUME known # {}, NEW x \in Valued(args)
        PROVE  <<l.shortname, x>> \in Read(args)
    BY <1>7, <2>3 DEF Read
  <2> QED BY <2>1, <2>2, <2>3
<1>9. /\ i + 1 \in i..(Len(args) + 1)
      /\ i < Len(args) => i + 1 + 1 \in i..(Len(args) + 1)
      /\ i < Len(args) <=> next # NULL
      /\ i + 1 + 1 = i + 2
      /\ \A m : Within(args, m, 0)
  <2>1. i < Len(args) <=> next # NULL
    BY FacingArgs DEF next
  <2> QED BY <1>1, <2>1 DEF Within
<1>10. ASSUME NEW optind \in i..(Len(args) + 1), NEW value \in Valued(args),
              known # {}, IsResult(b, o.argv, optind, 0, value, l.shortname),
              Rest(args, i, 0) = Prefixed(<<l.shortname, value>>, Rest(args, optind, 0))
       PROVE  /\ IsState(b) /\ b.argv = o.argv
              /\ HasRead(args, i, o.subopt, b)
  BY <1>2, <1>7, <1>8, <1>9, <1>10 DEF IsResult, HasRead
<1>11. ASSUME NEW why, b = optparse_error(r, why, name), Rest(args, i, 0) = Refused(why)
       PROVE  /\ IsState(b) /\ b.argv = o.argv
              /\ HasRead(args, i, o.subopt, b)
  <2>1. IsResult(b, o.argv, i + 1, 0, arg, "?") /\ b.errmsg[1] = why
    BY <1>4, <1>11, ErrorResult
  <2> QED BY <1>2, <1>9, <1>11, <2>1 DEF IsResult, HasRead
<1>12. CASE known = {}
  <2>1. b = optparse_error(r, "invalid option", name)
    BY <1>5, <1>12
  <2>2. Rest(args, i, 0) = Refused("invalid option")
    BY <1>3, <1>12
  <2> QED BY <1>11, <2>1, <2>2
<1>13. CASE known # {} /\ l.argtype = "NONE" /\ arg # NULL
  <2>1. b = optparse_error(r, "option takes no arguments", name)
    BY <1>5, <1>13
  <2>2. Rest(args, i, 0) = Refused("option takes no arguments")
    BY <1>3, <1>13
  <2> QED BY <1>11, <2>1, <2>2
<1>14. CASE known # {} /\ l.argtype = "REQUIRED" /\ arg = NULL
  <2>1. CASE next = NULL
    <3>1. b = optparse_error(r, "option requires an argument", name)
      BY <1>5, <1>6, <1>14, <2>1
    <3>2. Rest(args, i, 0) = Refused("option requires an argument")
      BY <1>3, <1>14, <2>1 DEF ReadNext
    <3> QED BY <1>11, <3>1, <3>2
  <2>2. CASE next # NULL
    <3>1. b = [r EXCEPT !.optarg = Current(r), !.optind = @ + 1]
      BY <1>5, <1>6, <1>14, <2>2
    <3>2. IsResult(b, o.argv, i + 1 + 1, 0, next, l.shortname)
      BY <1>4, <1>6, <1>7, <1>14, <3>1, ZenonT(30) DEF IsResult, IsState, Fields
    <3>3. Rest(args, i, 0) = Prefixed(<<l.shortname, next>>, Rest(args, i + 2, 0))
      BY <1>3, <1>14, <2>2 DEF ReadNext, others
    <3> QED BY <1>8, <1>9, <1>10, <1>14, <2>2, <3>2, <3>3
  <2> QED BY <2>1, <2>2
<1>15. CASE known # {} /\ ~ (l.argtype = "NONE" /\ arg # NULL) /\ ~ (l.argtype = "REQUIRED" /\ arg = NULL)
  <2>1. b = r
    BY <1>5, <1>15
  <2>2. IsResult(b, o.argv, i + 1, 0, arg, l.shortname)
    BY <1>4, <1>7, <1>15, <2>1
  <2>3. Rest(args, i, 0) = Prefixed(<<l.shortname, arg>>, Rest(args, i + 1, 0))
    BY <1>3, <1>15 DEF after
  <2> QED BY <1>8, <1>9, <1>10, <1>15, <2>2, <2>3
<1> QED BY <1>12, <1>13, <1>14, <1>15

\* A call that begins at an option reads it.
LEMMA ArgumentRead ==
    ASSUME NEW args, IsLine(args), NEW i, NEW o, Facing(args, i, o),
           i <= Len(args) => args[i][1] # "word", NEW behind
    PROVE  /\ IsState(ReadAt(o, i, behind)) /\ ReadAt(o, i, behind).argv = o.argv
           /\ HasRead(args, i, o.subopt, ReadAt(o, i, behind))
<1> DEFINE at == [o EXCEPT !.optind = i]
           option == Current(at)
           b == ReadAt(o, i, behind)
<1>1. /\ IsState(at) /\ at.argv = o.argv /\ at.optind = i /\ at.subopt = o.subopt
  BY DEF Facing, IsState, Fields
<1>2. Facing(args, i, at)
  <2> HIDE DEF at
  <2> QED BY <1>1 DEF Facing
<1>3. b = CASE option = NULL -> [at EXCEPT !.ret = "end"]
            [] IsKind(option, "dashdash") -> [at EXCEPT !.ret = "end", !.optind = @ + 1]
            [] IsKind(option, "short") -> optparse(at)
            [] IsKind(option, "long") -> LongOption(at, option[2], option[3])
            [] IsKind(option, "word") -> [optparse_permute(behind, i) EXCEPT !.optind = @ - 1]
  BY DEF ReadAt
<1> HIDE DEF at, b
<1>4. /\ Len(args) \in Nat /\ DOMAIN args = 1..Len(args)
      /\ i <= Len(args) => option = args[i] /\ option # NULL
      /\ i > Len(args) => option = NULL
      /\ i \in 1..(Len(args) + 1)
  BY <1>1, <1>2, FacingArgs DEF Facing
<1> HIDE DEF option
<1>5. CASE i > Len(args)
  <2>1. b = [at EXCEPT !.ret = "end"]
    BY <1>3, <1>4, <1>5 DEF IsKind
  <2>2. IsState(b) /\ b.argv = o.argv /\ b.optind = i /\ b.ret = "end"
    BY <1>1, <2>1 DEF IsState, Fields
  <2>3. o.subopt = 0 /\ i \in 1..(Len(args) + 2)
    BY <1>4, <1>5 DEF Facing, Within
  <2>4. Rest(args, i, o.subopt) = Reading(<<>>, <<>>, NULL)
    BY <1>4, <1>5, <2>3, MeaningsEach DEF Rest
  <2>5. SubSeq(args, i, Len(args)) = <<>>
    BY <1>4, <1>5, SubSeqEmpty
  <2> QED BY <1>4, <2>2, <2>4, <2>5 DEF HasRead, b
<1>6. CASE i <= Len(args)
  <2>0. /\ option = args[i] /\ i \in 1..Len(args) /\ option # NULL
        /\ \A kind : IsKind(option, kind) <=> args[i][1] = kind
    BY <1>4, <1>6 DEF IsKind
  <2>1. args[i][1] \in {"dashdash", "long", "short"}
    BY <1>4, <1>6, <2>0 DEF IsLine, IsArgument
  <2>2. CASE args[i][1] = "dashdash"
    <3>1. b = [at EXCEPT !.ret = "end", !.optind = @ + 1]
      BY <1>3, <2>0, <2>2
    <3>2. IsState(b) /\ b.argv = o.argv /\ b.optind = i + 1 /\ b.ret = "end"
      BY <1>1, <3>1 DEF IsState, Fields
    <3>3. o.subopt = 0 /\ i \in 1..(Len(args) + 2) /\ ~ (i > Len(args))
      BY <1>4, <1>6, <2>2 DEF Facing, Within
    <3>4. Rest(args, i, o.subopt) = Reading(<<>>, SubSeq(args, i + 1, Len(args)), NULL)
      BY <1>4, <2>2, <3>3, MeaningsEach DEF Rest, ReadArgument
    <3>5. i + 1 \in i..(Len(args) + 1)
      BY <1>4, <1>6
    <3> QED BY <3>2, <3>4, <3>5 DEF HasRead, b
  <2>3. CASE args[i][1] = "short"
    <3>1. b = optparse(at)
      BY <1>3, <2>0, <2>3
    <3> QED BY <1>1, <1>2, <1>6, <2>3, <3>1, LetterRead DEF b
  <2>4. CASE args[i][1] = "long"
    <3>1. b = LongOption(at, args[i][2], args[i][3])
      BY <1>3, <2>0, <2>4
    <3>2. IsState(b) /\ b.argv = at.argv /\ HasRead(args, i, at.subopt, b)
      BY <1>1, <1>2, <1>6, <2>4, <3>1, LongRead
    <3> QED BY <1>1, <3>2 DEF b
  <2> QED BY <2>1, <2>2, <2>3, <2>4
<1> QED BY <1>4, <1>5, <1>6

-----------------------------------------------------------------------------
(* A call that begins at words.                                             *)

\* What optparse_permute makes of argv.
Permuted(s, x, m) ==
    SubSeq(s, 1, x - 1) \o SubSeq(s, x + 1, m - 1) \o <<s[x]>> \o SubSeq(s, m, Len(s))

\* optparse_permute moves one argument behind those that were read and keeps the others.
LEMMA PermutedArgv ==
    ASSUME NEW S, NEW s \in Seq(S), NEW x \in 1..Len(s), NEW m \in (x + 1)..(Len(s) + 1)
    PROVE  /\ Permuted(s, x, m) \in Seq(S) /\ Len(Permuted(s, x, m)) = Len(s)
           /\ \A a \in 1..Len(s) :
                  Permuted(s, x, m)[a] =
                      IF a < x \/ a >= m THEN s[a] ELSE IF a = m - 1 THEN s[x] ELSE s[a + 1]
<1>p. PICK p : p = Permuted(s, x, m)
  OBVIOUS
<1> DEFINE A == SubSeq(s, 1, x - 1)
           B == SubSeq(s, x + 1, m - 1)
           C == <<s[x]>>
           D == SubSeq(s, m, Len(s))
<1>0. /\ Len(s) \in Nat /\ \A a \in 1..Len(s) : s[a] \in S
      /\ x \in Int /\ m \in Int /\ 1 <= x /\ x + 1 <= m /\ m <= Len(s) + 1
  OBVIOUS
<1>1. A \in Seq(S) /\ Len(A) = x - 1 /\ \A a \in 1..(x - 1) : A[a] = s[a]
  <2>1. \A a \in 1..(x - 1) : s[a] \in S
    BY <1>0
  <2>2. 1 \in Int /\ x - 1 \in Int /\ (x - 1) - 1 + 1 = x - 1
    BY <1>0
  <2>3. /\ A \in Seq(S) /\ Len(A) = IF 1 <= x - 1 THEN x - 1 - 1 + 1 ELSE 0
        /\ \A a \in 1..(x - 1 - 1 + 1) : A[a] = s[1 + a - 1]
    BY <2>1, <2>2, SubSeqProperties
  <2> QED BY <1>0, <2>3
<1>2. B \in Seq(S) /\ Len(B) = m - 1 - x /\ \A a \in 1..(m - 1 - x) : B[a] = s[x + a]
  <2>1. \A a \in (x + 1)..(m - 1) : s[a] \in S
    BY <1>0
  <2>2. x + 1 \in Int /\ m - 1 \in Int
    BY <1>0
  <2>3. /\ B \in Seq(S) /\ Len(B) = IF x + 1 <= m - 1 THEN m - 1 - (x + 1) + 1 ELSE 0
        /\ \A a \in 1..(m - 1 - (x + 1) + 1) : B[a] = s[x + 1 + a - 1]
    BY <2>1, <2>2, SubSeqProperties
  <2> QED BY <1>0, <2>3
<1>3. C \in Seq(S) /\ Len(C) = 1 /\ C[1] = s[x]
  BY <1>0
<1>4. /\ D \in Seq(S) /\ Len(D) = Len(s) - m + 1
      /\ \A a \in 1..(Len(s) - m + 1) : D[a] = s[m + a - 1]
  <2>1. \A a \in m..Len(s) : s[a] \in S
    BY <1>0
  <2>2. m \in Int /\ Len(s) \in Int
    BY <1>0
  <2>3. /\ D \in Seq(S) /\ Len(D) = IF m <= Len(s) THEN Len(s) - m + 1 ELSE 0
        /\ \A a \in 1..(Len(s) - m + 1) : D[a] = s[m + a - 1]
    BY <2>1, <2>2, SubSeqProperties
  <2> QED BY <1>0, <2>3
<1> HIDE DEF A, B, C, D
<1>a. PICK AB, ABC : AB = A \o B /\ ABC = AB \o C
  OBVIOUS
<1>5. /\ AB \in Seq(S) /\ Len(AB) = m - 2
      /\ \A a \in 1..(m - 2) : AB[a] = IF a < x THEN s[a] ELSE s[a + 1]
  <2>1. /\ AB \in Seq(S) /\ Len(AB) = Len(A) + Len(B)
        /\ \A a \in 1..(Len(A) + Len(B)) : AB[a] = IF a <= Len(A) THEN A[a] ELSE B[a - Len(A)]
    BY <1>1, <1>2, <1>a, ConcatProperties, ZenonT(30)
  <2>2. Len(A) + Len(B) = m - 2
    BY <1>0, <1>1, <1>2
  <2>3. ASSUME NEW a \in 1..(m - 2)
        PROVE  AB[a] = IF a < x THEN s[a] ELSE s[a + 1]
    <3>1. CASE a < x
      <4>1. a \in 1..(x - 1) /\ a <= Len(A)
        BY <1>0, <1>1, <3>1
      <4> QED BY <1>1, <2>1, <2>2, <3>1, <4>1
    <3>2. CASE ~ (a < x)
      <4>1. a - Len(A) \in 1..(m - 1 - x) /\ ~ (a <= Len(A)) /\ x + (a - Len(A)) = a + 1
        <5>1. Len(A) = x - 1 /\ a \in Int /\ a <= m - 2 /\ x <= a
          BY <1>0, <1>1, <3>2
        <5> QED BY ONLY <1>0, <5>1
      <4> QED BY <1>2, <2>1, <2>2, <3>2, <4>1
    <3> QED BY <3>1, <3>2
  <2> QED BY <2>1, <2>2, <2>3
<1>6. /\ ABC \in Seq(S) /\ Len(ABC) = m - 1
      /\ \A a \in 1..(m - 2) : ABC[a] = AB[a]
      /\ ABC[m - 1] = s[x]
  <2>1. /\ ABC \in Seq(S) /\ Len(ABC) = Len(AB) + Len(C)
        /\ \A a \in 1..(Len(AB) + Len(C)) :
               ABC[a] = IF a <= Len(AB) THEN AB[a] ELSE C[a - Len(AB)]
    BY <1>3, <1>5, <1>a, ConcatProperties, ZenonT(30)
  <2>2. /\ Len(AB) + Len(C) = m - 1 /\ m - 1 \in 1..(m - 1) /\ ~ (m - 1 <= m - 2)
        /\ (m - 1) - (m - 2) = 1 /\ \A a \in 1..(m - 2) : a \in 1..(m - 1) /\ a <= m - 2
    BY <1>0, <1>3, <1>5
  <2>3. \A a \in 1..(m - 2) : ABC[a] = AB[a]
    BY <1>5, <2>1, <2>2
  <2>4. ABC[m - 1] = s[x]
    <3>1. Len(AB) = m - 2
      BY <1>5
    <3>2. m - 1 \in 1..(Len(AB) + Len(C)) /\ ~ (m - 1 <= Len(AB)) /\ (m - 1) - Len(AB) = 1
      BY ONLY <2>2, <3>1
    <3>3. ABC[m - 1] = C[(m - 1) - Len(AB)]
      BY ONLY <2>1, <3>2
    <3> QED BY <1>3, <3>2, <3>3
  <2> QED BY <2>1, <2>2, <2>3, <2>4
<1>7. p = ABC \o D
  BY <1>p, <1>a DEF A, B, C, D, Permuted
<1>8. /\ p \in Seq(S) /\ Len(p) = Len(ABC) + Len(D)
      /\ \A a \in 1..(Len(ABC) + Len(D)) :
             p[a] = IF a <= Len(ABC) THEN ABC[a] ELSE D[a - Len(ABC)]
  <2>1. ABC \in Seq(S) /\ p = ABC \o D
    BY <1>6, <1>7
  <2>2. /\ ABC \o D \in Seq(S) /\ Len(ABC \o D) = Len(ABC) + Len(D)
        /\ \A a \in 1..(Len(ABC) + Len(D)) : (ABC \o D)[a] = IF a <= Len(ABC) THEN ABC[a] ELSE D[a - Len(ABC)]
    BY ONLY <1>4, <2>1, ConcatProperties
  <2>3. /\ p \in Seq(S) /\ Len(p) = Len(ABC) + Len(D)
        /\ \A a \in 1..(Len(ABC) + Len(D)) : p[a] = IF a <= Len(ABC) THEN ABC[a] ELSE D[a - Len(ABC)]
    BY ONLY <2>1, <2>2
  <2> QED BY <2>3
<1>9. Len(ABC) + Len(D) = Len(s)
  <2>1. Len(ABC) = m - 1 /\ Len(D) = Len(s) - m + 1
    BY <1>4, <1>6
  <2> QED BY ONLY <1>0, <2>1
<1>10. ASSUME NEW a \in 1..Len(s)
       PROVE  p[a] = IF a < x \/ a >= m THEN s[a] ELSE IF a = m - 1 THEN s[x] ELSE s[a + 1]
  <2>1. CASE a <= m - 2
    <3>1. a \in 1..(m - 2) /\ a <= m - 1 /\ ~ (a >= m) /\ a # m - 1
      BY <1>0, <2>1
    <3> QED BY <1>5, <1>6, <1>8, <1>9, <3>1
  <2>2. CASE a = m - 1
    <3>1. ~ (a < x) /\ ~ (a >= m) /\ a <= m - 1
      BY <1>0, <2>2
    <3> QED BY <1>6, <1>8, <1>9, <2>2, <3>1
  <2>3. CASE a >= m
    <3>1. ~ (a <= m - 1) /\ a - (m - 1) \in 1..(Len(s) - m + 1) /\ m + (a - (m - 1)) - 1 = a
      BY <1>0, <2>3
    <3> QED BY <1>4, <1>6, <1>8, <1>9, <2>3, <3>1
  <2>4. a <= m - 2 \/ a = m - 1 \/ a >= m
    <3>1. a \in Int
      OBVIOUS
    <3> QED BY ONLY <1>0, <3>1
  <2> QED BY <2>1, <2>2, <2>3, <2>4
<1> QED BY <1>p, <1>8, <1>9, <1>10

\* The recursion of optparse_long.
LEMMA CallsEach ==
    ASSUME NEW o, Len(o.argv) \in Nat, DOMAIN o.argv = 1..Len(o.argv), IsState(o),
           o.optind \in 1..(Len(o.argv) + 1)
    PROVE  \E f : /\ \A i \in 1..Len(o.argv) : f[i] = ReadAt(o, i, f[i + 1])
                  /\ \A behind : f[Len(o.argv) + 1] = ReadAt(o, Len(o.argv) + 1, behind)
                  /\ optparse_long(o) = f[o.optind]
<1> DEFINE n == Len(o.argv) + 1
           Each(f, i) == IF i = n THEN ReadAt(o, n, NULL) ELSE ReadAt(o, i, f[i + 1])
           Solved == {m \in 0..n : \E f : \A i \in (m + 1)..n : f[i] = Each(f, i)}
<1>0. ASSUME NEW behind
      PROVE  ReadAt(o, n, behind) = ReadAt(o, n, NULL)
  <2> DEFINE at == [o EXCEPT !.optind = n]
  <2>1. n \notin DOMAIN o.argv /\ at.argv = o.argv /\ at.optind = n
    BY DEF IsState, Fields
  <2>2. Current(at) = NULL
    <3> HIDE DEF at, n
    <3> QED BY <2>1 DEF Current, ArgvAt
  <2>3. \A x : ReadAt(o, n, x) = [at EXCEPT !.ret = "end"]
    BY <2>2 DEF ReadAt, IsKind
  <2> QED BY <2>3
<1>1. n \in Nat
  OBVIOUS
<1>2. n \in Solved
  <2>1. \A f : \A i \in (n + 1)..n : f[i] = Each(f, i)
    BY <1>1
  <2> QED BY <1>1, <2>1
<1>3. ASSUME NEW m \in 1..n, m \in Solved
      PROVE  m - 1 \in Solved
  <2>1. PICK f : \A i \in (m + 1)..n : f[i] = Each(f, i)
    BY <1>3
  <2> DEFINE g == [i \in 1..(n + 1) |-> IF i = m THEN Each(f, m) ELSE f[i]]
  <2>2. ASSUME NEW i \in m..n
        PROVE  g[i] = Each(g, i)
    <3>1. i + 1 \in 1..(n + 1) /\ i + 1 # m /\ i \in 1..(n + 1)
      BY <1>1
    <3>2. g[i + 1] = f[i + 1]
      BY <3>1
    <3>3. Each(g, i) = Each(f, i)
      <4> HIDE DEF g
      <4> QED BY <3>2
    <3>4. g[i] = Each(f, i)
      <4>1. CASE i = m
        <5> HIDE DEF Each
        <5> QED BY <3>1, <4>1
      <4>2. CASE i # m
        <5>1. i \in (m + 1)..n
          BY <1>1, <4>2
        <5> HIDE DEF Each
        <5> QED BY <2>1, <3>1, <4>2, <5>1
      <4> QED BY <4>1, <4>2
    <3> QED BY <3>3, <3>4
  <2>3. m - 1 \in 0..n /\ (m - 1) + 1 = m
    BY <1>1
  <2> HIDE DEF g, Each, n
  <2> QED BY <2>2, <2>3
<1>4. PICK f : \A i \in 1..n : f[i] = Each(f, i)
  <2>1. 0 \in Solved
    <3> HIDE DEF Solved, n
    <3> QED BY <1>1, <1>2, <1>3, DownwardInduction
  <2>2. 0 + 1 = 1
    OBVIOUS
  <2> HIDE DEF n, Each
  <2> QED BY <2>1, <2>2
<1> DEFINE h == [i \in 1..n |-> ReadAt(o, i, f[i + 1])]
           Is(g) == g = [i \in 1..n |-> ReadAt(o, i, g[i + 1])]
<1>5. Is(h)
  <2>1. ASSUME NEW i \in 1..n
        PROVE  ReadAt(o, i, f[i + 1]) = ReadAt(o, i, h[i + 1])
    <3>1. CASE i = n
      <4> HIDE DEF h, n
      <4> QED BY <1>0, <3>1
    <3>2. CASE i # n
      <4>1. i + 1 \in 1..n /\ i # n
        BY <1>1, <3>2
      <4>2. h[i + 1] = ReadAt(o, i + 1, f[i + 1 + 1])
        BY <4>1
      <4>3. f[i + 1] = h[i + 1]
        <5>1. f[i + 1] = Each(f, i + 1)
          <6> HIDE DEF Each, n
          <6> QED BY <1>4, <4>1
        <5>2. Each(f, i + 1) = ReadAt(o, i + 1, f[i + 1 + 1])
          <6> HIDE DEF n
          <6> QED BY <1>0
        <5> HIDE DEF Each, n, h
        <5> QED BY <4>2, <5>1, <5>2
      <4> HIDE DEF h
      <4> QED BY <4>3
    <3> QED BY <3>1, <3>2
  <2> QED BY <2>1
<1> DEFINE F == CHOOSE g : Is(g)
<1>6. Is(F)
  <2> HIDE DEF Is, h
  <2> QED BY <1>5
<1>7. optparse_long(o) = F[o.optind]
  BY DEF optparse_long
<1> HIDE DEF F
<1>8. \A i \in 1..n : F[i] = ReadAt(o, i, F[i + 1])
  BY <1>6
<1>9. n \in 1..n /\ \A i \in 1..Len(o.argv) : i \in 1..n
  BY <1>1
<1>10. \A behind : F[n] = ReadAt(o, n, behind)
  <2> HIDE DEF n
  <2> QED BY <1>0, <1>8, <1>9
<1> QED BY <1>7, <1>8, <1>9, <1>10

\* p is s where the arguments from i to n stand behind those from n to j.
Moved(p, s, i, n, j) ==
    /\ Len(p) = Len(s)
    /\ \A a \in 1..Len(s) :
           p[a] = IF a < i \/ a >= j THEN s[a]
                  ELSE IF a < i + (j - n) THEN s[a + (n - i)] ELSE s[a - (j - n)]

\* One more word is moved behind the same option.
LEMMA MovedFurther ==
    ASSUME NEW S, NEW s \in Seq(S), NEW q \in Seq(S), NEW p,
           NEW n \in 1..(Len(s) + 1), NEW j \in n..(Len(s) + 1), NEW i \in 1..(n - 1),
           Moved(q, s, i + 1, n, j), NEW m, m = i + 1 + (j - n),
           p = Permuted(q, i, m)
    PROVE  p \in Seq(S) /\ Moved(p, s, i, n, j)
<1>0. /\ Len(s) \in Nat /\ Len(q) = Len(s) /\ i \in Int /\ n \in Int /\ j \in Int /\ m \in Int
      /\ 1 <= i /\ i < n /\ n <= j /\ j <= Len(s) + 1
  BY DEF Moved
<1>1. i \in 1..Len(q) /\ m \in (i + 1)..(Len(q) + 1) /\ m - 1 = i + (j - n) /\ m <= j
  BY <1>0
<1>2. /\ p \in Seq(S) /\ Len(p) = Len(q)
      /\ \A a \in 1..Len(q) :
             p[a] = IF a < i \/ a >= m THEN q[a] ELSE IF a = m - 1 THEN q[i] ELSE q[a + 1]
  <2>1. Permuted(q, i, m) \in Seq(S) /\ Len(Permuted(q, i, m)) = Len(q)
    BY ONLY <1>1, q \in Seq(S), PermutedArgv
  <2>2. \A a \in 1..Len(q) :
            Permuted(q, i, m)[a] =
                IF a < i \/ a >= m THEN q[a] ELSE IF a = m - 1 THEN q[i] ELSE q[a + 1]
    BY ONLY <1>1, q \in Seq(S), PermutedArgv
  <2> QED BY <2>1, <2>2
<1>3. \A a \in 1..Len(s) :
          q[a] = IF a < i + 1 \/ a >= j THEN s[a]
                 ELSE IF a < i + 1 + (j - n) THEN s[a + (n - (i + 1))] ELSE s[a - (j - n)]
  BY DEF Moved
<1>4. ASSUME NEW a \in 1..Len(s)
      PROVE  p[a] = IF a < i \/ a >= j THEN s[a]
                    ELSE IF a < i + (j - n) THEN s[a + (n - i)] ELSE s[a - (j - n)]
  <2>1. CASE a < i
    <3>1. a < i + 1
      BY <1>0, <2>1
    <3> QED BY <1>0, <1>2, <1>3, <2>1, <3>1
  <2>2. CASE a >= j
    <3>1. a >= m
      BY <1>0, <1>1, <2>2
    <3> QED BY <1>0, <1>2, <1>3, <2>2, <3>1
  <2>3. CASE a >= i /\ a < i + (j - n)
    <3>1. /\ ~ (a < i) /\ ~ (a >= m) /\ a # m - 1 /\ a + 1 \in 1..Len(s) /\ ~ (a >= j)
          /\ ~ (a + 1 < i + 1) /\ ~ (a + 1 >= j) /\ a + 1 < i + 1 + (j - n)
          /\ (a + 1) + (n - (i + 1)) = a + (n - i)
      BY <1>0, <1>1, <2>3
    <3>2. p[a] = q[a + 1]
      BY <1>0, <1>2, <3>1
    <3>3. q[a + 1] = s[(a + 1) + (n - (i + 1))]
      BY <1>3, <3>1
    <3> QED BY <2>3, <3>1, <3>2, <3>3
  <2>4. CASE a = i + (j - n)
    <3>1. /\ a = m - 1 /\ ~ (a < i) /\ ~ (a >= m) /\ i \in 1..Len(s) /\ i < i + 1 /\ a - (j - n) = i
          /\ ~ (a < i + (j - n)) /\ ~ (a >= j)
      BY <1>0, <1>1, <2>4
    <3> QED BY <1>0, <1>2, <1>3, <3>1
  <2>5. CASE a > i + (j - n) /\ a < j
    <3>1. /\ a >= m /\ ~ (a < i) /\ ~ (a < i + 1) /\ ~ (a >= j) /\ ~ (a < i + 1 + (j - n))
          /\ ~ (a < i + (j - n))
      BY <1>0, <1>1, <2>5
    <3> QED BY <1>0, <1>2, <1>3, <3>1
  <2>6. a < i \/ a >= j \/ (a >= i /\ a < i + (j - n)) \/ a = i + (j - n) \/ (a > i + (j - n) /\ a < j)
    <3>1. a \in Int
      OBVIOUS
    <3> QED BY ONLY <1>0, <3>1
  <2> QED BY <2>1, <2>2, <2>3, <2>4, <2>5, <2>6
<1> QED BY <1>0, <1>2, <1>4 DEF Moved

\* r is b, if the words from i to n had been moved behind what b has read.
Behind(r, b, args, argv, i, n) ==
    /\ IsState(r) /\ r.argv \in Seq(ToSet(args))
    /\ r.optind = i + (b.optind - n)
    /\ Moved(r.argv, argv, i, n, b.optind)
    /\ r.subopt = b.subopt /\ r.optarg = b.optarg /\ r.errmsg = b.errmsg /\ r.ret = b.ret

\* The words that a call begins at stand behind the option that it has read.
LEMMA Call ==
    ASSUME NEW args, IsLine(args), NEW n, NEW o, Facing(args, n, o),
           n <= Len(args) => args[n][1] # "word",
           o.optind \in 1..n, \A a \in o.optind..(n - 1) : IsKind(o.argv[a], "word")
    PROVE  \E b : /\ HasRead(args, n, o.subopt, b)
                  /\ Behind(optparse_long(o), b, args, o.argv, o.optind, n)
<1> DEFINE S == ToSet(args)
<1>0. /\ Len(args) \in Nat /\ Len(o.argv) = Len(args) /\ DOMAIN o.argv = 1..Len(o.argv)
      /\ n \in 1..(Len(args) + 1) /\ o.argv \in Seq(S) /\ IsState(o)
      /\ o.optind \in Int /\ 1 <= o.optind /\ o.optind <= n /\ n \in Int /\ n <= Len(args) + 1
      /\ Len(o.argv) \in Nat
  BY DEF Facing, IsLine
<1>1. PICK f : /\ \A i \in 1..Len(o.argv) : f[i] = ReadAt(o, i, f[i + 1])
               /\ \A behind : f[Len(o.argv) + 1] = ReadAt(o, Len(o.argv) + 1, behind)
               /\ optparse_long(o) = f[o.optind]
  <2>1. o.optind \in 1..(Len(o.argv) + 1)
    BY <1>0
  <2> QED BY <1>0, <2>1, CallsEach
<1>2. PICK b : b = f[n]
  OBVIOUS
<1> DEFINE j == b.optind
<1>3. IsState(b) /\ b.argv = o.argv /\ HasRead(args, n, o.subopt, b) /\ j \in n..(Len(args) + 1)
  <2>1. PICK behind : f[n] = ReadAt(o, n, behind)
    <3>1. CASE n = Len(args) + 1
      BY <1>0, <1>1, <3>1
    <3>2. CASE n # Len(args) + 1
      <4>1. n \in 1..Len(o.argv)
        BY <1>0, <3>2
      <4> QED BY <1>1, <4>1
    <3> QED BY <3>1, <3>2
  <2>2. IsState(b) /\ b.argv = o.argv /\ HasRead(args, n, o.subopt, b)
    BY <1>2, <2>1, ArgumentRead
  <2> QED BY <2>2 DEF HasRead
<1> DEFINE T == {m \in 0..n : m >= o.optind => Behind(f[m], b, args, o.argv, m, n)}
<1>4. n \in T
  <2>1. Moved(b.argv, o.argv, n, n, j)
    <3>1. j \in Int /\ n <= j
      BY <1>0, <1>3
    <3>2. \A a \in 1..Len(o.argv) : /\ ~ (a < n \/ a >= j) => a < n + (j - n)
                                    /\ a + (n - n) = a
      BY <1>0, <3>1
    <3> HIDE DEF j
    <3> QED BY <1>3, <3>2 DEF Moved
  <2>2. n + (j - n) = j
    BY <1>0, <1>3
  <2>3. Behind(b, b, args, o.argv, n, n)
    BY <1>0, <1>3, <2>1, <2>2 DEF Behind
  <2> QED BY <1>0, <1>2, <2>3
<1>5. ASSUME NEW m \in 1..n, m \in T
      PROVE  m - 1 \in T
  <2> DEFINE i == m - 1
             q == f[m]
  <2> SUFFICES ASSUME i >= o.optind
               PROVE  Behind(f[i], b, args, o.argv, i, n)
    BY <1>0
  <2>1. /\ i \in 1..(n - 1) /\ i + 1 = m /\ i \in 1..Len(o.argv) /\ i \in o.optind..(n - 1)
        /\ m >= o.optind
    BY <1>0
  <2>2. Behind(q, b, args, o.argv, m, n)
    <3> HIDE DEF i
    <3> QED BY <1>5, <2>1
  <2>3. IsState(q) /\ q.argv \in Seq(S) /\ q.optind = m + (j - n) /\ Moved(q.argv, o.argv, m, n, j)
    BY <2>2 DEF Behind
  <2>4. f[i] = [optparse_permute(q, i) EXCEPT !.optind = @ - 1]
    <3> DEFINE at == [o EXCEPT !.optind = i]
    <3>1. at.argv = o.argv /\ at.optind = i
      BY <1>0 DEF IsState, Fields
    <3>2. Current(at) = o.argv[i]
      <4> HIDE DEF at, i
      <4> QED BY <1>0, <2>1, <3>1 DEF Current, ArgvAt
    <3>3. IsKind(o.argv[i], "word")
      <4> HIDE DEF i
      <4> QED BY <2>1
    <3>4. /\ o.argv[i] # NULL /\ IsKind(o.argv[i], "word") /\ ~ IsKind(o.argv[i], "dashdash")
          /\ ~ IsKind(o.argv[i], "short") /\ ~ IsKind(o.argv[i], "long")
      <4> HIDE DEF i
      <4> QED BY <3>3 DEF IsKind
    <3>5. f[i] = ReadAt(o, i, q)
      <4> HIDE DEF i
      <4> QED BY <1>1, <2>1
    <3>6. ReadAt(o, i, q) = CASE Current(at) = NULL -> [at EXCEPT !.ret = "end"]
              [] IsKind(Current(at), "dashdash") -> [at EXCEPT !.ret = "end", !.optind = @ + 1]
              [] IsKind(Current(at), "short") -> optparse(at)
              [] IsKind(Current(at), "long") -> LongOption(at, Current(at)[2], Current(at)[3])
              [] IsKind(Current(at), "word") -> [optparse_permute(q, i) EXCEPT !.optind = @ - 1]
      BY DEF ReadAt
    <3> HIDE DEF at, i, q
    <3> QED BY <3>2, <3>4, <3>5, <3>6
  <2> HIDE DEF q
  <2>5. /\ IsState(f[i]) /\ f[i].argv = Permuted(q.argv, i, q.optind) /\ f[i].optind = q.optind - 1
        /\ f[i].subopt = q.subopt /\ f[i].optarg = q.optarg /\ f[i].errmsg = q.errmsg /\ f[i].ret = q.ret
    <3> DEFINE c == optparse_permute(q, i)
    <3>1. /\ IsState(c) /\ c.argv = Permuted(q.argv, i, q.optind) /\ c.optind = q.optind
          /\ c.subopt = q.subopt /\ c.optarg = q.optarg /\ c.errmsg = q.errmsg /\ c.ret = q.ret
      BY <2>3 DEF IsState, Fields, optparse_permute, Permuted
    <3> HIDE DEF c
    <3>2. f[i] = [c EXCEPT !.optind = @ - 1]
      BY <2>4 DEF c
    <3> QED BY <3>1, <3>2, SMTT(30) DEF IsState, Fields
  <2>6. f[i].argv \in Seq(S) /\ Moved(f[i].argv, o.argv, i, n, j)
    <3>1. /\ n \in 1..(Len(o.argv) + 1) /\ j \in n..(Len(o.argv) + 1)
          /\ Moved(q.argv, o.argv, i + 1, n, j) /\ q.optind = i + 1 + (j - n)
      BY <1>0, <1>3, <2>1, <2>3
    <3> HIDE DEF i, j, S
    <3> QED BY <1>0, <2>1, <2>3, <2>5, <3>1, MovedFurther, ZenonT(30)
  <2>7. f[i].optind = i + (j - n)
    BY <1>0, <1>3, <2>3, <2>5
  <2> QED BY <2>2, <2>5, <2>6, <2>7 DEF Behind
<1>6. o.optind \in T
  <2>1. n \in Nat /\ o.optind \in 0..n
    BY <1>0
  <2> HIDE DEF T
  <2> QED BY <1>4, <1>5, <2>1, DownwardInduction
<1>7. Behind(f[o.optind], b, args, o.argv, o.optind, n)
  BY <1>0, <1>6
<1> QED BY <1>1, <1>3, <1>7

-----------------------------------------------------------------------------
(* A line, call by call.                                                    *)

\* s holds from m to k what t holds from p to q.
SameRange(s, m, k, t, p, q) ==
    /\ m \in Int /\ k \in Int /\ 1 <= m /\ k <= Len(s) /\ m <= k + 1
    /\ p \in Int /\ q \in Int /\ 1 <= p /\ q <= Len(t) /\ k - m = q - p
    /\ \A a \in m..k : s[a] = t[a + (p - m)]

Part(s, m, k) == SubSeq(s, m, k)

\* Equal ranges of two sequences.
LEMMA SameSubSeq ==
    ASSUME NEW S, NEW s \in Seq(S), NEW t \in Seq(S), NEW m, NEW k, NEW p, NEW q,
           SameRange(s, m, k, t, p, q)
    PROVE  Part(s, m, k) = Part(t, p, q)
<1>0. /\ Len(s) \in Nat /\ Len(t) \in Nat
      /\ m \in Int /\ k \in Int /\ 1 <= m /\ k <= Len(s) /\ m <= k + 1
      /\ p \in Int /\ q \in Int /\ 1 <= p /\ q <= Len(t) /\ k - m = q - p
      /\ \A a \in m..k : s[a] = t[a + (p - m)]
  BY DEF SameRange
<1>1. \A a \in m..k : s[a] \in S
  <2>1. \A a \in m..k : a \in 1..Len(s)
    BY <1>0
  <2> QED BY <2>1
<1>2. \A a \in p..q : t[a] \in S
  <2>1. \A a \in p..q : a \in 1..Len(t)
    BY <1>0
  <2> QED BY <2>1
<1>3. PICK u, v : u = SubSeq(s, m, k) /\ v = SubSeq(t, p, q)
  OBVIOUS
<1>4. /\ u \in Seq(S) /\ Len(u) = IF m <= k THEN k - m + 1 ELSE 0
      /\ \A i \in 1..(k - m + 1) : u[i] = s[m + i - 1]
  BY <1>0, <1>1, <1>3, SubSeqProperties
<1>5. /\ v \in Seq(S) /\ Len(v) = IF p <= q THEN q - p + 1 ELSE 0
      /\ \A i \in 1..(q - p + 1) : v[i] = t[p + i - 1]
  BY <1>0, <1>2, <1>3, SubSeqProperties
<1>6. Len(u) = Len(v) /\ Len(u) = k - m + 1 /\ k - m + 1 = q - p + 1
  BY <1>0, <1>4, <1>5, SMTT(30)
<1>7. ASSUME NEW i \in 1..Len(u)
      PROVE  u[i] = v[i]
  <2>1. i \in 1..(k - m + 1) /\ i \in 1..(q - p + 1)
    BY <1>0, <1>6
  <2>2. m + i - 1 \in m..k /\ (m + i - 1) + (p - m) = p + i - 1
    BY <1>0, <2>1
  <2>3. u[i] = s[m + i - 1] /\ v[i] = t[p + i - 1]
    BY <1>4, <1>5, <2>1
  <2>4. s[m + i - 1] = t[(m + i - 1) + (p - m)]
    BY <1>0, <2>2
  <2> QED BY <2>2, <2>3, <2>4
<1>8. u = v
  BY <1>4, <1>5, <1>6, <1>7, SeqEqual
<1> QED BY <1>3, <1>8 DEF Part

\* The end of a sequence, in two parts.
LEMMA SplitSubSeq ==
    ASSUME NEW S, NEW s \in Seq(S), NEW m \in 1..(Len(s) + 1), NEW k \in (m - 1)..Len(s)
    PROVE  SubSeq(s, m, Len(s)) = SubSeq(s, m, k) \o SubSeq(s, k + 1, Len(s))
<1>0. Len(s) \in Nat /\ m \in Int /\ k \in Int /\ 1 <= m /\ m <= Len(s) + 1 /\ m <= k + 1 /\ k <= Len(s)
  OBVIOUS
<1>1. \A a \in m..Len(s) : s[a] \in S
  <2>1. \A a \in m..Len(s) : a \in 1..Len(s)
    BY <1>0
  <2> QED BY <2>1
<1>2. PICK u, v, w : u = SubSeq(s, m, Len(s)) /\ v = SubSeq(s, m, k) /\ w = SubSeq(s, k + 1, Len(s))
  OBVIOUS
<1>3. /\ u \in Seq(S) /\ Len(u) = IF m <= Len(s) THEN Len(s) - m + 1 ELSE 0
      /\ \A i \in 1..(Len(s) - m + 1) : u[i] = s[m + i - 1]
  BY <1>0, <1>1, <1>2, SubSeqProperties
<1>4. /\ v \in Seq(S) /\ Len(v) = IF m <= k THEN k - m + 1 ELSE 0
      /\ \A i \in 1..(k - m + 1) : v[i] = s[m + i - 1]
  <2>1. \A a \in m..k : s[a] \in S
    BY <1>0, <1>1
  <2> QED BY <1>0, <1>2, <2>1, SubSeqProperties
<1>5. /\ w \in Seq(S) /\ Len(w) = IF k + 1 <= Len(s) THEN Len(s) - (k + 1) + 1 ELSE 0
      /\ \A i \in 1..(Len(s) - (k + 1) + 1) : w[i] = s[k + 1 + i - 1]
  <2>1. k + 1 \in Int /\ \A a \in (k + 1)..Len(s) : s[a] \in S
    BY <1>0, <1>1
  <2> QED BY <1>0, <1>2, <2>1, SubSeqProperties
<1>6. Len(u) = Len(s) - m + 1 /\ Len(v) = k - m + 1 /\ Len(w) = Len(s) - k
  <2>1. Len(u) = Len(s) - m + 1
    BY <1>0, <1>3
  <2>2. Len(v) = k - m + 1
    BY <1>0, <1>4
  <2>3. Len(w) = Len(s) - k
    BY <1>0, <1>5
  <2> QED BY <2>1, <2>2, <2>3
<1>7. PICK x : x = v \o w
  OBVIOUS
<1>8. /\ x \in Seq(S) /\ Len(x) = Len(v) + Len(w)
      /\ \A i \in 1..(Len(v) + Len(w)) : x[i] = IF i <= Len(v) THEN v[i] ELSE w[i - Len(v)]
  BY <1>4, <1>5, <1>7, ConcatProperties
<1>9. Len(x) = Len(u) /\ Len(v) + Len(w) = Len(u)
  BY ONLY <1>0, <1>6, <1>8
<1>10. ASSUME NEW i \in 1..Len(u)
       PROVE  u[i] = x[i]
  <2>1. i \in Int /\ 1 <= i /\ i <= Len(s) - m + 1 /\ i \in 1..(Len(s) - m + 1) /\ i \in 1..(Len(v) + Len(w))
    BY <1>0, <1>6, <1>9
  <2>2. CASE i <= k - m + 1
    <3>1. i \in 1..(k - m + 1) /\ i <= Len(v)
      BY <1>0, <1>6, <2>1, <2>2
    <3> QED BY <1>3, <1>4, <1>8, <2>1, <3>1
  <2>3. CASE ~ (i <= k - m + 1)
    <3>1. /\ ~ (i <= Len(v)) /\ i - Len(v) \in 1..(Len(s) - (k + 1) + 1)
          /\ k + 1 + (i - Len(v)) - 1 = m + i - 1
      BY ONLY <1>0, <1>6, <2>1, <2>3
    <3> QED BY <1>3, <1>5, <1>8, <2>1, <3>1
  <2> QED BY <2>2, <2>3
<1> QED BY <1>2, <1>3, <1>7, <1>8, <1>9, <1>10, SeqEqual

\* A sequence is a prefix of itself and more.
LEMMA PrefixOfConcat ==
    ASSUME NEW S, NEW s \in Seq(S), NEW t \in Seq(S)
    PROVE  IsPrefix(s, s \o t)
<1>1. PICK u : u = s \o t
  OBVIOUS
<1>2. /\ u \in Seq(S) /\ Len(u) = Len(s) + Len(t) /\ Len(s) \in Nat /\ Len(t) \in Nat
      /\ \A i \in 1..Len(s) : u[i] = s[i]
  BY <1>1, ConcatLeft
<1>3. \A i \in 1..Len(s) : i + (1 - 1) = i
  OBVIOUS
<1>4. SameRange(s, 1, Len(s), u, 1, Len(s))
  BY <1>2, <1>3 DEF SameRange
<1>5. SubSeq(s, 1, Len(s)) = SubSeq(u, 1, Len(s))
  BY <1>2, <1>4, SameSubSeq DEF Part
<1> QED BY <1>1, <1>2, <1>5 DEF IsPrefix

\* The options in done have been returned.  The words from optind to h have been passed,
\* and what is left is behind them.
AtArgument(args, o, done, h) ==
    /\ Facing(args, h, o)
    /\ o.optind \in 1..h
    /\ \A a \in o.optind..(h - 1) : IsKind(o.argv[a], "word")
    /\ done \in Seq(Read(args))
    /\ Meaning(args) = LET rest == Rest(args, h, o.subopt)
                       IN  Reading(done \o rest.options, SubSeq(o.argv, o.optind, h - 1) \o rest.words,
                                   rest.error)

\* A word is passed.
LEMMA WordPassed ==
    ASSUME NEW args, IsLine(args), NEW o, NEW done, NEW h, AtArgument(args, o, done, h),
           h <= Len(args), args[h][1] = "word"
    PROVE  AtArgument(args, o, done, h + 1)
<1> DEFINE S == ToSet(args)
           rest == Rest(args, h, 0)
           left == Rest(args, h + 1, 0)
           words == SubSeq(o.argv, o.optind, h - 1)
<1>0. /\ Len(args) \in Nat /\ DOMAIN args = 1..Len(args) /\ h \in 1..Len(args) /\ args \in Seq(S)
      /\ o.argv \in Seq(S) /\ Len(o.argv) = Len(args) /\ o.optind \in 1..h
      /\ o.argv[h] = args[h] /\ args[h] \in S
  <2>1. /\ Len(args) \in Nat /\ DOMAIN args = 1..Len(args) /\ h \in 1..Len(args) /\ args \in Seq(S)
        /\ o.argv \in Seq(S) /\ Len(o.argv) = Len(args) /\ o.optind \in 1..h
    BY DEF AtArgument, Facing, IsLine
  <2>2. h \in h..Len(args)
    BY <2>1
  <2> QED BY <2>1, <2>2 DEF AtArgument, Facing
<1>1. o.subopt = 0
  BY DEF AtArgument, Facing, Within
<1>2. Within(args, h, 0) /\ Within(args, h + 1, 0)
  BY DEF Within
<1>3. left \in Readings(args) /\ rest = [left EXCEPT !.words = <<args[h]>> \o left.words]
  <2>1. h \in 1..(Len(args) + 2) /\ ~ (h > Len(args)) /\ h + 1 \in 1..(Len(args) + 1)
    BY <1>0
  <2>2. rest = ReadArgument(args, h, Meanings(args)[h + 1], Meanings(args)[h + 2])
    BY <1>0, <2>1, MeaningsEach DEF Rest
  <2>3. left = Meanings(args)[h + 1]
    BY DEF Rest
  <2>4. left \in Readings(args)
    BY <1>2, <2>1, RestTyped
  <2>5. ReadArgument(args, h, left, Meanings(args)[h + 2]) = [left EXCEPT !.words = <<args[h]>> \o left.words]
    <3> HIDE DEF left
    <3> QED BY <2>4 DEF ReadArgument, Readings
  <2> QED BY <2>2, <2>3, <2>4, <2>5
<1> HIDE DEF rest, left
<1>4. rest.options = left.options /\ rest.error = left.error /\ rest.words = <<args[h]>> \o left.words
  BY <1>3 DEF Readings
<1>5. SubSeq(o.argv, o.optind, h) = words \o <<args[h]>>
  <2>1. o.optind \in 1..Len(o.argv) /\ h \in o.optind..Len(o.argv)
    BY <1>0
  <2> QED BY <1>0, <2>1, SubSeqRecursiveSecond
<1>6. words \in Seq(S) /\ <<args[h]>> \in Seq(S) /\ left.words \in Seq(S)
  <2>1. \A a \in o.optind..(h - 1) : o.argv[a] \in S
    <3>1. \A a \in o.optind..(h - 1) : a \in 1..Len(o.argv)
      BY <1>0
    <3> QED BY <1>0, <3>1
  <2>2. o.optind \in Int /\ h - 1 \in Int
    BY <1>0
  <2>3. words \in Seq(S)
    BY <2>1, <2>2, SubSeqProperties
  <2> QED BY <1>0, <1>3, <2>3, SMTT(30) DEF Readings
<1>7. words \o rest.words = SubSeq(o.argv, o.optind, h) \o left.words
  <2> DEFINE one == <<args[h]>>
             behind == left.words
  <2> HIDE DEF words, one, behind, S
  <2>1. words \in Seq(S) /\ one \in Seq(S) /\ behind \in Seq(S)
    BY <1>6 DEF one, behind
  <2>2. (words \o one) \o behind = words \o (one \o behind)
    BY ONLY <2>1, ConcatAssociative, SMTT(30)
  <2> QED BY <1>4, <1>5, <2>2 DEF one, behind
<1>8. (h + 1) - 1 = h /\ h + 1 \in 1..(Len(args) + 1) /\ o.optind \in 1..(h + 1)
  BY <1>0, SMTT(30)
<1>9. Meaning(args) = Reading(done \o left.options, SubSeq(o.argv, o.optind, h) \o left.words, left.error)
  BY <1>1, <1>4, <1>7 DEF AtArgument, rest
<1>10. Facing(args, h + 1, o)
  <2>1. \A a \in (h + 1)..Len(args) : a \in h..Len(args)
    BY <1>0
  <2> QED BY <1>1, <1>2, <1>8, <2>1 DEF AtArgument, Facing
<1>11. ASSUME NEW a \in o.optind..h
       PROVE  IsKind(o.argv[a], "word")
  <2>1. CASE a = h
    <3>1. args[h] # NULL
      BY <1>0 DEF IsLine, IsArgument, NULL
    <3> QED BY <1>0, <2>1, <3>1 DEF IsKind
  <2>2. CASE a # h
    <3>1. a \in o.optind..(h - 1)
      BY <1>0, <2>2
    <3> QED BY <3>1 DEF AtArgument
  <2> QED BY <2>1, <2>2
<1> QED BY <1>1, <1>8, <1>9, <1>10, <1>11 DEF AtArgument, left

\* All the words before the next option.
LEMMA WordsPassed ==
    ASSUME NEW args, IsLine(args), NEW o, NEW done, NEW h, AtArgument(args, o, done, h)
    PROVE  \E n : AtArgument(args, o, done, n) /\ (n <= Len(args) => args[n][1] # "word")
<1> DEFINE T == {n \in 1..(Len(args) + 1) : AtArgument(args, o, done, n)}
<1>1. Len(args) + 1 \in Nat /\ h \in T
  BY DEF AtArgument, Facing, IsLine
<1>2. PICK n \in T : \A m \in T : m <= n
  <2>1. T \subseteq 1..(Len(args) + 1) /\ T # {}
    BY <1>1
  <2> HIDE DEF T
  <2> QED BY <1>1, <2>1, GreatestElement
<1>3. AtArgument(args, o, done, n) /\ n \in 1..(Len(args) + 1)
  OBVIOUS
<1>4. ASSUME n <= Len(args), args[n][1] = "word"
      PROVE  FALSE
  <2>1. AtArgument(args, o, done, n + 1)
    BY <1>3, <1>4, WordPassed
  <2>2. n + 1 \in 1..(Len(args) + 1)
    BY <1>1, <1>3, <1>4
  <2>3. n + 1 \in T
    BY <2>1, <2>2
  <2>4. n + 1 <= n
    <3> HIDE DEF T
    <3> QED BY <1>2, <2>3
  <2> QED BY <1>3, <2>4
<1> QED BY <1>3, <1>4

\* What is known when optparse_long has returned: the option that it read, the end or
\* an error.
Returned(args, o, done) ==
    /\ IsState(o) /\ o.argv \in Seq(ToSet(args)) /\ Len(o.argv) = Len(args)
    /\ done \in Seq(Read(args))
    /\ o.ret \notin {"end", "?"} => \E h : AtArgument(args, o, done, h)
    /\ o.ret = "end" =>
           /\ o.optind \in 1..(Len(args) + 1)
           /\ Meaning(args) = Reading(done, SubSeq(o.argv, o.optind, Len(o.argv)), NULL)
    /\ o.ret = "?" => /\ Meaning(args).options = done
                      /\ Meaning(args).error = o.errmsg[1]

\* A call returns the next option of the line, its end or its error.
LEMMA OptionReturned ==
    ASSUME NEW args, IsLine(args), NEW o, NEW done, NEW h, AtArgument(args, o, done, h)
    PROVE  Returned(args, optparse_long(o),
                    IF optparse_long(o).ret \in {"end", "?"} THEN done
                    ELSE Append(done, <<optparse_long(o).ret, optparse_long(o).optarg>>))
<1> DEFINE S == ToSet(args)
<1>1. PICK n : AtArgument(args, o, done, n) /\ (n <= Len(args) => args[n][1] # "word")
  BY WordsPassed
<1>2. Facing(args, n, o) /\ o.optind \in 1..n /\ \A a \in o.optind..(n - 1) : IsKind(o.argv[a], "word")
  BY <1>1 DEF AtArgument
<1>3. PICK r : r = optparse_long(o)
  OBVIOUS
<1>4. PICK b : HasRead(args, n, o.subopt, b) /\ Behind(r, b, args, o.argv, o.optind, n)
  BY <1>1, <1>2, <1>3, Call
<1>5. PICK j : j = b.optind
  OBVIOUS
<1>6. /\ Len(args) \in Nat /\ n \in 1..(Len(args) + 1) /\ o.optind \in 1..n
      /\ o.argv \in Seq(S) /\ Len(o.argv) = Len(args) /\ args \in Seq(S)
      /\ j \in n..(Len(args) + 1)
      /\ \A a \in n..Len(args) : o.argv[a] = args[a]
  BY <1>2, <1>4, <1>5 DEF Facing, HasRead, IsLine
<1>7. /\ IsState(r) /\ r.argv \in Seq(S) /\ Len(r.argv) = Len(args)
      /\ r.optind = o.optind + (j - n)
      /\ \A a \in 1..Len(args) :
             r.argv[a] = IF a < o.optind \/ a >= j THEN o.argv[a]
                         ELSE IF a < o.optind + (j - n) THEN o.argv[a + (n - o.optind)]
                         ELSE o.argv[a - (j - n)]
      /\ r.subopt = b.subopt /\ r.optarg = b.optarg /\ r.errmsg = b.errmsg /\ r.ret = b.ret
  BY <1>4, <1>5, <1>6 DEF Behind, Moved
<1>8. r.optind \in 1..j /\ r.optind \in Int /\ j \in Int
  <2>1. o.optind \in Int /\ n \in Int /\ j \in Int /\ 1 <= o.optind /\ o.optind <= n /\ n <= j
    BY <1>6
  <2> QED BY ONLY <1>7, <2>1
\* The words are where they were, from the end.
<1>9. ASSUME NEW a \in r.optind..(j - 1)
      PROVE  r.argv[a] = o.argv[a - (j - n)] /\ a - (j - n) \in o.optind..(n - 1) /\ a \in 1..Len(args)
  <2>1. /\ a \in Int /\ o.optind \in Int /\ n \in Int /\ j \in Int /\ 1 <= o.optind /\ o.optind <= n
        /\ n <= j /\ j <= Len(args) + 1 /\ Len(args) \in Int
        /\ o.optind + (j - n) <= a /\ a < j
    BY <1>6, <1>7, <1>8
  <2>2. /\ a - (j - n) \in o.optind..(n - 1) /\ a \in 1..Len(args)
        /\ ~ (a < o.optind) /\ ~ (a >= j) /\ ~ (a < o.optind + (j - n))
    BY ONLY <2>1
  <2> QED BY <1>7, <2>2
<1>10. ASSUME NEW a \in j..Len(args)
       PROVE  r.argv[a] = args[a]
  <2>1. a \in 1..Len(args) /\ a \in n..Len(args) /\ a >= j
    BY <1>6
  <2> QED BY <1>6, <1>7, <2>1
<1>11. SubSeq(r.argv, r.optind, j - 1) = SubSeq(o.argv, o.optind, n - 1)
  <2>1. /\ r.optind \in Int /\ j - 1 \in Int /\ 1 <= r.optind /\ j - 1 <= Len(r.argv)
        /\ r.optind <= (j - 1) + 1
        /\ o.optind \in Int /\ n - 1 \in Int /\ 1 <= o.optind /\ n - 1 <= Len(o.argv)
        /\ (j - 1) - r.optind = (n - 1) - o.optind
    BY <1>6, <1>7, <1>8, SMTT(30)
  <2>2. ASSUME NEW a \in r.optind..(j - 1)
        PROVE  r.argv[a] = o.argv[a + (o.optind - r.optind)]
    <3>0. PICK k : k = a - (j - n)
      OBVIOUS
    <3>1. a + (o.optind - r.optind) = k
      <4>1. a \in Int /\ o.optind \in Int /\ j \in Int /\ n \in Int /\ r.optind \in Int
        BY <1>6, <1>8
      <4> QED BY ONLY <1>7, <3>0, <4>1
    <3>2. r.argv[a] = o.argv[k]
      BY <1>9, <3>0
    <3> QED BY ONLY <3>1, <3>2
  <2>3. SameRange(r.argv, r.optind, j - 1, o.argv, o.optind, n - 1)
    BY <2>1, <2>2 DEF SameRange
  <2>4. Part(r.argv, r.optind, j - 1) = Part(o.argv, o.optind, n - 1)
    BY <1>6, <1>7, <2>3, SameSubSeq, SMTT(30)
  <2> QED BY <2>4 DEF Part
<1> DEFINE rest == Rest(args, n, o.subopt)
           words == SubSeq(o.argv, o.optind, n - 1)
<1>12. /\ done \in Seq(Read(args))
       /\ Meaning(args) = Reading(done \o rest.options, words \o rest.words, rest.error)
       /\ words \in Seq(S) /\ done \o <<>> = done
  <2>1. done \in Seq(Read(args)) /\ Meaning(args) = Reading(done \o rest.options, words \o rest.words, rest.error)
    BY <1>1 DEF AtArgument
  <2>2. \A a \in o.optind..(n - 1) : o.argv[a] \in S
    <3>1. \A a \in o.optind..(n - 1) : a \in 1..Len(o.argv)
      BY <1>6
    <3> QED BY <1>6, <3>1
  <2>3. words \in Seq(S)
    BY <1>6, <2>2, SubSeqProperties
  <2> QED BY <2>1, <2>3, ConcatEmptySeq
<1> HIDE DEF rest, words
<1>13. CASE r.ret \notin {"end", "?"}
  <2> DEFINE opt == <<r.ret, r.optarg>>
             left == Rest(args, j, r.subopt)
  <2>1. opt \in Read(args) /\ rest = Prefixed(opt, left) /\ Within(args, j, r.subopt)
    BY <1>4, <1>5, <1>7, <1>13 DEF HasRead, rest
  <2>2. left \in Readings(args)
    <3>1. j \in 1..(Len(args) + 1)
      BY <1>6
    <3> QED BY <2>1, <3>1, RestTyped
  <2> HIDE DEF opt, left
  <2>3. rest = [left EXCEPT !.options = <<opt>> \o left.options]
    BY <2>1, <2>2, PrefixedTyped
  <2>4. rest.options = <<opt>> \o left.options /\ rest.words = left.words /\ rest.error = left.error
    BY <2>2, <2>3 DEF Readings
  <2>5. Append(done, opt) \in Seq(Read(args)) /\ done \o rest.options = Append(done, opt) \o left.options
    <3>1. <<opt>> \in Seq(Read(args)) /\ left.options \in Seq(Read(args)) /\ Append(done, opt) = done \o <<opt>>
      BY <1>12, <2>1, <2>2 DEF Readings
    <3> DEFINE one == <<opt>>
               behind == left.options
    <3> HIDE DEF one, behind
    <3>2. one \in Seq(Read(args)) /\ behind \in Seq(Read(args))
      BY <3>1 DEF one, behind
    <3>3. (done \o one) \o behind = done \o (one \o behind)
      BY ONLY <1>12, <3>2, ConcatAssociative, SMTT(30)
    <3>4. Append(done, opt) \in Seq(Read(args))
      BY <1>12, <2>1
    <3>5. done \o rest.options = (done \o one) \o behind
      BY <2>4, <3>3 DEF one, behind
    <3> QED BY <3>1, <3>4, <3>5 DEF one, behind
  <2>6. Facing(args, j, r)
    <3>1. j \in 1..(Len(args) + 1)
      BY <1>6
    <3> QED BY <1>7, <1>10, <2>1, <3>1 DEF Facing
  <2>7. \A a \in r.optind..(j - 1) : IsKind(r.argv[a], "word")
    BY <1>2, <1>9, SMTT(30)
  <2>8. AtArgument(args, r, Append(done, opt), j)
    BY <1>8, <1>11, <1>12, <2>4, <2>5, <2>6, <2>7 DEF AtArgument, left, words
  <2> QED BY <1>3, <1>7, <1>13, <2>5, <2>8 DEF Returned, opt
<1>14. CASE r.ret = "end"
  <2>1. rest = Reading(<<>>, SubSeq(args, j, Len(args)), NULL)
    BY <1>4, <1>5, <1>7, <1>14, SMTT(30) DEF HasRead, rest
  <2>2. SubSeq(r.argv, r.optind, Len(r.argv)) = words \o SubSeq(args, j, Len(args))
    <3>1. SubSeq(r.argv, j, Len(r.argv)) = SubSeq(args, j, Len(args))
      <4>1. \A a \in j..Len(args) : a + (j - j) = a
        BY <1>6
      <4>2. \A a \in j..Len(args) : r.argv[a] = args[a + (j - j)]
        BY <1>10, <4>1
      <4>3. SameRange(r.argv, j, Len(args), args, j, Len(args))
        BY <1>6, <1>7, <4>2 DEF SameRange
      <4> QED BY <1>6, <1>7, <4>3, SameSubSeq DEF Part
    <3>2. r.optind \in 1..(Len(r.argv) + 1) /\ j - 1 \in (r.optind - 1)..Len(r.argv) /\ (j - 1) + 1 = j
      BY <1>6, <1>7, <1>8
    <3>3. SubSeq(r.argv, r.optind, Len(r.argv))
            = SubSeq(r.argv, r.optind, j - 1) \o SubSeq(r.argv, (j - 1) + 1, Len(r.argv))
      BY <1>7, <3>2, SplitSubSeq
    <3> QED BY <1>11, <3>1, <3>2, <3>3 DEF words
  <2>3. r.optind \in 1..(Len(args) + 1)
    BY <1>6, <1>8
  <2>4. Meaning(args) = Reading(done, SubSeq(r.argv, r.optind, Len(r.argv)), NULL)
    BY <1>12, <2>1, <2>2 DEF Reading
  <2> QED BY <1>3, <1>7, <1>12, <1>14, <2>3, <2>4 DEF Returned
<1>15. CASE r.ret = "?"
  <2>1. rest = Refused(r.errmsg[1])
    BY <1>4, <1>7, <1>15 DEF HasRead, rest
  <2>2. rest.options = <<>> /\ rest.error = r.errmsg[1]
    BY <2>1 DEF Refused, Reading
  <2>3. Meaning(args).options = done /\ Meaning(args).error = r.errmsg[1]
    BY <1>12, <2>2 DEF Reading
  <2> QED BY <1>3, <1>7, <1>12, <1>15, <2>3 DEF Returned
<1> QED BY <1>13, <1>14, <1>15

-----------------------------------------------------------------------------
(* The parser.                                                              *)

\* Between two calls, what was returned and what is left are the line.

OptionsInv ==
    /\ line \in Lines
    /\ Returned(line, options, returned)

\* The command lines are lines.
LEMMA LineTyped ==
    ASSUME NEW args \in Lines
    PROVE  IsLine(args)
  BY LinesAssumption DEF IsLine

\* Before the first call everything is left to read.
LEMMA OptionsInitially ==
    ASSUME NEW args \in Lines
    PROVE  Returned(args, optparse_init(args), <<>>)
<1> DEFINE o == optparse_init(args)
           S == ToSet(args)
<1>1. /\ IsLine(args) /\ Len(args) \in Nat /\ args \in Seq(S)
  BY LineTyped DEF IsLine
<1>2. IsState(o) /\ o.argv = args /\ o.optind = 1 /\ o.subopt = 0 /\ o.ret = "none"
  BY DEF optparse_init, IsState, Fields
<1> HIDE DEF o
<1>3. Facing(args, 1, o)
  BY <1>1, <1>2 DEF Facing, Within
<1>4. AtArgument(args, o, <<>>, 1)
  <2> DEFINE rest == Rest(args, 1, 0)
  <2>1. rest \in Readings(args)
    <3>1. 1 \in 1..(Len(args) + 1)
      BY <1>1
    <3> QED BY <1>1, <3>1, RestTyped DEF Within
  <2>2. Meaning(args) = rest
    BY DEF Meaning, Rest
  <2> HIDE DEF rest
  <2>3. SubSeq(o.argv, 1, 1 - 1) = <<>>
    BY SubSeqEmpty
  <2>4. <<>> \o rest.options = rest.options /\ <<>> \o rest.words = rest.words
    BY <2>1, ConcatEmptySeq DEF Readings
  <2>5. rest = Reading(rest.options, rest.words, rest.error)
    BY <2>1 DEF Readings, Reading
  <2>6. Meaning(args) = Reading(<<>> \o rest.options, SubSeq(o.argv, 1, 1 - 1) \o rest.words, rest.error)
    BY <2>2, <2>3, <2>4, <2>5
  <2> QED BY <1>2, <1>3, <2>6 DEF AtArgument, rest
<1>5. o.ret \notin {"end", "?"} /\ o.ret # "end" /\ o.ret # "?"
  BY <1>2
<1> QED BY <1>1, <1>2, <1>4, <1>5 DEF Returned, o

\* Every call reads on.
LEMMA OptionsStep ==
    ASSUME OptionsInv, NextOption
    PROVE  OptionsInv'
<1>1. IsLine(line) /\ ReadsOptions /\ line' = line
  BY LineTyped DEF OptionsInv, NextOption
<1>2. PICK h : AtArgument(line, options, returned, h)
  BY <1>1 DEF OptionsInv, Returned, ReadsOptions
<1>3. Returned(line, optparse_long(options),
               IF optparse_long(options).ret \in {"end", "?"} THEN returned
               ELSE Append(returned, <<optparse_long(options).ret, optparse_long(options).optarg>>))
  BY <1>1, <1>2, OptionReturned
<1>4. /\ options' = optparse_long(options)
      /\ returned' = IF options'.ret \in {"end", "?"} THEN returned
                     ELSE Append(returned, <<options'.ret, options'.optarg>>)
  BY DEF NextOption
<1>5. Returned(line, options', returned')
  BY <1>3, <1>4
<1> QED BY <1>1, <1>5 DEF OptionsInv

\* What has been returned and what is left are the line.
LEMMA ReadsAsWrittenNow ==
    ASSUME OptionsInv
    PROVE  ReadsAsWritten
<1>1. IsLine(line) /\ returned \in Seq(Read(line))
  BY LineTyped DEF OptionsInv, Returned
<1>2. CASE ReadsOptions
  <2>1. PICK h : AtArgument(line, options, returned, h)
    BY <1>2 DEF OptionsInv, Returned, ReadsOptions
  <2> DEFINE rest == Rest(line, h, options.subopt)
  <2>2. rest.options \in Seq(Read(line))
    <3>1. rest \in Readings(line)
      BY <1>1, <2>1, RestTyped DEF AtArgument, Facing
    <3> QED BY <3>1 DEF Readings
  <2>3. Meaning(line).options = returned \o rest.options
    BY <2>1 DEF AtArgument, Reading
  <2>4. IsPrefix(returned, Meaning(line).options)
    BY <1>1, <2>2, <2>3, PrefixOfConcat
  <2>5. options.ret # "end" /\ options.ret # "?"
    BY <1>2 DEF ReadsOptions
  <2> QED BY <1>2, <2>4, <2>5 DEF ReadsAsWritten
<1>3. CASE ~ ReadsOptions
  <2>1. Meaning(line).options = returned
    BY <1>3 DEF OptionsInv, Returned, ReadsOptions, Reading
  <2>2. IsPrefix(returned, Meaning(line).options)
    <3>1. Len(returned) \in Int /\ Len(returned) <= Len(returned)
      BY <1>1
    <3> QED BY <2>1, <3>1 DEF IsPrefix
  <2>3. options.ret = "end" =>
            /\ Meaning(line).error = NULL
            /\ SubSeq(options.argv, options.optind, Len(options.argv)) = Meaning(line).words
    BY DEF OptionsInv, Returned, Reading
  <2>4. options.ret = "?" => options.errmsg[1] = Meaning(line).error
    BY DEF OptionsInv, Returned
  <2> QED BY <2>1, <2>2, <2>3, <2>4 DEF ReadsAsWritten
<1> QED BY <1>2, <1>3

\* optparse.h returns the options of every command line as they were written, with their
\* values, up to the first that is wrong, and leaves the other arguments in their order:
\* however often an argument has been moved behind the options that were read after it,
\* and whatever of a group of letters has been read.
THEOREM ReadsAsWrittenHolds == OptionsSpec => []ReadsAsWritten
<1>1. OptionsInit => OptionsInv
  BY OptionsInitially DEF OptionsInit, OptionsInv
<1>2. OptionsInv /\ [NextOption]_optionVars => OptionsInv'
  <2> SUFFICES ASSUME OptionsInv, [NextOption]_optionVars
               PROVE  OptionsInv'
    OBVIOUS
  <2>1. CASE NextOption
    BY <2>1, OptionsStep
  <2>2. CASE UNCHANGED optionVars
    BY <2>2 DEF optionVars, OptionsInv
  <2> QED BY <2>1, <2>2
<1>3. OptionsInv => ReadsAsWritten
  BY ReadsAsWrittenNow
<1> QED BY <1>1, <1>2, <1>3, PTL DEF OptionsSpec

-----------------------------------------------------------------------------
(* The files of a run.                                                      *)

\* The places of a run at which its output has not been opened.
Unopened == {"options", "file", "tree", "compile", "assemble", "open"}

Untouched == Written(files) = Written(before)

\* Failure is only reported before the output is opened; after that a run can
\* end well, crash or be killed.
FailureInv ==
    /\ phase \in Unopened \cup {"write", "ended"}
    /\ exit # "running" <=> phase = "ended"
    /\ phase \in Unopened \/ exit = "failure" => Untouched

-----------------------------------------------------------------------------

\* A step of the program that changes no file keeps the invariant, if it goes from
\* one place before fopen to another, or ends the run.
LEMMA QuietStep ==
    ASSUME FailureInv, phase \in Unopened, UNCHANGED <<files, before>>,
           \/ phase' \in Unopened /\ UNCHANGED exit
           \/ phase' = "ended" /\ exit' # "running"
    PROVE  FailureInv'
<1>1. exit = "running" /\ Untouched
  BY DEF FailureInv, Unopened
<1>2. Untouched'
  BY <1>1 DEF Untouched, Written
<1> QED BY <1>1, <1>2 DEF FailureInv, Unopened

\* Every option leaves the run among the options, or ends it.
LEMMA OptionSteps ==
    ASSUME FailureInv,
           \/ PrintParseTree \/ Output \/ Simulate \/ DoNotAssemble \/ OnlyIfNewer \/ Debug
           \/ Ignored \/ Version \/ BadOption \/ OptionsDone
    PROVE  FailureInv'
<1>1. phase = "options" /\ UNCHANGED <<files, before>>
  BY DEF PrintParseTree, Output, Simulate, DoNotAssemble, OnlyIfNewer, Debug, Ignored, Version,
         BadOption, OptionsDone, Reads
<1>2. CASE PrintParseTree
  <2>1. \/ phase' = "options" /\ UNCHANGED exit
        \/ phase' = "ended" /\ exit' = "failure"
    BY <1>2 DEF PrintParseTree, Continue, Goto, Exit
  <2> QED BY <1>1, <2>1, QuietStep DEF Unopened
<1>3. CASE Output \/ Simulate \/ DoNotAssemble \/ OnlyIfNewer \/ Debug \/ Ignored
  <2>1. phase' = "options" /\ UNCHANGED exit
    BY <1>3 DEF Output, Simulate, DoNotAssemble, OnlyIfNewer, Debug, Ignored, Continue, Goto
  <2> QED BY <1>1, <2>1, QuietStep DEF Unopened
<1>4. CASE Version \/ BadOption
  <2>1. phase' = "ended" /\ exit' \in {"ok", "failure"}
    BY <1>4 DEF Version, BadOption, Exit
  <2> QED BY <1>1, <2>1, QuietStep DEF Unopened
<1>5. CASE OptionsDone
  <2>1. \/ phase' = "file" /\ UNCHANGED exit
        \/ phase' = "ended" /\ exit' = "failure"
    BY <1>5 DEF OptionsDone, Goto, Exit
  <2> QED BY <1>1, <2>1, QuietStep DEF Unopened
<1> QED
  <2>1. \/ PrintParseTree \/ (Output \/ Simulate \/ DoNotAssemble \/ OnlyIfNewer \/ Debug \/ Ignored)
        \/ (Version \/ BadOption) \/ OptionsDone
    OBVIOUS
  <2> QED BY <2>1, <1>2, <1>3, <1>4, <1>5

\* The steps of the loop over the input files, up to fopen.
LEMMA FileSteps ==
    ASSUME FailureInv,
           NextFile \/ NoMoreFiles \/ compiler_print_parse_tree \/ Compile \/ Assemble
    PROVE  FailureInv'
<1>1. phase \in {"file", "tree", "compile", "assemble"} /\ UNCHANGED <<files, before>>
  BY DEF NextFile, NoMoreFiles, compiler_print_parse_tree, Compile, Assemble, Settings
<1>2. \/ phase' \in {"file", "tree", "compile", "assemble", "open"} /\ UNCHANGED exit
      \/ phase' = "ended" /\ exit' \in {"ok", "failure", "crash"}
  <2>1. CASE NextFile
    <3>1. phase' \in {"file", "tree", "compile"} /\ UNCHANGED exit
      BY <2>1 DEF NextFile, Proceed, Goto
    <3> QED BY <3>1
  <2>2. CASE NoMoreFiles
    BY <2>2 DEF NoMoreFiles, Exit
  <2>3. CASE compiler_print_parse_tree
    BY <2>3 DEF compiler_print_parse_tree, Goto
  <2>4. CASE Compile
    BY <2>4 DEF Compile, Goto, Exit
  <2>5. CASE Assemble
    BY <2>5 DEF Assemble, Goto, Exit
  <2> QED BY <2>1, <2>2, <2>3, <2>4, <2>5
<1> QED BY <1>1, <1>2, QuietStep DEF Unopened

\* fopen fails without a trace, or the run can no longer fail.
LEMMA OutputSteps ==
    ASSUME FailureInv, OpenOutput \/ WriteOutput
    PROVE  FailureInv'
<1>1. CASE OpenOutput
  <2>1. phase = "open" /\ exit = "running" /\ UNCHANGED before
    BY <1>1 DEF OpenOutput, FailureInv
  <2>2. CASE phase' = "write" /\ UNCHANGED exit
    BY <2>1, <2>2 DEF FailureInv, Unopened
  <2>3. CASE phase' = "ended" /\ exit' = "failure" /\ UNCHANGED files
    BY <2>1, <2>3, QuietStep DEF Unopened
  <2> QED BY <1>1, <2>2, <2>3 DEF OpenOutput, Goto, Exit
<1>2. CASE WriteOutput
  <2>1. phase' = "ended" /\ exit' \in {"ok", "crash"}
    BY <1>2 DEF WriteOutput, Exit
  <2> QED BY <2>1 DEF FailureInv, Unopened
<1> QED BY <1>1, <1>2

\* An edit changes sources, which are not among the files that a run writes.
LEMMA EditStep ==
    ASSUME FailureInv, Edit
    PROVE  FailureInv'
<1>1. PICK s \in Sources, kind \in {"good", "refused", "unparsable"} :
          files' = [files EXCEPT ![s] = [mtime |-> clock, content |-> <<kind, edits'>>]]
  BY DEF Edit
<1>2. UNCHANGED <<phase, exit, before>>
  BY DEF Edit, process
<1>3. Written(files') = Written(files)
  BY <1>1 DEF Written
<1>4. Untouched => Untouched'
  BY <1>2, <1>3 DEF Untouched
<1> QED BY <1>2, <1>4 DEF FailureInv

\* Every step keeps it.
LEMMA FailureStep ==
    ASSUME FailureInv, [DriverNext]_vars
    PROVE  FailureInv'
<1>1. CASE Step
  BY <1>1, OptionSteps, FileSteps, OutputSteps DEF Step
<1>2. CASE Kill
  <2>1. phase' = "ended" /\ exit' = "killed"
    BY <1>2 DEF Kill, Exit
  <2> QED BY <2>1 DEF FailureInv, Unopened
<1>3. CASE Run
  <2>1. phase' = "options" /\ exit' = "running" /\ before' = files /\ files' = files
    BY <1>3 DEF Run
  <2>2. Untouched'
    BY <2>1 DEF Untouched
  <2> QED BY <2>1, <2>2 DEF FailureInv, Unopened
<1>4. CASE Edit
  BY <1>4, EditStep
<1>5. CASE Tick \/ UNCHANGED vars
  <2>1. UNCHANGED <<phase, exit, before, files>>
    BY <1>5 DEF Tick, vars, process
  <2> QED BY <2>1 DEF FailureInv, Untouched
<1> QED BY <1>1, <1>2, <1>3, <1>4, <1>5 DEF DriverNext

\* A run that fails changes no file but those that others edit meanwhile: main.c
\* and compiler.c report failure at options, at an input that cannot be read or is
\* refused, and at an output that cannot be opened, all of it before fopen has
\* emptied the output.
THEOREM FailureWritesNothingHolds == DriverSpec => []FailureWritesNothing
<1>1. DriverInit => FailureInv
  BY DEF DriverInit, FailureInv, Unopened, Untouched
<1>2. FailureInv /\ [DriverNext]_vars => FailureInv'
  BY FailureStep
<1>3. FailureInv => FailureWritesNothing
  BY DEF FailureInv, FailureWritesNothing, Untouched
<1> QED BY <1>1, <1>2, <1>3, PTL DEF DriverSpec

-----------------------------------------------------------------------------
(* What a run was asked for.                                                *)

\* Where an option is among those returned, and what it was last given.
Places(opts, letter) == {p \in DOMAIN opts : opts[p][1] = letter}
LastOf(opts, letter) == opts[Max(Places(opts, letter))][2]

NameIn(opts) == IF Places(opts, "o") = {} THEN Default ELSE Text(LastOf(opts, "o"))
LevelIn(opts) ==
    IF Places(opts, "d") = {} \/ LastOf(opts, "d") = NULL THEN 1 ELSE Number(LastOf(opts, "d"))

Variables ==
    {"output", "asm_output", "print_parse_tree", "print_parse_tree_folded", "assemble",
     "only_if_newer", "debug"}

\* The variables as the options opts set them.
Sets(s, opts) ==
    /\ s = [v \in Variables |-> s[v]]
    /\ Places(opts, "S") = {} => s.output = NameIn(opts)
    /\ s.asm_output = Fasm(NameIn(opts))
    /\ s.assemble <=> Places(opts, "A") \cup Places(opts, "S") = {}
    /\ s.only_if_newer => Places(opts, "N") # {}
    /\ s.print_parse_tree => Places(opts, "P") # {}
    /\ s.debug = LevelIn(opts)

\* One more option.
Adds(S, opts, letter, value, more) == opts \in Seq(S) /\ more = Append(opts, <<letter, value>>)

LEMMA PlacesAppend ==
    ASSUME NEW S, NEW opts, NEW letter, NEW value, NEW more, Adds(S, opts, letter, value, more)
    PROVE  /\ \A c : c # letter => /\ Places(more, c) = Places(opts, c)
                                   /\ Places(opts, c) # {} => LastOf(more, c) = LastOf(opts, c)
           /\ Places(more, letter) # {} /\ LastOf(more, letter) = value
<1>1. /\ Len(opts) \in Nat /\ DOMAIN opts = 1..Len(opts) /\ DOMAIN more = 1..(Len(opts) + 1)
      /\ \A p \in 1..Len(opts) : more[p] = opts[p]
      /\ more[Len(opts) + 1] = <<letter, value>>
  BY DEF Adds
<1>2. ASSUME NEW c, c # letter
      PROVE  /\ Places(more, c) = Places(opts, c)
             /\ Places(opts, c) # {} => LastOf(more, c) = LastOf(opts, c)
  <2>1. Places(more, c) = Places(opts, c)
    <3>1. \A p \in 1..(Len(opts) + 1) : more[p][1] = c <=> p \in 1..Len(opts) /\ opts[p][1] = c
      BY <1>1, <1>2
    <3>2. \A p : p \in 1..Len(opts) => p \in 1..(Len(opts) + 1)
      BY <1>1
    <3> QED BY <1>1, <3>1, <3>2 DEF Places
  <2>2. ASSUME Places(opts, c) # {}
        PROVE  LastOf(more, c) = LastOf(opts, c)
    <3>1. Places(opts, c) \subseteq 0..Len(opts) /\ Places(opts, c) \subseteq 1..Len(opts)
      BY <1>1 DEF Places
    <3>2. Max(Places(opts, c)) \in Places(opts, c)
      BY <1>1, <2>2, <3>1, MaxIn
    <3> QED BY <1>1, <2>1, <3>1, <3>2 DEF LastOf
  <2> QED BY <2>1, <2>2
<1>3. Places(more, letter) # {} /\ LastOf(more, letter) = value
  <2>1. Len(opts) + 1 \in Places(more, letter)
    BY <1>1 DEF Places
  <2>2. Places(more, letter) \subseteq 0..(Len(opts) + 1) /\ Len(opts) + 1 \in Nat
    BY <1>1 DEF Places
  <2>3. /\ Max(Places(more, letter)) \in Places(more, letter)
        /\ \A m \in Places(more, letter) : m <= Max(Places(more, letter))
    BY <2>1, <2>2, MaxIn
  <2>4. Max(Places(more, letter)) = Len(opts) + 1
    <3> DEFINE last == Max(Places(more, letter))
    <3>1. last \in 0..(Len(opts) + 1) /\ Len(opts) + 1 <= last
      BY <2>1, <2>2, <2>3
    <3> HIDE DEF last
    <3>2. last = Len(opts) + 1
      BY <1>1, <3>1
    <3> QED BY <3>2 DEF last
  <2> QED BY <1>1, <2>1, <2>4 DEF LastOf
<1> QED BY <1>2, <1>3

\* What one more option changes.
LEMMA ChoiceAppend ==
    ASSUME NEW S, NEW opts, NEW letter, NEW value, NEW more, Adds(S, opts, letter, value, more)
    PROVE  /\ NameIn(more) = IF letter = "o" THEN Text(value) ELSE NameIn(opts)
           /\ LevelIn(more) = IF letter = "d" THEN IF value = NULL THEN 1 ELSE Number(value)
                              ELSE LevelIn(opts)
           /\ \A c : Places(more, c) = {} <=> c # letter /\ Places(opts, c) = {}
<1>1. /\ \A c : c # letter => /\ Places(more, c) = Places(opts, c)
                              /\ Places(opts, c) # {} => LastOf(more, c) = LastOf(opts, c)
      /\ Places(more, letter) # {} /\ LastOf(more, letter) = value
  BY PlacesAppend
<1>2. NameIn(more) = IF letter = "o" THEN Text(value) ELSE NameIn(opts)
  BY <1>1 DEF NameIn
<1>3. LevelIn(more) = IF letter = "d" THEN IF value = NULL THEN 1 ELSE Number(value) ELSE LevelIn(opts)
  BY <1>1 DEF LevelIn
<1> QED BY <1>1, <1>2, <1>3

\* The steps that read an option set what it asks for.
LEMMA OptionSets ==
    ASSUME NEW S, NEW opts, NEW more, Adds(S, opts, options'.ret, options'.optarg, more),
           Sets(set, opts),
           PrintParseTree \/ Output \/ Simulate \/ DoNotAssemble \/ OnlyIfNewer \/ Debug \/ Ignored,
           phase' = "options"
    PROVE  Sets(set', more) /\ options'.ret # "v"
<1> DEFINE letter == options'.ret
           value == options'.optarg
<1>1. /\ NameIn(more) = IF letter = "o" THEN Text(value) ELSE NameIn(opts)
      /\ LevelIn(more) = IF letter = "d" THEN IF value = NULL THEN 1 ELSE Number(value)
                         ELSE LevelIn(opts)
      /\ \A c : Places(more, c) = {} <=> c # letter /\ Places(opts, c) = {}
  BY ChoiceAppend
<1>2. /\ Places(more, "S") = {} <=> "S" # letter /\ Places(opts, "S") = {}
      /\ Places(more, "A") = {} <=> "A" # letter /\ Places(opts, "A") = {}
      /\ Places(more, "N") = {} <=> "N" # letter /\ Places(opts, "N") = {}
      /\ Places(more, "P") = {} <=> "P" # letter /\ Places(opts, "P") = {}
  BY <1>1
<1>3. /\ set = [v \in Variables |-> set[v]]
      /\ Places(opts, "S") = {} => set.output = NameIn(opts)
      /\ set.asm_output = Fasm(NameIn(opts))
      /\ set.assemble <=> Places(opts, "A") = {} /\ Places(opts, "S") = {}
      /\ set.only_if_newer => Places(opts, "N") # {}
      /\ set.print_parse_tree => Places(opts, "P") # {}
      /\ set.debug = LevelIn(opts)
  <2>1. Places(opts, "A") \cup Places(opts, "S") = {} <=> Places(opts, "A") = {} /\ Places(opts, "S") = {}
    OBVIOUS
  <2> QED BY <2>1 DEF Sets
<1>4. SUFFICES /\ set' = [v \in Variables |-> set'[v]]
               /\ Places(more, "S") = {} => set'.output = NameIn(more)
               /\ set'.asm_output = Fasm(NameIn(more))
               /\ set'.assemble <=> Places(more, "A") = {} /\ Places(more, "S") = {}
               /\ set'.only_if_newer => Places(more, "N") # {}
               /\ set'.print_parse_tree => Places(more, "P") # {}
               /\ set'.debug = LevelIn(more)
               /\ letter # "v"
  <2>1. Places(more, "A") \cup Places(more, "S") = {} <=> Places(more, "A") = {} /\ Places(more, "S") = {}
    OBVIOUS
  <2> QED BY <2>1 DEF Sets
<1>5. CASE PrintParseTree
  <2>1. /\ letter = "P"
        /\ \/ set' = [set EXCEPT !.print_parse_tree = TRUE]
           \/ set' = [set EXCEPT !.print_parse_tree = TRUE,
                                 !.print_parse_tree_folded = (value = <<"fold">>)]
    BY <1>5 DEF PrintParseTree, Reads, Continue, Exit
  <2> QED BY <1>1, <1>2, <1>3, <2>1 DEF Variables
<1>6. CASE Output
  <2>1. letter = "o" /\ set' = [set EXCEPT !.output = Text(value), !.asm_output = Fasm(Text(value))]
    BY <1>6 DEF Output, Reads, Continue
  <2> QED BY <1>1, <1>2, <1>3, <2>1 DEF Variables
<1>7. CASE Simulate
  <2>1. letter = "S" /\ set' = [set EXCEPT !.output = NULL, !.assemble = FALSE]
    BY <1>7 DEF Simulate, Reads, Continue
  <2> QED BY <1>1, <1>2, <1>3, <2>1 DEF Variables
<1>8. CASE DoNotAssemble
  <2>1. letter = "A" /\ set' = [set EXCEPT !.assemble = FALSE]
    BY <1>8 DEF DoNotAssemble, Reads, Continue
  <2> QED BY <1>1, <1>2, <1>3, <2>1 DEF Variables
<1>9. CASE OnlyIfNewer
  <2>1. letter = "N" /\ set' = [set EXCEPT !.only_if_newer = TRUE]
    BY <1>9 DEF OnlyIfNewer, Reads, Continue
  <2> QED BY <1>1, <1>2, <1>3, <2>1 DEF Variables
<1>10. CASE Debug
  <2>1. letter = "d" /\ set' = [set EXCEPT !.debug = IF value = NULL THEN 1 ELSE Number(value)]
    BY <1>10 DEF Debug, Reads, Continue
  <2> QED BY <1>1, <1>2, <1>3, <2>1 DEF Variables
<1>11. CASE Ignored
  <2>1. letter \in {"a", "V"} /\ set' = set
    BY <1>11 DEF Ignored, Reads, Continue
  <2> QED BY <1>1, <1>2, <1>3, <2>1
<1> QED BY <1>5, <1>6, <1>7, <1>8, <1>9, <1>10, <1>11

\* What the options ask for is set.
Chosen ==
    /\ Sets(set, Asked.options) /\ Given("v") = {}
    /\ skipped \in Nat /\ (skipped # 0 => Given("N") # {})

\* The words that are left are the arguments that optparse_arg has not stepped over.
WordsLeft ==
    /\ IsState(options) /\ options.argv \in Seq(ToSet(line)) /\ Asked.words \in Seq(ToSet(line))
    /\ options.optind \in 1..(Len(options.argv) + 1)
    /\ skipped + Len(options.argv) + 1 = Len(Asked.words) + options.optind
    /\ \A k \in (skipped + 1)..Len(Asked.words) :
           Asked.words[k] = options.argv[(options.optind - skipped) + k - 1]

\* The input file to which the run has come is the first that it did not skip.
FileMet ==
    /\ skipped < Len(Asked.words) /\ Asked.words \in Seq(ToSet(line))
    /\ filename = Text(Asked.words[skipped + 1])
    /\ shown # NULL => set.print_parse_tree /\ shown[1] = filename

\* What will be written is what was asked for.
CodeMade ==
    /\ code = IF set.assemble THEN Assembled(Compiled(source[2], set.debug), set.debug)
              ELSE Compiled(source[2], set.debug)
    /\ set.assemble => source[2][1] # "unparsable"

OnlyTarget ==
    /\ Exists(Target)
    /\ \A n \in DOMAIN files \ (Sources \cup {Target}) : n \in DOMAIN before /\ files[n] = before[n]

AskedInv ==
    /\ line \in Lines
    /\ phase = "options" => /\ OptionsInv /\ ReadsOptions
                            /\ Sets(set, returned) /\ Places(returned, "v") = {}
                            /\ skipped = 0 /\ shown = NULL
    /\ phase \in {"file", "tree", "compile", "assemble", "open", "write"} => Chosen
    /\ phase = "file" => WordsLeft /\ shown = NULL
    /\ phase \in {"tree", "compile", "assemble", "open", "write"} => FileMet
    /\ phase = "tree" => set.print_parse_tree
    /\ phase \in {"assemble", "open", "write"} => source[1] = filename
    /\ phase = "assemble" => set.assemble /\ code = Compiled(source[2], set.debug)
    /\ phase \in {"open", "write"} => CodeMade
    /\ phase = "write" => OnlyTarget
    /\ phase = "ended" /\ exit = "ok" => DoesWhatWasAsked

-----------------------------------------------------------------------------
(* The options.                                                             *)

\* What was returned begins the options of the line.
LEMMA ReturnedBegins ==
    ASSUME NEW args, IsLine(args), NEW o, NEW done, Returned(args, o, done)
    PROVE  \A p \in DOMAIN done :
               p \in DOMAIN Meaning(args).options /\ Meaning(args).options[p] = done[p]
<1>1. done \in Seq(Read(args))
  BY DEF Returned
<1>2. CASE o.ret \notin {"end", "?"}
  <2>1. PICK h : AtArgument(args, o, done, h)
    BY <1>2 DEF Returned
  <2> DEFINE rest == Rest(args, h, o.subopt)
  <2>2. rest.options \in Seq(Read(args))
    <3>1. rest \in Readings(args)
      BY <2>1, RestTyped DEF AtArgument, Facing
    <3> QED BY <3>1 DEF Readings
  <2>3. Meaning(args).options = done \o rest.options
    BY <2>1 DEF AtArgument, Reading
  <2> HIDE DEF rest
  <2> QED BY <1>1, <2>2, <2>3
<1>3. CASE o.ret \in {"end", "?"}
  <2>1. Meaning(args).options = done
    BY <1>3 DEF Returned, Reading
  <2> QED BY <2>1
<1> QED BY <1>2, <1>3

\* A step that ends the run in failure asks for nothing.
LEMMA FailureAsked ==
    ASSUME AskedInv, line' = line, phase' = "ended", exit' # "ok"
    PROVE  AskedInv'
  BY DEF AskedInv

\* An option is read and sets something.
LEMMA OptionAsked ==
    ASSUME AskedInv,
           PrintParseTree \/ Output \/ Simulate \/ DoNotAssemble \/ OnlyIfNewer \/ Debug \/ Ignored
    PROVE  AskedInv'
<1>1. /\ phase = "options" /\ NextOption /\ options'.ret \notin {"end", "?"}
      /\ UNCHANGED <<skipped, shown>>
      /\ \/ phase' = "options"
         \/ phase' = "ended" /\ exit' = "failure"
  BY DEF PrintParseTree, Output, Simulate, DoNotAssemble, OnlyIfNewer, Debug, Ignored, Reads,
         Continue, Goto, Exit
<1>2. OptionsInv /\ Sets(set, returned) /\ Places(returned, "v") = {} /\ skipped = 0 /\ shown = NULL
  BY <1>1 DEF AskedInv
<1>3. OptionsInv'
  BY <1>1, <1>2, OptionsStep
<1>4. returned' = Append(returned, <<options'.ret, options'.optarg>>) /\ line' = line
  BY <1>1 DEF NextOption
<1>5. Adds(Read(line), returned, options'.ret, options'.optarg, returned')
  BY <1>2, <1>4 DEF Adds, OptionsInv, Returned
<1>6. CASE phase' = "options"
  <2>1. Sets(set', returned') /\ options'.ret # "v"
    BY <1>2, <1>5, <1>6, OptionSets
  <2>2. Places(returned', "v") = {}
    BY <1>2, <1>5, <2>1, ChoiceAppend
  <2>3. ReadsOptions'
    BY <1>1 DEF ReadsOptions
  <2> QED BY <1>1, <1>2, <1>3, <1>6, <2>1, <2>2, <2>3 DEF AskedInv, OptionsInv
<1>7. CASE phase' = "ended" /\ exit' = "failure"
  BY <1>4, <1>7, FailureAsked
<1> QED BY <1>1, <1>6, <1>7

\* A run that is asked for the version writes nothing.
LEMMA VersionAsked ==
    ASSUME FailureInv, AskedInv, Version
    PROVE  AskedInv'
<1>1. /\ phase = "options" /\ NextOption /\ options'.ret = "v"
      /\ phase' = "ended" /\ exit' = "ok" /\ UNCHANGED <<files, before>>
  BY DEF Version, Reads, Exit
<1>2. OptionsInv /\ OptionsInv' /\ line' = line
  BY <1>1, OptionsStep DEF AskedInv, NextOption
<1>3. returned' = Append(returned, <<options'.ret, options'.optarg>>)
  BY <1>1 DEF NextOption
<1>4. Adds(Read(line), returned, options'.ret, options'.optarg, returned')
  BY <1>2, <1>3 DEF Adds, OptionsInv, Returned
<1>5. PICK p : p \in Places(returned', "v")
  BY <1>1, <1>4, PlacesAppend
<1>6. \A q \in DOMAIN returned' :
          q \in DOMAIN Meaning(line).options /\ Meaning(line).options[q] = returned'[q]
  <2>1. IsLine(line) /\ Returned(line, options', returned')
    BY <1>2, LineTyped DEF OptionsInv
  <2> QED BY <2>1, ReturnedBegins
<1>7. Given("v")' # {}
  BY <1>2, <1>5, <1>6 DEF Given, Asked, Places
<1>8. (Written(files) = Written(before))'
  BY <1>1 DEF FailureInv, Unopened, Untouched, Written
<1>9. DoesWhatWasAsked'
  BY <1>7, <1>8 DEF DoesWhatWasAsked
<1> QED BY <1>1, <1>2, <1>9 DEF AskedInv, OptionsInv

\* When the options have been read the words of the line are left.
LEMMA OptionsDoneAsked ==
    ASSUME AskedInv, OptionsDone
    PROVE  AskedInv'
<1>1. /\ phase = "options" /\ NextOption /\ options'.ret = "end"
      /\ UNCHANGED <<skipped, shown, set>>
      /\ \/ phase' = "ended" /\ exit' = "failure"
         \/ phase' = "file"
  BY DEF OptionsDone, Reads, Exit, Goto
<1>2. /\ OptionsInv /\ Sets(set, returned) /\ Places(returned, "v") = {} /\ skipped = 0 /\ shown = NULL
      /\ line \in Lines
  BY <1>1 DEF AskedInv
<1>3. OptionsInv'
  BY <1>1, <1>2, OptionsStep
<1>4. returned' = returned /\ line' = line
  BY <1>1 DEF NextOption
<1>5. CASE phase' = "ended" /\ exit' = "failure"
  BY <1>4, <1>5, FailureAsked
<1>6. CASE phase' = "file"
  <2> DEFINE argv == options'.argv
             first == options'.optind
  <2>1. /\ IsState(options') /\ argv \in Seq(ToSet(line)) /\ Len(argv) = Len(line)
        /\ first \in 1..(Len(line) + 1)
        /\ Asked' = Reading(returned, SubSeq(argv, first, Len(argv)), NULL)
    BY <1>1, <1>3, <1>4 DEF OptionsInv, Returned, Asked
  <2>2. Asked'.options = returned /\ Asked'.words = SubSeq(argv, first, Len(argv))
    BY <2>1 DEF Reading
  <2>3. Chosen'
    BY <1>1, <1>2, <2>2 DEF Chosen, Given, Places
  <2> HIDE DEF argv, first
  <2>4. Len(argv) \in Nat /\ first \in 1..(Len(argv) + 1)
    BY <2>1
  <2>5. PICK words : words = SubSeq(argv, first, Len(argv))
    OBVIOUS
  <2>6. /\ words \in Seq(ToSet(line)) /\ Len(words) = Len(argv) - first + 1
        /\ \A k \in 1..Len(words) : words[k] = argv[first + k - 1]
    <3>1. \A a \in first..Len(argv) : argv[a] \in ToSet(line)
      <4>1. \A a \in first..Len(argv) : a \in 1..Len(argv)
        BY <2>4
      <4> QED BY <2>1, <4>1
    <3>2. /\ words \in Seq(ToSet(line))
          /\ Len(words) = IF first <= Len(argv) THEN Len(argv) - first + 1 ELSE 0
          /\ \A k \in 1..(Len(argv) - first + 1) : words[k] = argv[first + k - 1]
      BY <2>4, <2>5, <3>1, SubSeqProperties
    <3>3. Len(words) = Len(argv) - first + 1
      BY <2>4, <3>2
    <3> QED BY <3>2, <3>3
  <2>7. \A k \in (0 + 1)..Len(words) : words[k] = argv[(first - 0) + k - 1]
    <3>1. \A k \in (0 + 1)..Len(words) : k \in 1..Len(words) /\ (first - 0) + k - 1 = first + k - 1
      BY <2>4
    <3> QED BY <2>6, <3>1
  <2>8. 0 + Len(argv) + 1 = Len(words) + first
    BY <2>4, <2>6
  <2>9. WordsLeft'
    BY <1>1, <1>2, <1>4, <2>1, <2>2, <2>4, <2>5, <2>6, <2>7, <2>8, SMTT(30) DEF WordsLeft, argv, first
  <2> QED BY <1>1, <1>2, <1>4, <1>6, <2>3, <2>9 DEF AskedInv
<1> QED BY <1>1, <1>5, <1>6

-----------------------------------------------------------------------------
(* The input files.                                                         *)

\* The next input file is the first of the words that are left.
LEMMA WordNext ==
    ASSUME line \in Lines, WordsLeft, skipped \in Nat
    PROVE  /\ Current(options) = NULL => skipped = Len(Asked.words)
           /\ Current(options) # NULL => /\ options.optind <= Len(options.argv)
                                         /\ skipped < Len(Asked.words)
                                         /\ Current(options) = Asked.words[skipped + 1]
<1>1. /\ options.argv \in Seq(ToSet(line)) /\ options.optind \in 1..(Len(options.argv) + 1)
      /\ Asked.words \in Seq(ToSet(line))
      /\ skipped + Len(options.argv) + 1 = Len(Asked.words) + options.optind
  BY DEF WordsLeft
<1>2. IsLine(line) /\ \A a \in ToSet(line) : a # NULL
  <2>1. IsLine(line)
    BY LineTyped
  <2> QED BY <2>1 DEF IsLine, IsArgument, ToSet, NULL
<1>3. CASE options.optind = Len(options.argv) + 1
  <2>1. options.optind \notin DOMAIN options.argv
    BY <1>1, <1>3
  <2>2. Current(options) = NULL
    BY <2>1 DEF Current, ArgvAt
  <2>3. skipped = Len(Asked.words)
    <3> DEFINE w == Len(Asked.words)
               n == Len(options.argv)
               o == options.optind
    <3>1. w \in Nat /\ n \in Nat /\ skipped + n + 1 = w + o /\ o = n + 1
      <4>1. w \in Nat /\ n \in Nat
        BY <1>1
      <4>2. skipped + n + 1 = w + o /\ o = n + 1
        BY <1>1, <1>3, Zenon
      <4> QED BY <4>1, <4>2
    <3> HIDE DEF w, n, o
    <3>2. skipped = w
      BY <3>1
    <3> QED BY <3>2 DEF w
  <2> QED BY <2>2, <2>3
<1>4. CASE options.optind \in 1..Len(options.argv)
  <2>1. Current(options) = options.argv[options.optind] /\ Current(options) \in ToSet(line)
    BY <1>1, <1>4 DEF Current, ArgvAt
  <2>2. skipped + 1 \in (skipped + 1)..Len(Asked.words) /\ skipped < Len(Asked.words)
    BY <1>1, <1>4
  <2>3. (options.optind - skipped) + (skipped + 1) - 1 = options.optind
    BY <1>1
  <2>4. Current(options) = Asked.words[skipped + 1]
    BY <2>1, <2>2, <2>3 DEF WordsLeft
  <2> QED BY <1>2, <1>4, <2>1, <2>2, <2>4
<1> QED BY <1>1, <1>3, <1>4, SMTT(30)

\* An input file is skipped, or it is the one that is compiled.
LEMMA NextFileAsked ==
    ASSUME AskedInv, NextFile
    PROVE  AskedInv'
<1>1. /\ phase = "file" /\ Current(options) # NULL /\ filename' = Text(Current(options))
      /\ options' = optparse_arg(options)
      /\ UNCHANGED <<line, set, shown, source, code>>
  BY DEF NextFile, Environment
<1>2. line \in Lines /\ Chosen /\ WordsLeft /\ shown = NULL
  BY <1>1 DEF AskedInv
<1>3. /\ skipped \in Nat /\ options.optind <= Len(options.argv) /\ skipped < Len(Asked.words)
      /\ Current(options) = Asked.words[skipped + 1]
  BY <1>1, <1>2, WordNext DEF Chosen
<1>4. Asked' = Asked /\ Sets(set', Asked'.options) /\ Given("v")' = {} /\ Given("N")' = Given("N")
  BY <1>1, <1>2 DEF Asked, Given, Chosen
<1>5. CASE UpToDate(filename')
  <2>1. phase' = "file" /\ skipped' = skipped + 1
    BY <1>5 DEF NextFile, Goto
  <2>2. Given("N") # {}
    BY <1>2, <1>5 DEF UpToDate, Chosen, Sets, Given, Places
  <2>3. Chosen'
    BY <1>3, <1>4, <2>1, <2>2 DEF Chosen
  <2>4. /\ IsState(options') /\ options'.argv = options.argv /\ options'.optind = options.optind + 1
    BY <1>1, <1>2 DEF optparse_arg, WordsLeft, IsState, Fields
  <2>5. /\ options.argv \in Seq(ToSet(line)) /\ Asked.words \in Seq(ToSet(line))
        /\ options.optind \in 1..(Len(options.argv) + 1)
        /\ skipped + Len(options.argv) + 1 = Len(Asked.words) + options.optind
        /\ \A k \in (skipped + 1)..Len(Asked.words) :
               Asked.words[k] = options.argv[(options.optind - skipped) + k - 1]
    BY <1>2 DEF WordsLeft
  <2>6. \A k \in (skipped' + 1)..Len(Asked.words) :
            /\ k \in (skipped + 1)..Len(Asked.words)
            /\ (options'.optind - skipped') + k - 1 = (options.optind - skipped) + k - 1
    <3> DEFINE w == Len(Asked.words)
               o == options.optind
               next == options'.optind
    <3>1. w \in Nat /\ o \in Int /\ next = o + 1
      BY <2>4, <2>5
    <3> HIDE DEF w, o, next
    <3>2. \A k \in (skipped' + 1)..w : k \in (skipped + 1)..w /\ (next - skipped') + k - 1 = (o - skipped) + k - 1
      BY <1>3, <2>1, <3>1
    <3> QED BY <3>2 DEF w, o, next
  <2>7. \A k \in (skipped' + 1)..Len(Asked.words) :
            Asked.words[k] = options'.argv[(options'.optind - skipped') + k - 1]
    BY <2>4, <2>5, <2>6
  <2>8. /\ options'.optind \in 1..(Len(options.argv) + 1)
        /\ skipped' + Len(options.argv) + 1 = Len(Asked.words) + options'.optind
    <3> DEFINE w == Len(Asked.words)
               n == Len(options.argv)
               o == options.optind
               next == options'.optind
    <3>1. /\ w \in Nat /\ n \in Nat /\ o \in 1..(n + 1) /\ next = o + 1 /\ o <= n
          /\ skipped + n + 1 = w + o
      BY <1>3, <2>4, <2>5, SMTT(30)
    <3> HIDE DEF w, n, o, next
    <3>2. next \in 1..(n + 1) /\ skipped' + n + 1 = w + next
      BY <1>3, <2>1, <3>1
    <3> QED BY <3>2 DEF w, n, next
  <2>9. WordsLeft'
    BY <1>1, <1>4, <2>4, <2>5, <2>7, <2>8 DEF WordsLeft
  <2> QED BY <1>1, <1>2, <2>1, <2>3, <2>9 DEF AskedInv
<1>6. CASE ~ UpToDate(filename')
  <2>1. /\ phase' = IF set.print_parse_tree THEN "tree" ELSE "compile"
        /\ skipped' = skipped
    BY <1>6 DEF NextFile, Proceed, Goto
  <2>2. Chosen'
    BY <1>2, <1>3, <1>4, <2>1 DEF Chosen
  <2>3. FileMet'
    BY <1>1, <1>2, <1>3, <1>4, <2>1 DEF FileMet, WordsLeft
  <2> QED BY <1>1, <1>2, <2>1, <2>2, <2>3 DEF AskedInv
<1> QED BY <1>5, <1>6

\* All input files were skipped.
LEMMA NoMoreFilesAsked ==
    ASSUME FailureInv, AskedInv, NoMoreFiles
    PROVE  AskedInv'
<1>1. /\ phase = "file" /\ Current(options) = NULL /\ phase' = "ended" /\ exit' = "ok"
      /\ UNCHANGED <<line, set, skipped, files, before>>
  BY DEF NoMoreFiles, Environment, Settings, Exit
<1>2. line \in Lines /\ Chosen /\ WordsLeft
  BY <1>1 DEF AskedInv
<1>3. skipped = Len(Asked.words) /\ Asked' = Asked
  BY <1>1, <1>2, WordNext DEF Chosen, Asked
<1>4. SubSeq(Asked'.words, skipped' + 1, Len(Asked'.words)) = <<>>
  <2>1. Len(Asked.words) \in Nat
    BY <1>2 DEF WordsLeft
  <2>2. SubSeq(Asked.words, Len(Asked.words) + 1, Len(Asked.words)) = <<>>
    BY <1>2, <2>1, SubSeqEmpty
  <2> QED BY <1>1, <1>3, <2>2
<1>5. (Written(files) = Written(before))'
  BY <1>1 DEF FailureInv, Unopened, Untouched, Written
<1>6. DoesWhatWasAsked'
  BY <1>4, <1>5 DEF DoesWhatWasAsked
<1> QED BY <1>1, <1>2, <1>6 DEF AskedInv

\* The steps that keep what a run was asked for.
LEMMA ChosenKept ==
    ASSUME UNCHANGED <<line, set, skipped>>
    PROVE  Asked' = Asked /\ (Chosen => Chosen')
  BY DEF Asked, Chosen, Given

\* The file that was met is printed.
LEMMA TreeAsked ==
    ASSUME AskedInv, compiler_print_parse_tree
    PROVE  AskedInv'
<1>1. /\ phase = "tree" /\ phase' = "compile"
      /\ UNCHANGED <<line, set, skipped, filename>>
      /\ shown' # NULL => shown'[1] = filename
  BY DEF compiler_print_parse_tree, Environment, Goto
<1>2. line \in Lines /\ Chosen /\ FileMet /\ set.print_parse_tree
  BY <1>1 DEF AskedInv
<1>3. Asked' = Asked /\ Chosen'
  BY <1>1, <1>2, ChosenKept
<1>4. FileMet'
  BY <1>1, <1>2, <1>3 DEF FileMet
<1> QED BY <1>1, <1>2, <1>3, <1>4 DEF AskedInv

\* It is compiled.
LEMMA CompileAsked ==
    ASSUME AskedInv, Compile
    PROVE  AskedInv'
<1>1. /\ phase = "compile"
      /\ UNCHANGED <<line, set, skipped, filename, shown>>
      /\ \/ phase' = "ended" /\ exit' = "failure"
         \/ /\ phase' = IF set.assemble THEN "assemble" ELSE "open"
            /\ source'[1] = filename /\ code' = Compiled(source'[2], set.debug)
  BY DEF Compile, Environment, Exit, Goto
<1>2. line \in Lines /\ Chosen /\ FileMet
  BY <1>1 DEF AskedInv
<1>3. Asked' = Asked /\ Chosen'
  BY <1>1, <1>2, ChosenKept
<1>4. FileMet'
  BY <1>1, <1>2, <1>3 DEF FileMet
<1>5. CASE phase' = "ended" /\ exit' = "failure"
  BY <1>1, <1>5, FailureAsked
<1>6. CASE /\ phase' = IF set.assemble THEN "assemble" ELSE "open"
           /\ source'[1] = filename /\ code' = Compiled(source'[2], set.debug)
  <2>1. CASE set.assemble
    BY <1>1, <1>2, <1>3, <1>4, <1>6, <2>1 DEF AskedInv
  <2>2. CASE ~ set.assemble
    <3>1. CodeMade'
      BY <1>1, <1>6, <2>2 DEF CodeMade
    <3> QED BY <1>1, <1>2, <1>3, <1>4, <1>6, <2>2, <3>1 DEF AskedInv
  <2> QED BY <2>1, <2>2
<1> QED BY <1>1, <1>5, <1>6

\* It is assembled.
LEMMA AssembleAsked ==
    ASSUME AskedInv, Assemble
    PROVE  AskedInv'
<1>1. /\ phase = "assemble"
      /\ UNCHANGED <<line, set, skipped, filename, shown, source>>
      /\ \/ phase' = "ended" /\ exit' = "crash"
         \/ phase' = "open" /\ code # NULL /\ code' = Assembled(code, set.debug)
  BY DEF Assemble, Environment, Exit, Goto
<1>2. /\ line \in Lines /\ Chosen /\ FileMet /\ source[1] = filename
      /\ set.assemble /\ code = Compiled(source[2], set.debug)
  BY <1>1 DEF AskedInv
<1>3. Asked' = Asked /\ Chosen'
  BY <1>1, <1>2, ChosenKept
<1>4. FileMet'
  BY <1>1, <1>2, <1>3 DEF FileMet
<1>5. CASE phase' = "ended" /\ exit' = "crash"
  BY <1>1, <1>5, FailureAsked
<1>6. CASE phase' = "open" /\ code # NULL /\ code' = Assembled(code, set.debug)
  <2>1. source[2][1] # "unparsable"
    BY <1>2, <1>6 DEF Compiled
  <2>2. CodeMade'
    BY <1>1, <1>2, <1>6, <2>1 DEF CodeMade
  <2> QED BY <1>1, <1>2, <1>3, <1>4, <1>6, <2>2 DEF AskedInv
<1> QED BY <1>1, <1>5, <1>6

\* Files that are the same have the same names and contents.
LEMMA SameWritten ==
    ASSUME Written(files) = Written(before)
    PROVE  \A n \in DOMAIN files \ Sources : n \in DOMAIN before /\ files[n] = before[n]
<1>1. /\ DOMAIN Written(files) = DOMAIN files \ Sources
      /\ DOMAIN Written(before) = DOMAIN before \ Sources
      /\ \A n \in DOMAIN files \ Sources : Written(files)[n] = files[n]
      /\ \A n \in DOMAIN before \ Sources : Written(before)[n] = before[n]
  BY DEF Written
<1> QED BY <1>1

\* Its output is opened, or not.
LEMMA OpenOutputAsked ==
    ASSUME FailureInv, AskedInv, OpenOutput
    PROVE  AskedInv'
<1>1. /\ phase = "open"
      /\ UNCHANGED <<line, set, skipped, filename, shown, source, code, before>>
      /\ \/ phase' = "ended" /\ exit' = "failure"
         \/ phase' = "write" /\ Write(NULL)
  BY DEF OpenOutput, Environment, Exit, Goto
<1>2. line \in Lines /\ Chosen /\ FileMet /\ source[1] = filename /\ CodeMade
  BY <1>1 DEF AskedInv
<1>3. Asked' = Asked /\ Chosen'
  BY <1>1, <1>2, ChosenKept
<1>4. FileMet' /\ CodeMade'
  BY <1>1, <1>2, <1>3 DEF FileMet, CodeMade
<1>5. CASE phase' = "ended" /\ exit' = "failure"
  BY <1>1, <1>5, FailureAsked
<1>6. CASE phase' = "write" /\ Write(NULL)
  <2>1. Target' = Target
    BY <1>1 DEF Target
  <2>2. /\ DOMAIN files' = DOMAIN files \cup {Target}
        /\ \A n \in DOMAIN files \ {Target} : files'[n] = files[n]
    BY <1>6 DEF Write
  <2>3. Written(files) = Written(before)
    BY <1>1 DEF FailureInv, Unopened, Untouched
  <2>4. \A n \in DOMAIN files \ Sources : n \in DOMAIN before /\ files[n] = before[n]
    BY <2>3, SameWritten
  <2>5. OnlyTarget'
    BY <1>1, <2>1, <2>2, <2>4 DEF OnlyTarget, Exists
  <2> QED BY <1>1, <1>2, <1>3, <1>4, <1>6, <2>5 DEF AskedInv
<1> QED BY <1>1, <1>5, <1>6

\* The target is what was asked for, and so is what is written to it.
LEMMA TargetIsAsked ==
    ASSUME Chosen, CodeMade, code # NULL
    PROVE  Target = AskedOutput /\ code = Result(source[2])
<1>1. /\ Places(Asked.options, "S") = {} => set.output = NameIn(Asked.options)
      /\ set.asm_output = Fasm(NameIn(Asked.options))
      /\ set.assemble <=> ~ AskedAssembly
      /\ set.debug = LevelIn(Asked.options)
  BY DEF Chosen, Sets, AskedAssembly, Given, Places
<1>2. set.assemble => Places(Asked.options, "S") = {}
  BY <1>1 DEF AskedAssembly, Given, Places
<1>3. AskedOutput = IF AskedAssembly THEN Fasm(NameIn(Asked.options)) ELSE NameIn(Asked.options)
  BY DEF AskedOutput, NameIn, Given, LastArgument, Places, LastOf
<1>4. Target = AskedOutput
  BY <1>1, <1>2, <1>3 DEF Target
<1>5. Result(source[2]) =
          LET assembly == <<"assembly", source[2], LevelIn(Asked.options)>>
          IN  IF AskedAssembly THEN assembly ELSE Assembled(assembly, LevelIn(Asked.options))
  BY DEF Result, LevelIn, Given, LastArgument, Places, LastOf
<1>6. source[2][1] # "unparsable"
  BY <1>1 DEF CodeMade, Compiled
<1>7. Compiled(source[2], set.debug) = <<"assembly", source[2], LevelIn(Asked.options)>>
  BY <1>1, <1>6 DEF Compiled
<1>8. code = Result(source[2])
  BY <1>1, <1>5, <1>7 DEF CodeMade
<1> QED BY <1>4, <1>8

\* It is written.
LEMMA WriteOutputAsked ==
    ASSUME AskedInv, WriteOutput
    PROVE  AskedInv'
<1>1. /\ phase = "write" /\ phase' = "ended"
      /\ UNCHANGED <<line, set, skipped, filename, shown, source, code, before>>
      /\ \/ exit' = "crash"
         \/ code # NULL /\ Write(code) /\ exit' = "ok"
  BY DEF WriteOutput, Environment, Exit
<1>2. line \in Lines /\ Chosen /\ FileMet /\ source[1] = filename /\ CodeMade /\ OnlyTarget
  BY <1>1 DEF AskedInv
<1>3. CASE exit' = "crash"
  BY <1>1, <1>3, FailureAsked
<1>4. CASE code # NULL /\ Write(code) /\ exit' = "ok"
  <2>1. Target = AskedOutput /\ code = Result(source[2])
    BY <1>2, <1>4, TargetIsAsked
  <2>2. /\ DOMAIN files' = DOMAIN files \cup {Target}
        /\ \A n \in DOMAIN files \ {Target} : files'[n] = files[n]
        /\ files'[Target].content = code
    BY <1>4 DEF Write
  <2>3. /\ Asked' = Asked /\ AskedOutput' = AskedOutput /\ Result(source[2])' = Result(source[2])
        /\ \A c : Given(c)' = Given(c)
    BY <1>1 DEF Asked, AskedOutput, AskedAssembly, Given, LastArgument, Result
  <2>4. PICK left : left = SubSeq(Asked.words, skipped + 1, Len(Asked.words))
    OBVIOUS
  <2>5. left # <<>> /\ Head(left) = Asked.words[skipped + 1]
    <3>1. Asked.words \in Seq(ToSet(line)) /\ skipped \in Nat /\ skipped < Len(Asked.words)
      BY <1>2 DEF Chosen, FileMet
    <3>2. \A a \in (skipped + 1)..Len(Asked.words) : Asked.words[a] \in ToSet(line)
      BY <3>1
    <3>3. /\ left \in Seq(ToSet(line))
          /\ Len(left) = IF skipped + 1 <= Len(Asked.words) THEN Len(Asked.words) - (skipped + 1) + 1 ELSE 0
          /\ \A k \in 1..(Len(Asked.words) - (skipped + 1) + 1) : left[k] = Asked.words[(skipped + 1) + k - 1]
      BY <2>4, <3>1, <3>2, SubSeqProperties
    <3>4. 1 \in 1..(Len(Asked.words) - (skipped + 1) + 1) /\ (skipped + 1) + 1 - 1 = skipped + 1 /\ Len(left) > 0
      BY <3>1, <3>3
    <3> QED BY <3>3, <3>4
  <2>6. /\ source[1] = Text(Head(left))
        /\ Exists(AskedOutput)'
        /\ files'[AskedOutput].content = Result(source[2])
        /\ \A n \in DOMAIN files' \ (Sources \cup {AskedOutput}) : n \in DOMAIN before /\ files'[n] = before[n]
        /\ shown # NULL => Given("P") # {} /\ shown[1] = source[1]
        /\ skipped # 0 => Given("N") # {}
        /\ Given("v") = {}
    <3>1. source[1] = Text(Head(left))
      BY <1>2, <2>5 DEF FileMet
    <3>2. Exists(AskedOutput)' /\ files'[AskedOutput].content = Result(source[2])
      BY <2>1, <2>2, <2>3 DEF Exists
    <3>3. \A n \in DOMAIN files' \ (Sources \cup {AskedOutput}) : n \in DOMAIN before /\ files'[n] = before[n]
      BY <1>2, <2>1, <2>2 DEF OnlyTarget
    <3>4. shown # NULL => Given("P") # {} /\ shown[1] = source[1]
      BY <1>2 DEF FileMet, Chosen, Sets, Given, Places
    <3> QED BY <1>2, <3>1, <3>2, <3>3, <3>4 DEF Chosen
  <2>7. DoesWhatWasAsked'
    BY <1>1, <2>3, <2>4, <2>5, <2>6 DEF DoesWhatWasAsked
  <2> QED BY <1>1, <1>2, <2>7 DEF AskedInv
<1> QED BY <1>1, <1>3, <1>4

-----------------------------------------------------------------------------
(* The environment.                                                         *)

\* No options set nothing.
LEMMA NothingSet == Sets(Defaults, <<>>) /\ Places(<<>>, "v") = {}
<1>1. \A c : Places(<<>>, c) = {}
  BY DEF Places
<1>2. NameIn(<<>>) = Default /\ LevelIn(<<>>) = 1
  BY <1>1 DEF NameIn, LevelIn
<1>3. Defaults = [v \in Variables |-> Defaults[v]]
  BY DEF Defaults, Variables
<1>4. /\ Defaults.output = Default /\ Defaults.asm_output = Fasm(Default)
      /\ Defaults.assemble = TRUE /\ Defaults.only_if_newer = FALSE
      /\ Defaults.print_parse_tree = FALSE /\ Defaults.debug = 1
  BY DEF Defaults
<1> QED BY <1>1, <1>2, <1>3, <1>4 DEF Sets

\* A run begins with nothing set.
LEMMA RunAsked ==
    ASSUME AskedInv, Run
    PROVE  AskedInv'
<1>1. /\ line' \in Lines /\ options' = optparse_init(line') /\ returned' = <<>>
      /\ phase' = "options" /\ set' = Defaults /\ skipped' = 0 /\ shown' = NULL
  BY DEF Run
<1>2. OptionsInv' /\ ReadsOptions'
  BY <1>1, OptionsInitially DEF OptionsInv, ReadsOptions, optparse_init
<1>3. Sets(Defaults, <<>>) /\ Places(<<>>, "v") = {}
  BY NothingSet
<1> QED BY <1>1, <1>2, <1>3 DEF AskedInv

\* Whoever edits sources changes nothing else.
LEMMA EditAsked ==
    ASSUME AskedInv, Edit
    PROVE  AskedInv'
<1>1. /\ UNCHANGED <<line, options, returned, runs, phase, exit, set, filename, code, shown, source,
                     skipped, before>>
      /\ DOMAIN files' = DOMAIN files
      /\ \A n \in DOMAIN files \ Sources : files'[n] = files[n]
  BY DEF Edit, process, optionVars
<1>2. /\ OptionsInv' = OptionsInv /\ ReadsOptions' = ReadsOptions
      /\ Chosen' = Chosen /\ WordsLeft' = WordsLeft /\ FileMet' = FileMet /\ CodeMade' = CodeMade
  BY <1>1 DEF OptionsInv, ReadsOptions, Chosen, WordsLeft, FileMet, CodeMade, Asked, Given
<1>3. OnlyTarget => OnlyTarget'
  BY <1>1 DEF OnlyTarget, Target, Exists
<1>4. DoesWhatWasAsked => DoesWhatWasAsked'
  <2>1. /\ Asked' = Asked /\ AskedOutput' = AskedOutput /\ Result(source[2])' = Result(source[2])
        /\ \A c : Given(c)' = Given(c)
    BY <1>1 DEF Asked, AskedOutput, AskedAssembly, Given, LastArgument, Result
  <2>2. Written(files)' = Written(files) /\ Written(before)' = Written(before)
    BY <1>1 DEF Written
  <2>3. /\ Exists(AskedOutput)' = Exists(AskedOutput)
        /\ Exists(AskedOutput) /\ AskedOutput \notin Sources => files'[AskedOutput] = files[AskedOutput]
    BY <1>1, <2>1 DEF Exists
  <2>4. (\A n \in DOMAIN files \ (Sources \cup {AskedOutput}) : n \in DOMAIN before /\ files[n] = before[n])
        => \A n \in DOMAIN files' \ (Sources \cup {AskedOutput}) : n \in DOMAIN before /\ files'[n] = before[n]
    BY <1>1
  <2> QED BY <1>1, <2>1, <2>2, <2>3, <2>4 DEF DoesWhatWasAsked
<1> QED BY <1>1, <1>2, <1>3, <1>4 DEF AskedInv

\* What happens outside of a run, or ends it.
LEMMA EnvironmentAsked ==
    ASSUME AskedInv, Kill \/ Run \/ Edit \/ Tick \/ UNCHANGED vars
    PROVE  AskedInv'
<1>1. CASE Kill
  <2>1. phase' = "ended" /\ exit' = "killed" /\ line' = line
    BY <1>1 DEF Kill, Exit, Environment
  <2> QED BY <2>1, FailureAsked
<1>2. CASE Run
  BY <1>2, RunAsked
<1>3. CASE Edit
  BY <1>3, EditAsked
<1>4. CASE Tick \/ UNCHANGED vars
  <2>1. /\ UNCHANGED <<line, options, returned, phase, exit, set, filename, code, shown, source,
                       skipped, before, files>>
    BY <1>4 DEF Tick, vars, process, optionVars
  <2>2. /\ OptionsInv' = OptionsInv /\ ReadsOptions' = ReadsOptions
        /\ Chosen' = Chosen /\ WordsLeft' = WordsLeft /\ FileMet' = FileMet /\ CodeMade' = CodeMade
    BY <2>1 DEF OptionsInv, ReadsOptions, Chosen, WordsLeft, FileMet, CodeMade, Asked, Given
  <2>3. OnlyTarget' = OnlyTarget
    BY <2>1 DEF OnlyTarget, Target, Exists
  <2>4. /\ Asked' = Asked /\ AskedOutput' = AskedOutput /\ Result(source[2])' = Result(source[2])
        /\ Written(files)' = Written(files) /\ Written(before)' = Written(before)
        /\ Exists(AskedOutput)' = Exists(AskedOutput)
        /\ \A c : Given(c)' = Given(c)
    BY <2>1 DEF Asked, AskedOutput, AskedAssembly, Given, LastArgument, Result, Written, Exists
  <2>5. DoesWhatWasAsked => DoesWhatWasAsked'
    BY <2>1, <2>4 DEF DoesWhatWasAsked
  <2> QED BY <2>1, <2>2, <2>3, <2>5 DEF AskedInv
<1> QED BY <1>1, <1>2, <1>3, <1>4

\* A run that ends well has compiled the first input file that it did not skip, into
\* the one file that its options ask for, as the command line was written, and has
\* touched nothing else, whatever the options, the lines, the sources and the
\* outputs of earlier runs are, and whoever edits the sources meanwhile.
THEOREM DoesWhatWasAskedHolds == DriverSpec => []DoesWhatWasAsked
<1>1. DriverInit => FailureInv /\ AskedInv
  <2> SUFFICES ASSUME DriverInit
               PROVE  FailureInv /\ AskedInv
    OBVIOUS
  <2>1. FailureInv
    BY DEF DriverInit, FailureInv, Unopened, Untouched
  <2>2. /\ line \in Lines /\ options = optparse_init(line) /\ returned = <<>>
        /\ phase = "options" /\ set = Defaults /\ skipped = 0 /\ shown = NULL
    BY DEF DriverInit, OptionsInit
  <2>3. OptionsInv /\ ReadsOptions
    BY <2>2, OptionsInitially DEF OptionsInv, ReadsOptions, optparse_init
  <2>4. AskedInv
    BY <2>2, <2>3, NothingSet DEF AskedInv
  <2> QED BY <2>1, <2>4
<1>2. FailureInv /\ AskedInv /\ [DriverNext]_vars => FailureInv' /\ AskedInv'
  <2> SUFFICES ASSUME FailureInv, AskedInv, [DriverNext]_vars
               PROVE  FailureInv' /\ AskedInv'
    OBVIOUS
  <2>1. FailureInv'
    BY FailureStep
  <2>2. CASE \/ PrintParseTree \/ Output \/ Simulate \/ DoNotAssemble \/ OnlyIfNewer \/ Debug
             \/ Ignored
    BY <2>1, <2>2, OptionAsked
  <2>3. CASE BadOption
    <3>1. phase' = "ended" /\ exit' = "failure" /\ line' = line
      BY <2>3 DEF BadOption, Reads, Exit, NextOption
    <3> QED BY <2>1, <3>1, FailureAsked
  <2>4. CASE Version \/ OptionsDone \/ NextFile \/ NoMoreFiles
    BY <2>1, <2>4, VersionAsked, OptionsDoneAsked, NextFileAsked, NoMoreFilesAsked
  <2>5. CASE compiler_print_parse_tree \/ Compile \/ Assemble \/ OpenOutput \/ WriteOutput
    BY <2>1, <2>5, TreeAsked, CompileAsked, AssembleAsked, OpenOutputAsked, WriteOutputAsked
  <2>6. CASE Kill \/ Run \/ Edit \/ Tick \/ UNCHANGED vars
    BY <2>1, <2>6, EnvironmentAsked
  <2> QED BY <2>1, <2>2, <2>3, <2>4, <2>5, <2>6 DEF DriverNext, Step
<1>3. FailureInv /\ AskedInv => DoesWhatWasAsked
  <2>1. FailureInv /\ AskedInv /\ exit = "ok" => DoesWhatWasAsked
    BY DEF FailureInv, AskedInv
  <2> QED BY <2>1 DEF DoesWhatWasAsked
<1> QED BY <1>1, <1>2, <1>3, PTL DEF DriverSpec

=============================================================================
