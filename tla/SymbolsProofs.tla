---------------------------- MODULE SymbolsProofs ----------------------------
(***************************************************************************)
(* Proofs about Symbols, for every set of names, every set of parameter    *)
(* lists and every bound.  First the types of the variables, where the     *)
(* symbol table keeps locals and globals, and that their places are        *)
(* distinct (SymbolsInv); then, from the tree of the program, what the     *)
(* table says of every name (MeansInv): that names are resolved lexically  *)
(* and that the compiler refuses exactly the programs it should.           *)
(***************************************************************************)
EXTENDS Symbols, ProofLemmas, FiniteSetTheorems

-----------------------------------------------------------------------------
(* The invariant.                                                           *)

\* Constructs nest: classes and functions at the top level, functions in classes,
\* blocks in the rest.
WellNested(o) ==
    /\ o \in Seq(BlockOps \cup CallableOps)
    /\ \A i \in 1..Len(o) :
          /\ o[i] = "class" => i = 1
          /\ o[i] = "function" => i = 1 \/ (i = 2 /\ o[1] = "class")
    /\ Len(o) >= 2 /\ o[1] = "class" => o[2] = "function"

\* opens: the constructs that are open after each token of the program.
ProgramInv(opens) ==
    /\ DOMAIN opens = 0..Len(program)
    /\ opens[0] = <<>>
    /\ \A i \in 0..Len(program) : WellNested(opens[i])
    /\ \A i \in 1..Len(program) :
          MayFollow(opens[i - 1], program[i]) /\ opens[i] = OpenAfter(opens[i - 1], program[i])

\* The pass stands between two tokens.
PassInv(opens) ==
    /\ phase = "parse" => at = 1 /\ open = opens[Len(program)]
    /\ phase \in {"globals", "classes", "locals", "code"} =>
          /\ opens[Len(program)] = <<>>
          /\ at \in 1..(Len(program) + 1)
          /\ open = opens[at - 1]
    /\ phase = "done" => open = <<>> 

\* A scope has one component for each construct around it: the name of a function
\* or class, or the position of a block.
Mirrors(s, o) ==
    /\ Len(s) = Len(o)
    /\ \A i \in 1..Len(o) : s[i][1] = IF o[i] \in CallableOps THEN "name" ELSE "^"

ScopeInv(opens) ==
    /\ phase \in {"parse", "done"} => scope = <<>>
    /\ phase = "parse" => subscope = <<>>
    /\ phase = "globals" =>
          scope = <<>> /\ (IF InCallable(open) THEN subscope = <<>> ELSE Mirrors(subscope, open))
    /\ phase = "classes" => IF InClass(open) THEN Mirrors(scope, open) ELSE scope = <<>>
    /\ phase = "code" => IF InClass(open) THEN scope = <<>> ELSE Mirrors(scope, open)
    /\ phase = "locals" =>
          /\ start \in 1..(at - 1)
          /\ scope # <<>>
          /\ opens[start] = SubSeq(open, 1, Len(scope))
          /\ Last(opens[start]) = "function"
          /\ Mirrors(scope \o subscope, open)
          /\ num_locals >= 1

\* Locals and parameters have the scope of the function around them.
LocalKeys ==
    \A k \in DOMAIN table : table[k].type \in {"local", "param"} =>
        \E f \in 1..Len(open) :
            /\ open[f] = "function"
            /\ f <= Len(scope) /\ f < Len(k)
            /\ \A i \in 1..f : k[i] = scope[i]

\* What is global has a scope of blocks only, or none.
GlobalKeys ==
    \A k \in DOMAIN table : table[k].type \notin {"local", "param"} =>
        Len(k) = 1 \/ k[1][1] = "^"

SymbolsInv(opens) ==
    /\ TypeOK
    /\ ProgramInv(opens)
    /\ PassInv(opens)
    /\ ScopeInv(opens)
    /\ phase # "failed" => LocalKeys /\ GlobalKeys
    /\ SlotsAreDistinct

-----------------------------------------------------------------------------
(* Tokens, constructs and scopes.                                           *)

LEMMA TokenFields ==
    ASSUME NEW t \in Token
    PROVE  /\ t.op \in {"use", "set", "var"} \cup BlockOps \cup CallableOps \cup {"end"}
           /\ t.op \in {"use", "set"} => t.name \in Names
           /\ t.op \in {"var", "for"} => t.name \in Names
           /\ t.op \in CallableOps => t.name \in Names
           /\ t.op = "function" => t.params \in ParamLists
BY DEF Token, Names, BlockOps, CallableOps

\* What a token does to the constructs around it.
LEMMA OpenAfterCases ==
    ASSUME NEW o, NEW t \in Token
    PROVE  /\ t.op = "end" => OpenAfter(o, t) = Front(o)
           /\ t.op = "else" => OpenAfter(o, t) = Append(Front(o), "else")
           /\ t.op \in {"block", "for", "if", "function", "class"} =>
                OpenAfter(o, t) = Append(o, t.op)
           /\ t.op \in {"use", "set", "var"} => OpenAfter(o, t) = o
BY DEF OpenAfter

\* And to the scope.
LEMMA ScopeAfterCases ==
    ASSUME NEW s, NEW t \in Token
    PROVE  /\ t.op = "end" => ScopeAfter(s, t) = Front(s)
           /\ t.op = "else" => ScopeAfter(s, t) = Append(Front(s), Block(at))
           /\ t.op \in {"block", "for", "if"} => ScopeAfter(s, t) = Append(s, Block(at))
           /\ t.op \in {"use", "set", "var", "function", "class"} => ScopeAfter(s, t) = s
<1>1. CASE t.op = "else"
  BY <1>1 DEF ScopeAfter
<1>2. CASE t.op \in {"block", "for", "if"}
  BY <1>2 DEF ScopeAfter, BlockOps
<1>3. CASE t.op \in {"use", "set", "var", "function", "class"}
  BY <1>3 DEF ScopeAfter, BlockOps
<1>4. CASE t.op = "end"
  BY <1>4 DEF ScopeAfter, BlockOps
<1> QED
  BY <1>1, <1>2, <1>3, <1>4

LEMMA OpenAfterNested ==
    ASSUME NEW o, WellNested(o), NEW t \in Token, MayFollow(o, t)
    PROVE  WellNested(OpenAfter(o, t))
<1> DEFINE Kinds == BlockOps \cup CallableOps
<1>1. o \in Seq(Kinds) /\ Len(o) \in Nat
  BY DEF WellNested
<1>2. CASE t.op \in {"use", "set", "var"}
  BY <1>2, OpenAfterCases
<1>3. CASE t.op = "end"
  <2>1. o # <<>> /\ OpenAfter(o, t) = Front(o)
    BY <1>3, OpenAfterCases DEF MayFollow
  <2> QED
    BY <1>1, <2>1, FrontProperties DEF WellNested
<1>4. CASE t.op = "else"
  <2>1. o # <<>> /\ OpenAfter(o, t) = Append(Front(o), "else") /\ o[Len(o)] = "if"
    BY <1>4, OpenAfterCases DEF MayFollow, Last
  <2>2. /\ Front(o) \in Seq(Kinds) /\ Len(Front(o)) = Len(o) - 1 /\ Len(o) \in Nat \ {0}
        /\ \A i \in 1..(Len(o) - 1) : Front(o)[i] = o[i]
    BY <1>1, <2>1, FrontProperties
  <2>3. "else" \in Kinds
    BY DEF BlockOps
  <2>4. /\ Append(Front(o), "else") \in Seq(Kinds)
        /\ Len(Append(Front(o), "else")) = Len(o)
        /\ Append(Front(o), "else")[Len(o)] = "else"
        /\ \A i \in 1..(Len(o) - 1) : Append(Front(o), "else")[i] = o[i]
    <3> HIDE DEF Kinds
    <3> QED BY <2>2, <2>3, AppendProperties
  <2> QED
    BY <2>1, <2>2, <2>4 DEF WellNested
<1>5. CASE t.op \in {"block", "for", "if", "function", "class"}
  <2>1. OpenAfter(o, t) = Append(o, t.op) /\ t.op \in Kinds
    BY <1>5, OpenAfterCases DEF BlockOps, CallableOps
  <2>2. /\ Append(o, t.op) \in Seq(Kinds)
        /\ Len(Append(o, t.op)) = Len(o) + 1
        /\ Append(o, t.op)[Len(o) + 1] = t.op
        /\ \A i \in 1..Len(o) : Append(o, t.op)[i] = o[i]
    <3> HIDE DEF Kinds
    <3> QED BY <1>1, <2>1, AppendProperties
  <2>3. t.op = "class" => Len(o) = 0
    BY DEF MayFollow
  <2>4. t.op = "function" => Len(o) = 0 \/ (Len(o) = 1 /\ o[1] = "class")
    <3>1. ASSUME o # <<>>, o[Len(o)] = "class"
          PROVE  Len(o) = 1
      <4>1. Len(o) \in 1..Len(o)
        BY <1>1, <3>1, EmptySeq
      <4> QED BY <3>1, <4>1 DEF WellNested
    <3> QED BY <3>1 DEF MayFollow, Last
  <2>5. t.op \in {"block", "for", "if"} => Len(o) = 0 \/ o[Len(o)] # "class"
    BY DEF MayFollow, Last
  <2> QED
    BY <1>1, <1>5, <2>1, <2>2, <2>3, <2>4, <2>5 DEF WellNested
<1> QED
  BY <1>2, <1>3, <1>4, <1>5, TokenFields DEF BlockOps, CallableOps

\* The outermost construct tells whether there is a function or class.
LEMMA CallableIsOutermost ==
    ASSUME NEW o, WellNested(o)
    PROVE  /\ InCallable(o) <=> (o # <<>> /\ o[1] \in CallableOps)
           /\ InCallable(o) <=> (Len(o) >= 1 /\ o[1] \in CallableOps)
<1>1. o \in Seq(BlockOps \cup CallableOps) /\ Len(o) \in Nat /\ DOMAIN o = 1..Len(o)
  BY DEF WellNested
<1>2. o # <<>> <=> Len(o) >= 1
  BY <1>1, EmptySeq
<1>3. \A i \in 1..Len(o) : o[i] \in CallableOps => o[1] \in CallableOps
  BY <1>1 DEF WellNested, CallableOps
<1> QED
  BY <1>1, <1>2, <1>3 DEF InCallable

LEMMA BlockType ==
    ASSUME at \in 1..MaxTokens
    PROVE  Block(at) \in Components /\ Block(at)[1] = "^"
BY DEF Block, Components

LEMMA NamedType ==
    ASSUME NEW n \in Names
    PROVE  Named(n) \in Components /\ Named(n)[1] = "name"
BY DEF Named, Components

LEMMA ScopeAfterType ==
    ASSUME NEW s \in Seq(Components), NEW t \in Token, at \in 1..MaxTokens,
           t.op \in {"end", "else"} => s # <<>>
    PROVE  ScopeAfter(s, t) \in Seq(Components)
<1>1. CASE t.op = "end"
  BY <1>1, ScopeAfterCases, FrontProperties
<1>2. CASE t.op = "else"
  <2>1. Front(s) \in Seq(Components)
    BY <1>2, FrontProperties
  <2>2. Append(Front(s), Block(at)) \in Seq(Components)
    BY <2>1, BlockType, AppendProperties
  <2> QED BY <1>2, <2>2, ScopeAfterCases
<1>3. CASE t.op \in {"block", "for", "if"}
  BY <1>3, ScopeAfterCases, BlockType, AppendProperties
<1>4. CASE t.op \in {"use", "set", "var", "function", "class"}
  BY <1>4, ScopeAfterCases
<1> QED
  BY <1>1, <1>2, <1>3, <1>4, TokenFields DEF BlockOps, CallableOps

\* Blocks are opened and closed in the scope as in the program.
LEMMA MirrorsAfter ==
    ASSUME NEW s \in Seq(Components), NEW o, WellNested(o), Mirrors(s, o),
           NEW t \in Token, MayFollow(o, t), t.op \notin CallableOps, at \in 1..MaxTokens
    PROVE  Mirrors(ScopeAfter(s, t), OpenAfter(o, t))
<1> DEFINE Kinds == BlockOps \cup CallableOps
<1>1. /\ o \in Seq(Kinds) /\ Len(o) \in Nat /\ Len(s) = Len(o)
      /\ \A i \in 1..Len(o) : s[i][1] = IF o[i] \in CallableOps THEN "name" ELSE "^"
  BY DEF WellNested, Mirrors
<1>2. o = <<>> <=> s = <<>>
  BY <1>1, EmptySeq
<1>3. Block(at) \in Components /\ Block(at)[1] = "^"
  BY BlockType
<1>4. CASE t.op \in {"use", "set", "var"}
  BY <1>4, OpenAfterCases, ScopeAfterCases
<1>5. CASE t.op \in {"end", "else"}
  <2>1. o # <<>> /\ s # <<>>
    BY <1>2, <1>5 DEF MayFollow
  <2>2. /\ Front(o) \in Seq(Kinds) /\ Len(Front(o)) = Len(o) - 1 /\ Len(o) \in Nat \ {0}
        /\ \A i \in 1..(Len(o) - 1) : Front(o)[i] = o[i]
    BY <1>1, <2>1, FrontProperties
  <2>3. /\ Front(s) \in Seq(Components) /\ Len(Front(s)) = Len(o) - 1
        /\ \A i \in 1..(Len(o) - 1) : Front(s)[i] = s[i]
    BY <1>1, <2>1, FrontProperties
  <2>4. Mirrors(Front(s), Front(o))
    <3>1. \A i \in 1..(Len(o) - 1) : i \in 1..Len(o)
      BY <2>2
    <3>2. \A i \in 1..(Len(o) - 1) :
              Front(s)[i][1] = IF Front(o)[i] \in CallableOps THEN "name" ELSE "^"
      BY <1>1, <2>2, <2>3, <3>1
    <3> QED BY <2>2, <2>3, <3>2 DEF Mirrors
  <2>5. CASE t.op = "end"
    BY <2>4, <2>5, OpenAfterCases, ScopeAfterCases
  <2>6. CASE t.op = "else"
    <3>1. "else" \in Kinds /\ "else" \notin CallableOps
      BY DEF BlockOps, CallableOps
    <3>2. /\ Len(Append(Front(o), "else")) = Len(o)
          /\ Append(Front(o), "else")[Len(o)] = "else"
          /\ \A i \in 1..(Len(o) - 1) : Append(Front(o), "else")[i] = o[i]
      <4> HIDE DEF Kinds
      <4> QED BY <2>2, <3>1, AppendProperties
    <3>3. /\ Len(Append(Front(s), Block(at))) = Len(o)
          /\ Append(Front(s), Block(at))[Len(o)] = Block(at)
          /\ \A i \in 1..(Len(o) - 1) : Append(Front(s), Block(at))[i] = s[i]
      BY <1>3, <2>2, <2>3, AppendProperties
    <3>4. \A i \in 1..Len(o) : i = Len(o) \/ i \in 1..(Len(o) - 1)
      BY <1>1
    <3>5. \A i \in 1..Len(o) : Append(Front(s), Block(at))[i][1] =
              IF Append(Front(o), "else")[i] \in CallableOps THEN "name" ELSE "^"
      <4>1. ASSUME NEW i \in 1..(Len(o) - 1)
            PROVE  Append(Front(s), Block(at))[i][1] =
                       IF Append(Front(o), "else")[i] \in CallableOps THEN "name" ELSE "^"
        <5>1. i \in 1..Len(o) /\ Append(Front(o), "else")[i] = o[i]
          BY <1>1, <3>2
        <5>2. Append(Front(s), Block(at))[i] = s[i]
          BY <3>3
        <5> QED BY <1>1, <5>1, <5>2
      <4>2. Append(Front(s), Block(at))[Len(o)][1] =
                IF Append(Front(o), "else")[Len(o)] \in CallableOps THEN "name" ELSE "^"
        BY <1>3, <3>1, <3>2, <3>3
      <4> QED BY <3>4, <4>1, <4>2
    <3>6. Mirrors(Append(Front(s), Block(at)), Append(Front(o), "else"))
      BY <3>2, <3>3, <3>5 DEF Mirrors
    <3> QED BY <2>6, <3>6, OpenAfterCases, ScopeAfterCases
  <2> QED BY <1>5, <2>5, <2>6
<1>6. CASE t.op \in {"block", "for", "if"}
  <2>1. t.op \in Kinds /\ t.op \notin CallableOps
    BY <1>6 DEF BlockOps, CallableOps
  <2>2. /\ Len(Append(o, t.op)) = Len(o) + 1
        /\ Append(o, t.op)[Len(o) + 1] = t.op
        /\ \A i \in 1..Len(o) : Append(o, t.op)[i] = o[i]
    <3> HIDE DEF Kinds
    <3> QED BY <1>1, <2>1, AppendProperties
  <2>3. /\ Len(Append(s, Block(at))) = Len(o) + 1
        /\ Append(s, Block(at))[Len(o) + 1] = Block(at)
        /\ \A i \in 1..Len(o) : Append(s, Block(at))[i] = s[i]
    BY <1>1, <1>3, AppendProperties
  <2>4. Mirrors(Append(s, Block(at)), Append(o, t.op))
    BY <1>1, <1>3, <2>1, <2>2, <2>3 DEF Mirrors
  <2> QED BY <1>6, <2>4, OpenAfterCases, ScopeAfterCases
<1> QED
  BY <1>4, <1>5, <1>6, TokenFields DEF BlockOps, CallableOps

\* So are functions and classes, by their name.
LEMMA MirrorsCallable ==
    ASSUME NEW s \in Seq(Components), NEW o, WellNested(o), Mirrors(s, o),
           NEW n \in Names, NEW op \in CallableOps
    PROVE  Mirrors(Append(s, Named(n)), Append(o, op))
<1> DEFINE Kinds == BlockOps \cup CallableOps
<1>1. /\ o \in Seq(Kinds) /\ Len(o) \in Nat /\ Len(s) = Len(o)
      /\ \A i \in 1..Len(o) : s[i][1] = IF o[i] \in CallableOps THEN "name" ELSE "^"
  BY DEF WellNested, Mirrors
<1>2. Named(n) \in Components /\ Named(n)[1] = "name" /\ op \in Kinds
  BY NamedType
<1>3. /\ Len(Append(o, op)) = Len(o) + 1
      /\ Append(o, op)[Len(o) + 1] = op
      /\ \A i \in 1..Len(o) : Append(o, op)[i] = o[i]
  <2> HIDE DEF Kinds
  <2> QED BY <1>1, <1>2, AppendProperties
<1>4. /\ Len(Append(s, Named(n))) = Len(o) + 1
      /\ Append(s, Named(n))[Len(o) + 1] = Named(n)
      /\ \A i \in 1..Len(o) : Append(s, Named(n))[i] = s[i]
  BY <1>1, <1>2, AppendProperties
<1> QED
  BY <1>1, <1>2, <1>3, <1>4 DEF Mirrors

\* The scope of a block within a function.
LEMMA ScopeAfterConcat ==
    ASSUME NEW s1 \in Seq(Components), NEW s2 \in Seq(Components), NEW t \in Token,
           t.op \in {"end", "else"} => s2 # <<>>, at \in 1..MaxTokens
    PROVE  s1 \o ScopeAfter(s2, t) = ScopeAfter(s1 \o s2, t)
<1>1. s1 \o s2 \in Seq(Components)
  BY ConcatProperties
<1>2. ASSUME NEW b \in Components, NEW r \in Seq(Components)
      PROVE  s1 \o Append(r, b) = Append(s1 \o r, b)
  OBVIOUS
<1>3. ASSUME s2 # <<>>
      PROVE  s1 \o Front(s2) = Front(s1 \o s2)
  <2>1. Len(s2) \in Nat \ {0} /\ Len(s1) \in Nat
    BY <1>3, EmptySeq
  <2>2. s1 \o s2 # <<>> /\ Len(s1 \o s2) = Len(s1) + Len(s2)
    <3>1. Len(s1 \o s2) = Len(s1) + Len(s2)
      BY ConcatProperties
    <3> QED BY <2>1, <3>1, EmptySeq
  <2>3. Front(s2) \in Seq(Components) /\ Len(Front(s2)) = Len(s2) - 1
        /\ \A i \in 1..(Len(s2) - 1) : Front(s2)[i] = s2[i]
    BY <1>3, FrontProperties
  <2>4. Front(s1 \o s2) \in Seq(Components) /\ Len(Front(s1 \o s2)) = Len(s1) + Len(s2) - 1
        /\ \A i \in 1..(Len(s1) + Len(s2) - 1) : Front(s1 \o s2)[i] = (s1 \o s2)[i]
    <3>1. /\ Front(s1 \o s2) \in Seq(Components) 
          /\ Len(Front(s1 \o s2)) = Len(s1 \o s2) - 1
          /\ \A i \in 1..(Len(s1 \o s2) - 1) : Front(s1 \o s2)[i] = (s1 \o s2)[i]
      BY <1>1, <2>2, FrontProperties
    <3> QED BY <2>2, <3>1
  <2>5. s1 \o Front(s2) \in Seq(Components) /\ Len(s1 \o Front(s2)) = Len(s1) + Len(s2) - 1
    BY <2>1, <2>3, ConcatProperties
  <2>6. \A i \in 1..(Len(s1) + Len(s2) - 1) : (s1 \o Front(s2))[i] = Front(s1 \o s2)[i]
    <3>1. ASSUME NEW i \in 1..(Len(s1) + Len(s2) - 1)
          PROVE  (s1 \o Front(s2))[i] = (s1 \o s2)[i]
      <4>1. (s1 \o Front(s2))[i] = IF i <= Len(s1) THEN s1[i] ELSE Front(s2)[i - Len(s1)]
        <5>1. \A j \in 1..(Len(s1) + Len(Front(s2))) : (s1 \o Front(s2))[j] =
                  IF j <= Len(s1) THEN s1[j] ELSE Front(s2)[j - Len(s1)]
          BY <2>3, ConcatProperties
        <5>2. i \in 1..(Len(s1) + Len(Front(s2)))
          BY <2>1, <2>3
        <5> QED BY <5>1, <5>2
      <4>2. (s1 \o s2)[i] = IF i <= Len(s1) THEN s1[i] ELSE s2[i - Len(s1)]
        BY <2>1, ConcatProperties
      <4>3. CASE i <= Len(s1)
        BY <4>1, <4>2, <4>3
      <4>4. CASE ~ (i <= Len(s1))
        <5>1. i - Len(s1) \in 1..(Len(s2) - 1)
          BY <2>1, <4>4
        <5>2. Front(s2)[i - Len(s1)] = s2[i - Len(s1)]
          BY <2>3, <5>1
        <5> QED BY <4>1, <4>2, <4>4, <5>2
      <4> QED BY <4>3, <4>4
    <3> QED BY <2>4, <3>1
  <2> QED
    BY <2>4, <2>5, <2>6, SeqEqual
<1>4. CASE t.op = "end"
  BY <1>3, <1>4, ScopeAfterCases
<1>5. CASE t.op = "else"
  <2>1. Front(s2) \in Seq(Components)
    BY <1>5, FrontProperties
  <2>2. s1 \o Append(Front(s2), Block(at)) = Append(s1 \o Front(s2), Block(at))
    BY <1>2, <2>1, BlockType
  <2>3. s1 \o Front(s2) = Front(s1 \o s2)
    BY <1>3, <1>5
  <2>4. /\ ScopeAfter(s2, t) = Append(Front(s2), Block(at))
        /\ ScopeAfter(s1 \o s2, t) = Append(Front(s1 \o s2), Block(at))
    BY <1>5, ScopeAfterCases
  <2> QED BY <2>2, <2>3, <2>4
<1>6. CASE t.op \in {"block", "for", "if"}
  BY <1>2, <1>6, BlockType, ScopeAfterCases
<1>7. CASE t.op \in {"use", "set", "var", "function", "class"}
  BY <1>7, ScopeAfterCases
<1> QED
  BY <1>4, <1>5, <1>6, <1>7, TokenFields DEF BlockOps, CallableOps
-----------------------------------------------------------------------------
(* A pass between two tokens.                                               *)

LEMMA Context ==
    ASSUME NEW opens, SymbolsInv(opens), Running
    PROVE  /\ Len(program) \in Nat /\ at \in 1..Len(program) /\ at \in 1..MaxTokens
           /\ tok \in Token
           /\ open = opens[at - 1] /\ WellNested(open)
           /\ MayFollow(open, tok)
           /\ OpenAfter(open, tok) = opens[at] /\ WellNested(OpenAfter(open, tok))
<1>1. program \in Seq(Token) /\ Len(program) \in Nat /\ Len(program) <= MaxTokens
  BY DEF SymbolsInv, TypeOK
<1>2. at \in 1..(Len(program) + 1) /\ open = opens[at - 1] /\ at <= Len(program)
  BY DEF SymbolsInv, PassInv, Running
<1>3. at \in 1..Len(program) /\ at \in 1..MaxTokens /\ at - 1 \in 0..Len(program)
      /\ at \in 0..Len(program)
  BY <1>1, <1>2, BoundsAssumption
<1>4. tok \in Token
  BY <1>1, <1>3, ElementOfSeq DEF tok
<1>5. /\ WellNested(opens[at - 1]) /\ WellNested(opens[at])
      /\ MayFollow(opens[at - 1], program[at])
      /\ opens[at] = OpenAfter(opens[at - 1], program[at])
  BY <1>3 DEF SymbolsInv, ProgramInv
<1> QED
  BY <1>1, <1>2, <1>3, <1>4, <1>5 DEF tok

\* What every step of a pass keeps.
LEMMA StepKeeps ==
    ASSUME NEW opens, SymbolsInv(opens), Running, at' = at + 1,
           open' = OpenAfter(open, tok), UNCHANGED program,
           phase' \in {"globals", "classes", "locals", "code"}
    PROVE  /\ ProgramInv(opens)' /\ PassInv(opens)'
           /\ program' \in Seq(Token) /\ Len(program') <= MaxTokens
           /\ at' \in 1..(MaxTokens + 1)
           /\ open' \in Seq(BlockOps \cup CallableOps) /\ WellNested(open')
           /\ phase' # "parse" /\ phase' # "done" /\ phase' # "failed"
<1>1. /\ Len(program) \in Nat /\ at \in 1..Len(program) /\ at \in 1..MaxTokens
      /\ OpenAfter(open, tok) = opens[at] /\ WellNested(OpenAfter(open, tok))
  BY Context
<1>2. program \in Seq(Token) /\ Len(program) <= MaxTokens /\ MaxTokens \in Nat
  BY BoundsAssumption DEF SymbolsInv, TypeOK
<1>3. ProgramInv(opens)'
  BY DEF SymbolsInv, ProgramInv
<1>4. at' \in 1..(Len(program) + 1) /\ at' - 1 = at /\ at' \in 1..(MaxTokens + 1)
  BY <1>1, <1>2
<1>5. opens[Len(program)] = <<>>
  BY DEF SymbolsInv, PassInv, Running
<1>6. PassInv(opens)'
  BY <1>1, <1>4, <1>5 DEF PassInv
<1> QED
  BY <1>1, <1>2, <1>3, <1>4, <1>6 DEF WellNested

\* An error changes nothing that the invariant speaks of.
LEMMA FailKeeps ==
    ASSUME NEW opens, SymbolsInv(opens), Fail
    PROVE  SymbolsInv(opens)'
<1>1. TypeOK'
  BY DEF SymbolsInv, TypeOK, Fail
<1>2. ProgramInv(opens)'
  BY DEF SymbolsInv, ProgramInv, Fail
<1>3. PassInv(opens)' /\ ScopeInv(opens)' /\ phase' = "failed"
  BY DEF PassInv, ScopeInv, Fail
<1>4. SlotsAreDistinct'
  BY DEF SymbolsInv, SlotsAreDistinct, Fail
<1> QED
  BY <1>1, <1>2, <1>3, <1>4 DEF SymbolsInv

\* Adding an entry to the table.
Adds(key, e) == key \notin DOMAIN table /\ table' = With([k \in {key} |-> e])

LEMMA AddEntry ==
    ASSUME NEW key, NEW e, Adds(key, e)
    PROVE  /\ DOMAIN table' = {key} \cup DOMAIN table
           /\ key \notin DOMAIN table
           /\ table'[key] = e
           /\ \A k \in DOMAIN table : table'[k] = table[k]
BY DEF Adds, With

\* Outside of functions there are no locals.
NoLocals == \A k \in DOMAIN table : table[k].type \notin {"local", "param"}

LEMMA NoLocalsOutside ==
    ASSUME LocalKeys,
           scope = <<>> \/ \A f \in 1..Len(open) : open[f] # "function"
    PROVE  NoLocals
<1>1. scope = <<>> => Len(scope) = 0
  BY EmptySeq
<1> QED
  BY <1>1 DEF LocalKeys, NoLocals

\* What is in the table stays there while the function stays open.
LEMMA LocalKeysStay ==
    ASSUME LocalKeys, UNCHANGED table,
           \A f \in 1..Len(open) : open[f] = "function" /\ f <= Len(scope) =>
               /\ f \in 1..Len(open') /\ open'[f] = "function" /\ f <= Len(scope')
               /\ \A i \in 1..f : scope'[i] = scope[i]
    PROVE  LocalKeys'
BY DEF LocalKeys

\* Blocks come and go inside of the function.
LEMMA FunctionStays ==
    ASSUME NEW o, WellNested(o), NEW s \in Seq(Components), NEW t \in Token, MayFollow(o, t),
           at \in 1..MaxTokens,
           t.op = "end" => Last(o) # "function"
    PROVE  /\ \A f \in 1..Len(o) : o[f] = "function" =>
                 f \in 1..Len(OpenAfter(o, t)) /\ OpenAfter(o, t)[f] = "function"
           /\ Len(s) = Len(o) =>
                 \A f \in 1..Len(o) : o[f] = "function" =>
                     /\ f <= Len(ScopeAfter(s, t))
                     /\ \A i \in 1..f : ScopeAfter(s, t)[i] = s[i]
<1> DEFINE Kinds == BlockOps \cup CallableOps
<1>1. o \in Seq(Kinds) /\ Len(o) \in Nat /\ Len(s) \in Nat
  BY DEF WellNested
<1>2. Block(at) \in Components
  BY BlockType
<1>3. CASE t.op \in {"use", "set", "var"} 
  BY <1>1, <1>3, OpenAfterCases, ScopeAfterCases
<1>4. CASE t.op \in {"end", "else"}
  <2>1. o # <<>> /\ o[Len(o)] # "function"
    BY <1>4 DEF MayFollow, Last
  <2>2. /\ Front(o) \in Seq(Kinds) /\ Len(Front(o)) = Len(o) - 1 /\ Len(o) \in Nat \ {0}
        /\ \A i \in 1..(Len(o) - 1) : Front(o)[i] = o[i]
    BY <1>1, <2>1, FrontProperties
  <2>3. ASSUME Len(s) = Len(o)
        PROVE  /\ Front(s) \in Seq(Components) /\ Len(Front(s)) = Len(o) - 1
               /\ \A i \in 1..(Len(o) - 1) : Front(s)[i] = s[i]
    <3>1. s # <<>>
      BY <2>2, <2>3, EmptySeq
    <3> QED BY <2>3, <3>1, FrontProperties
  <2>4. \A f \in 1..Len(o) : o[f] = "function" => f \in 1..(Len(o) - 1)
    BY <2>1, <2>2
  <2>5. CASE t.op = "end"
    <3>1. OpenAfter(o, t) = Front(o) /\ ScopeAfter(s, t) = Front(s)
      BY <2>5, OpenAfterCases, ScopeAfterCases
    <3> QED BY <2>2, <2>3, <2>4, <3>1, SMTT(30)
  <2>6. CASE t.op = "else"
    <3>1. /\ OpenAfter(o, t) = Append(Front(o), "else")
          /\ ScopeAfter(s, t) = Append(Front(s), Block(at))
      BY <2>6, OpenAfterCases, ScopeAfterCases
    <3>2. "else" \in Kinds
      BY DEF BlockOps
    <3>3. /\ Len(Append(Front(o), "else")) = Len(o)
          /\ \A i \in 1..(Len(o) - 1) : Append(Front(o), "else")[i] = o[i]
      <4> HIDE DEF Kinds
      <4> QED BY <2>2, <3>2, AppendProperties, SMTT(30)
    <3>4. ASSUME Len(s) = Len(o)
          PROVE  /\ Len(Append(Front(s), Block(at))) = Len(o)
                 /\ \A i \in 1..(Len(o) - 1) : Append(Front(s), Block(at))[i] = s[i]
      BY <1>2, <2>2, <2>3, <3>4, AppendProperties
    <3> HIDE DEF Kinds
    <3>5. \A f \in 1..Len(o) : o[f] = "function" =>
              f \in 1..Len(OpenAfter(o, t)) /\ OpenAfter(o, t)[f] = "function"
      BY <2>2, <2>4, <3>1, <3>3
    <3>6. ASSUME Len(s) = Len(o), NEW f \in 1..Len(o), o[f] = "function"
          PROVE  /\ f <= Len(ScopeAfter(s, t))
                 /\ \A i \in 1..f : ScopeAfter(s, t)[i] = s[i]
      <4> DEFINE after == Append(Front(s), Block(at))
      <4>1. f \in 1..(Len(o) - 1)
        BY <2>4, <3>6
      <4>2. Len(after) = Len(o) /\ \A i \in 1..(Len(o) - 1) : after[i] = s[i]
        BY <3>4, <3>6
      <4> HIDE DEF after
      <4>3. f <= Len(after) /\ \A i \in 1..f : after[i] = s[i]
        BY <2>2, <4>1, <4>2
      <4> QED BY <3>1, <4>3 DEF after
    <3>7. Len(s) = Len(o) =>
              \A f \in 1..Len(o) : o[f] = "function" =>
                  /\ f <= Len(ScopeAfter(s, t))
                  /\ \A i \in 1..f : ScopeAfter(s, t)[i] = s[i]
      BY <3>6
    <3> QED BY <3>5, <3>7
  <2> QED BY <1>4, <2>5, <2>6
<1>5. CASE t.op \in {"block", "for", "if", "function", "class"}
  <2>1. OpenAfter(o, t) = Append(o, t.op) /\ t.op \in Kinds
    BY <1>5, OpenAfterCases DEF BlockOps, CallableOps
  <2>2. /\ Len(Append(o, t.op)) = Len(o) + 1
        /\ \A i \in 1..Len(o) : Append(o, t.op)[i] = o[i]
    <3> HIDE DEF Kinds
    <3> QED BY <1>1, <2>1, AppendProperties
  <2>3. /\ Len(Append(s, Block(at))) = Len(s) + 1
        /\ \A i \in 1..Len(s) : Append(s, Block(at))[i] = s[i]
    BY <1>2, AppendProperties
  <2>4. ScopeAfter(s, t) = s \/ ScopeAfter(s, t) = Append(s, Block(at))
    BY <1>5, ScopeAfterCases
  <2> HIDE DEF Kinds
  <2>5. \A f \in 1..Len(o) : f \in 1..Len(OpenAfter(o, t)) /\ OpenAfter(o, t)[f] = o[f]
    BY <1>1, <2>1, <2>2
  <2>6. \A f \in 1..Len(s) : f <= Len(ScopeAfter(s, t)) /\ ScopeAfter(s, t)[f] = s[f]
    <3>1. CASE ScopeAfter(s, t) = s
      BY <1>1, <3>1
    <3>2. CASE ScopeAfter(s, t) = Append(s, Block(at))
      <4>1. \A f \in 1..Len(s) : f <= Len(s) + 1
        BY <1>1
      <4> QED BY <2>3, <3>2, <4>1
    <3> QED BY <2>4, <3>1, <3>2
  <2>7. Len(s) = Len(o) => \A f \in 1..Len(o) : \A i \in 1..f : i \in 1..Len(s)
    BY <1>1
  <2> QED BY <2>5, <2>6, <2>7
<1> QED
  BY <1>3, <1>4, <1>5, TokenFields DEF BlockOps, CallableOps
-----------------------------------------------------------------------------
(* The passes that populate the table.                                      *)

\* The key of a variable: the scope, possibly the body of the loop, the name.
LEMMA VariableKeyShape ==
    ASSUME TypeOK, tok \in Token, tok.op \in {"var", "for"}, at \in 1..MaxTokens
    PROVE  /\ VariableKey \in Seq(Components) /\ VariableKey # <<>>
           /\ Len(VariableKey) > Len(scope \o subscope)
           /\ \A i \in 1..Len(scope \o subscope) : VariableKey[i] = (scope \o subscope)[i]
           /\ \/ Len(VariableKey) = Len(scope \o subscope) + 1
              \/ VariableKey[Len(scope \o subscope) + 1][1] = "^"
<1> DEFINE here == scope \o subscope
           name == <<Named(tok.name)>>
<1>1. here \in Seq(Components) /\ Len(here) \in Nat
  BY ConcatProperties, LenProperties DEF TypeOK
<1>2. name \in Seq(Components) /\ Len(name) = 1
  <2>1. Named(tok.name) \in Components
    BY TokenFields, NamedType
  <2> QED BY <2>1
<1>3. Block(at) \in Components /\ Block(at)[1] = "^"
  BY BlockType
<1>4. VariableKey = (IF tok.op = "for" THEN Append(here, Block(at)) ELSE here) \o name
  BY DEF VariableKey
<1> HIDE DEF here, name
<1>5. CASE tok.op = "for"
  <2> DEFINE inner == Append(here, Block(at))
  <2>1. /\ inner \in Seq(Components) /\ Len(inner) = Len(here) + 1
        /\ inner[Len(here) + 1] = Block(at)
        /\ \A i \in 1..Len(here) : inner[i] = here[i]
    BY <1>1, <1>3, AppendProperties
  <2>2. VariableKey = inner \o name
    BY <1>4, <1>5
  <2> HIDE DEF inner
  <2>3. /\ inner \o name \in Seq(Components)
        /\ Len(inner \o name) = Len(inner) + 1
        /\ \A i \in 1..Len(inner) : (inner \o name)[i] = inner[i]
    <3>1. name \in Seq(Components) /\ inner \in Seq(Components)
      BY <1>2, <2>1
    <3>2. /\ inner \o name \in Seq(Components)
          /\ Len(inner \o name) = Len(inner) + Len(name)
          /\ \A i \in 1..Len(inner) : (inner \o name)[i] = inner[i]
      BY ONLY <3>1, ConcatLeft
    <3> QED BY <1>2, <3>2
  <2>4. /\ VariableKey \in Seq(Components) /\ Len(VariableKey) = Len(here) + 2
        /\ \A i \in 1..Len(here) : VariableKey[i] = here[i]
        /\ VariableKey[Len(here) + 1] = Block(at)
    BY <1>1, <2>1, <2>2, <2>3
  <2>5. VariableKey # <<>>
    BY <1>1, <2>4, EmptySeq
  <2> QED BY <1>1, <1>3, <2>4, <2>5 DEF here
<1>6. CASE tok.op = "var"
  <2>1. VariableKey = here \o name
    BY <1>4, <1>6
  <2>2. /\ here \o name \in Seq(Components)
        /\ Len(here \o name) = Len(here) + 1
        /\ \A i \in 1..Len(here) : (here \o name)[i] = here[i]
    <3>1. name \in Seq(Components) /\ here \in Seq(Components)
      BY <1>1, <1>2
    <3>2. /\ here \o name \in Seq(Components)
          /\ Len(here \o name) = Len(here) + Len(name)
          /\ \A i \in 1..Len(here) : (here \o name)[i] = here[i]
      BY ONLY <3>1, ConcatLeft
    <3> QED BY <1>2, <3>2
  <2>3. VariableKey # <<>>
    BY <1>1, <2>1, <2>2, EmptySeq
  <2> QED BY <1>1, <2>1, <2>2, <2>3 DEF here
<1> QED
  BY <1>5, <1>6

\* A new entry has a type, and what was there stays as it was.
LEMMA AddedType ==
    ASSUME TypeOK, NEW key \in Seq(Components), key # <<>>, NEW e \in Entry, Adds(key, e)
    PROVE  \A k \in DOMAIN table' : k \in Seq(Components) /\ k # <<>> /\ table'[k] \in Entry
BY AddEntry DEF TypeOK

LEMMA SkipBodyKeeps ==
    ASSUME NEW opens, SymbolsInv(opens), SkipBody
    PROVE  SymbolsInv(opens)'
<1>0. /\ phase = "globals" /\ phase' = "globals" /\ Running /\ InCallable(open)
      /\ at' = at + 1 /\ open' = OpenAfter(open, tok)
      /\ UNCHANGED <<program, scope, subscope, table, num_globals, num_locals, start, refs>>
  BY DEF SkipBody, Step
<1>1. /\ ProgramInv(opens)' /\ PassInv(opens)'
      /\ program' \in Seq(Token) /\ Len(program') <= MaxTokens
      /\ at' \in 1..(MaxTokens + 1)
      /\ open' \in Seq(BlockOps \cup CallableOps) /\ WellNested(open')
  BY <1>0, StepKeeps
<1>2. /\ tok \in Token /\ WellNested(open) /\ MayFollow(open, tok)
      /\ WellNested(OpenAfter(open, tok)) /\ open' = OpenAfter(open, tok)
  BY <1>0, Context
<1>3. TypeOK'
  BY <1>0, <1>1 DEF SymbolsInv, TypeOK
<1>4. scope = <<>> /\ subscope = <<>>
  BY <1>0 DEF SymbolsInv, ScopeInv
<1>5. ~ InCallable(open') => open' = <<>>
  <2>1. Len(open) >= 1 /\ open[1] \in CallableOps /\ open \in Seq(BlockOps \cup CallableOps)
    BY <1>0, <1>2, CallableIsOutermost DEF WellNested
  <2>0. Len(open) \in Nat /\ Len(open) >= 1
    BY <2>1
  <2>2. open # <<>> /\ Len(open) \in Nat /\ Len(open) >= 1
    BY <2>0, EmptySeq
  <2>3. open'[1] \in CallableOps /\ Len(open') >= 1 => InCallable(open')
    BY <1>2, CallableIsOutermost
  <2>4. CASE tok.op = "end"
    <3>1. /\ open' = Front(open) /\ Len(Front(open)) = Len(open) - 1
          /\ \A i \in 1..(Len(open) - 1) : Front(open)[i] = open[i]
      BY <1>2, <2>1, <2>2, <2>4, OpenAfterCases, FrontProperties
    <3>2. CASE Len(open) = 1
      BY <1>1, <2>2, <3>1, <3>2, EmptySeq
    <3>3. CASE Len(open) > 1
      BY <2>1, <2>2, <2>3, <3>1, <3>3
    <3>4. \A n \in Nat : n >= 1 => n = 1 \/ n > 1
      OBVIOUS
    <3>5. Len(open) = 1 \/ Len(open) > 1
      BY <2>0, <3>4
    <3> QED BY <3>2, <3>3, <3>5
  <2>5. CASE tok.op = "else"
    <3>1. Last(open) = "if" /\ "if" \notin CallableOps
      BY <1>2, <2>5 DEF MayFollow, CallableOps
    <3>2. Len(open) > 1
      BY <2>1, <2>2, <3>1 DEF Last
    <3>3. /\ open' = Append(Front(open), "else") /\ Len(Front(open)) = Len(open) - 1
          /\ \A i \in 1..(Len(open) - 1) : Front(open)[i] = open[i]
          /\ Front(open) \in Seq(BlockOps \cup CallableOps)
      BY <1>2, <2>1, <2>2, <2>5, OpenAfterCases, FrontProperties
    <3>4. "else" \in BlockOps \cup CallableOps
      BY DEF BlockOps
    <3>5. Len(open') >= 1 /\ open'[1] = open[1]
      BY <2>2, <3>2, <3>3, <3>4, AppendProperties
    <3> QED BY <2>1, <2>3, <3>5
  <2>6. CASE tok.op \in {"block", "for", "if", "function", "class"}
    <3>1. open' = Append(open, tok.op) /\ tok.op \in BlockOps \cup CallableOps
      BY <1>2, <2>6, OpenAfterCases DEF BlockOps, CallableOps
    <3>2. Len(open') >= 1 /\ open'[1] = open[1]
      BY <2>1, <2>2, <3>1, AppendProperties
    <3> QED BY <2>1, <2>3, <3>2
  <2>7. CASE tok.op \in {"use", "set", "var"}
    BY <1>2, <2>1, <2>3, <2>7, OpenAfterCases
  <2> QED
    BY <1>2, <2>4, <2>5, <2>6, <2>7, TokenFields DEF BlockOps, CallableOps
<1>6. Mirrors(<<>>, <<>>)
  BY EmptySeq DEF Mirrors
<1>7. ScopeInv(opens)'
  BY <1>0, <1>4, <1>5, <1>6 DEF ScopeInv
<1>8. LocalKeys' /\ GlobalKeys' /\ SlotsAreDistinct'
  <2>1. LocalKeys /\ GlobalKeys /\ SlotsAreDistinct
    BY <1>0 DEF SymbolsInv
  <2>2. NoLocals
    BY <1>4, <2>1, NoLocalsOutside
  <2> QED
    BY <1>0, <2>1, <2>2 DEF LocalKeys, GlobalKeys, NoLocals, SlotsAreDistinct
<1> QED
  BY <1>1, <1>3, <1>7, <1>8 DEF SymbolsInv

\* A new variable has a place of its own.
LEMMA SlotsAdd ==
    ASSUME TypeOK, SlotsAreDistinct, NEW key, NEW e \in Entry, Adds(key, e),
           num_locals' \in Nat, num_locals' >= num_locals,
           num_globals' \in Nat, num_globals' >= num_globals,
           e.type # "param",
           e.type = "local" => e.index >= 1 /\ e.index >= num_locals /\ e.index < num_locals',
           e.type = "global" => e.index >= num_globals /\ e.index < num_globals'
    PROVE  SlotsAreDistinct'
<1>1. /\ DOMAIN table' = {key} \cup DOMAIN table
      /\ table'[key] = e
      /\ \A k \in DOMAIN table : table'[k] = table[k]
  BY AddEntry
<1>2. /\ num_locals \in Nat /\ num_globals \in Nat
      /\ \A k \in DOMAIN table : table[k].type \in Types /\ table[k].index \in Nat
      /\ e.type \in Types /\ e.index \in Nat
  BY DEF TypeOK, Entry
<1>3. \A k \in DOMAIN table :
          /\ table[k].type = "local" => table[k].index >= 1 /\ table[k].index < num_locals
          /\ table[k].type = "global" => table[k].index < num_globals
  BY <1>2 DEF SlotsAreDistinct
<1>4. \A k \in DOMAIN table' :
          /\ table'[k].type = "local" => table'[k].index \in 1..(num_locals' - 1)
          /\ table'[k].type = "global" => table'[k].index \in 0..(num_globals' - 1)
  BY <1>1, <1>2, <1>3
<1>5. \A k \in DOMAIN table : table[k] = e => e.type \in CallableOps
  BY <1>2, <1>3 DEF Types, CallableOps
<1>6. ASSUME NEW k1 \in DOMAIN table', NEW k2 \in DOMAIN table', table'[k1] = table'[k2],
             table'[k1].type \notin CallableOps
      PROVE  k1 = k2
  <2>1. CASE k1 \in DOMAIN table /\ k2 \in DOMAIN table
    BY <1>1, <1>6, <2>1 DEF SlotsAreDistinct
  <2> QED BY <1>1, <1>5, <1>6, <2>1
<1> QED
  BY <1>4, <1>6 DEF SlotsAreDistinct

\* And it has the scope of its function, or no function's.
LEMMA KeysAdd ==
    ASSUME LocalKeys, GlobalKeys, NEW key, NEW e, Adds(key, e),
           \A f \in 1..Len(open) : open[f] = "function" /\ f <= Len(scope) =>
               /\ f \in 1..Len(open') /\ open'[f] = "function" /\ f <= Len(scope')
               /\ \A i \in 1..f : scope'[i] = scope[i],
           e.type \in {"local", "param"} =>
               \E f \in 1..Len(open') :
                   /\ open'[f] = "function"
                   /\ f <= Len(scope') /\ f < Len(key)
                   /\ \A i \in 1..f : key[i] = scope'[i],
           e.type \notin {"local", "param"} => Len(key) = 1 \/ key[1][1] = "^"
    PROVE  LocalKeys' /\ GlobalKeys'
<1>1. /\ DOMAIN table' = {key} \cup DOMAIN table
      /\ table'[key] = e
      /\ \A k \in DOMAIN table : table'[k] = table[k]
  BY AddEntry
<1>2. ASSUME NEW k \in DOMAIN table, table[k].type \in {"local", "param"}
      PROVE  \E f \in 1..Len(open') :
                 /\ open'[f] = "function"
                 /\ f <= Len(scope') /\ f < Len(k)
                 /\ \A i \in 1..f : k[i] = scope'[i]
  <2>1. PICK f \in 1..Len(open) : /\ open[f] = "function"
                                  /\ f <= Len(scope) /\ f < Len(k)
                                  /\ \A i \in 1..f : k[i] = scope[i]
    BY <1>2 DEF LocalKeys
  <2>2. /\ f \in 1..Len(open') /\ open'[f] = "function" /\ f <= Len(scope')
        /\ \A i \in 1..f : scope'[i] = scope[i]
    BY <2>1
  <2> QED BY <2>1, <2>2
<1>3. LocalKeys'
  BY <1>1, <1>2 DEF LocalKeys
<1>4. GlobalKeys'
  BY <1>1 DEF GlobalKeys
<1> QED
  BY <1>3, <1>4

LEMMA DeclareCallableKeeps ==
    ASSUME NEW opens, SymbolsInv(opens), DeclareCallable
    PROVE  SymbolsInv(opens)'
<1> DEFINE key == <<Named(tok.name)>>
           e == [type |-> tok.op, index |-> 0]
<1>1. /\ phase = "globals" /\ Running /\ ~ InCallable(open) /\ tok.op \in CallableOps
  BY DEF DeclareCallable
<1>2. CASE key \in DOMAIN table
  BY <1>2, FailKeeps DEF DeclareCallable
<1>3. CASE key \notin DOMAIN table
  <2>1. /\ Adds(key, e) /\ phase' = phase
        /\ at' = at + 1 /\ open' = OpenAfter(open, tok)
        /\ UNCHANGED <<program, scope, subscope, num_globals, num_locals, start, refs>>
    BY <1>3 DEF DeclareCallable, Step, Adds
  <2>2. /\ tok \in Token /\ WellNested(open) /\ MayFollow(open, tok)
    BY <1>1, Context
  <2>3. /\ ProgramInv(opens)' /\ PassInv(opens)'
        /\ program' \in Seq(Token) /\ Len(program') <= MaxTokens
        /\ at' \in 1..(MaxTokens + 1)
        /\ open' \in Seq(BlockOps \cup CallableOps) /\ WellNested(open')
    BY <1>1, <2>1, StepKeeps
  <2>4. key \in Seq(Components) /\ key # <<>> /\ Len(key) = 1 /\ e \in Entry
        /\ e.type = tok.op
    <3>1. Named(tok.name) \in Components
      BY <1>1, <2>2, TokenFields, NamedType
    <3>2. tok.op \in Types
      BY <1>1 DEF CallableOps, Types
    <3> QED BY <3>1, <3>2, EmptySeq DEF Entry
  <2> HIDE DEF key, e
  <2>5. TypeOK'
    <3>1. TypeOK
      BY DEF SymbolsInv
    <3>2. \A k \in DOMAIN table' : k \in Seq(Components) /\ k # <<>> /\ table'[k] \in Entry
      BY <2>1, <2>4, <3>1, AddedType
    <3> QED BY <1>1, <2>1, <2>3, <3>1, <3>2 DEF TypeOK
  <2>6. open = <<>>
    <3>1. CASE Last(open) = "class"
      <4>1. open # <<>> => Len(open) \in 1..Len(open) /\ open[Len(open)] \in CallableOps
        BY <2>2, <3>1, EmptySeq DEF WellNested, Last, CallableOps
      <4>2. DOMAIN open = 1..Len(open)
        BY <2>2 DEF WellNested
      <4> QED BY <1>1, <4>1, <4>2 DEF InCallable
    <3> QED BY <1>1, <2>2, <3>1 DEF MayFollow, CallableOps
  <2>7. InCallable(open')
    <3>1. open' = Append(<<>>, tok.op)
      BY <1>1, <2>1, <2>2, <2>6, OpenAfterCases DEF CallableOps
    <3>2. Len(open') >= 1 /\ open'[1] \in CallableOps
      BY <1>1, <3>1
    <3> QED BY <2>3, <3>2, CallableIsOutermost
  <2>8. scope = <<>> /\ subscope = <<>>
    <3>1. scope = <<>> /\ Mirrors(subscope, open) /\ subscope \in Seq(Components)
      BY <1>1 DEF SymbolsInv, ScopeInv, TypeOK
    <3>2. Len(subscope) = 0
      BY <2>6, <3>1, EmptySeq DEF Mirrors
    <3> QED BY <3>1, <3>2, EmptySeq
  <2>9. ScopeInv(opens)'
    BY <1>1, <2>1, <2>7, <2>8 DEF ScopeInv
  <2>10. LocalKeys' /\ GlobalKeys'
    <3>1. LocalKeys /\ GlobalKeys
      BY <1>1 DEF SymbolsInv
    <3>2. Len(scope) = 0
      BY <2>8, EmptySeq
    <3>3. e.type \notin {"local", "param"}
      BY <1>1, <2>4 DEF CallableOps
    <3> QED BY <1>3, <2>1, <2>4, <3>1, <3>2, <3>3, KeysAdd
  <2>11. SlotsAreDistinct'
    <3>1. SlotsAreDistinct /\ TypeOK /\ num_locals \in Nat /\ num_globals \in Nat
      BY DEF SymbolsInv, TypeOK
    <3>2. e.type \notin {"local", "param", "global"}
      BY <1>1, <2>4 DEF CallableOps
    <3> QED BY <1>3, <2>1, <2>4, <3>1, <3>2, SlotsAdd
  <2> QED
    BY <2>3, <2>5, <2>9, <2>10, <2>11 DEF SymbolsInv
<1> QED
  BY <1>2, <1>3

LEMMA DeclareGlobalKeeps ==
    ASSUME NEW opens, SymbolsInv(opens), DeclareGlobal
    PROVE  SymbolsInv(opens)'
<1> DEFINE e == [type |-> "global", index |-> num_globals]
<1>1. /\ phase = "globals" /\ Running /\ ~ InCallable(open) /\ tok.op \in {"var", "for"}
  BY DEF DeclareGlobal
<1>2. CASE VariableKey \in DOMAIN table
  BY <1>2, FailKeeps DEF DeclareGlobal
<1>3. CASE VariableKey \notin DOMAIN table
  <2>1. /\ Adds(VariableKey, e) /\ phase' = phase
        /\ num_globals' = num_globals + 1
        /\ subscope' = ScopeAfter(subscope, tok)
        /\ at' = at + 1 /\ open' = OpenAfter(open, tok)
        /\ UNCHANGED <<program, scope, num_locals, start, refs>>
    BY <1>3 DEF DeclareGlobal, Step, Adds
  <2>2. /\ tok \in Token /\ WellNested(open) /\ MayFollow(open, tok) /\ at \in 1..MaxTokens
        /\ WellNested(OpenAfter(open, tok))
    BY <1>1, Context
  <2>3. /\ ProgramInv(opens)' /\ PassInv(opens)'
        /\ program' \in Seq(Token) /\ Len(program') <= MaxTokens
        /\ at' \in 1..(MaxTokens + 1)
        /\ open' \in Seq(BlockOps \cup CallableOps)
    BY <1>1, <2>1, StepKeeps
  <2>4. TypeOK /\ num_globals \in Nat /\ num_locals \in Nat
        /\ scope \in Seq(Components) /\ subscope \in Seq(Components)
    BY DEF SymbolsInv, TypeOK
  <2>5. /\ scope = <<>> /\ Mirrors(subscope, open)
    BY <1>1 DEF SymbolsInv, ScopeInv
  <2>6. subscope' \in Seq(Components) /\ Mirrors(subscope', open')
    <3>1. tok.op \notin {"end", "else"} \cup CallableOps
      BY <1>1 DEF CallableOps
    <3> QED BY <2>1, <2>2, <2>4, <2>5, <3>1, ScopeAfterType, MirrorsAfter
  <2>7. ~ InCallable(open')
    <3>1. CASE tok.op = "var"
      BY <1>1, <2>1, <2>2, <3>1, OpenAfterCases
    <3>2. CASE tok.op = "for"
      <4>1. open' = Append(open, "for") /\ "for" \notin CallableOps /\ "for" \in BlockOps
        BY <2>1, <2>2, <3>2, OpenAfterCases DEF CallableOps, BlockOps
      <4>2. open \in Seq(BlockOps \cup CallableOps) /\ DOMAIN open = 1..Len(open)
            /\ DOMAIN open' = 1..Len(open') /\ Len(open) \in Nat
        BY <2>2, <2>3, LenProperties DEF WellNested
      <4>3. Len(open') = Len(open) + 1 /\ open'[Len(open) + 1] = "for"
            /\ \A i \in 1..Len(open) : open'[i] = open[i]
        BY <4>1, <4>2, AppendProperties
      <4>4. \A i \in DOMAIN open' : i \in DOMAIN open \/ i = Len(open) + 1
        BY <4>2, <4>3
      <4> QED BY <1>1, <4>1, <4>2, <4>3, <4>4 DEF InCallable
    <3> QED BY <1>1, <3>1, <3>2
  <2>8. ScopeInv(opens)'
    BY <1>1, <2>1, <2>5, <2>6, <2>7 DEF ScopeInv
  <2>9. e \in Entry /\ e.type = "global" /\ e.index = num_globals
    BY <2>4 DEF Entry, Types
  <2> HIDE DEF e
  <2>10. /\ VariableKey \in Seq(Components) /\ VariableKey # <<>>
         /\ Len(VariableKey) = 1 \/ VariableKey[1][1] = "^"
    <3>1. scope \o subscope = subscope
      BY <2>4, <2>5, ConcatEmptySeq
    <3>2. /\ VariableKey \in Seq(Components) /\ VariableKey # <<>>
          /\ \A i \in 1..Len(subscope) : VariableKey[i] = subscope[i]
          /\ \/ Len(VariableKey) = Len(subscope) + 1
             \/ VariableKey[Len(subscope) + 1][1] = "^"
      BY <1>1, <2>2, <2>4, <3>1, VariableKeyShape
    <3>3. CASE Len(subscope) = 0
      BY <3>2, <3>3
    <3>4. CASE Len(subscope) # 0
      <4>1. 1 \in 1..Len(subscope) /\ 1 \in 1..Len(open) /\ 1 \in DOMAIN open
        BY <2>2, <2>4, <2>5, <3>4 DEF Mirrors, WellNested
      <4>2. open[1] \notin CallableOps
        BY <1>1, <4>1 DEF InCallable
      <4>3. subscope[1][1] = "^"
        BY <2>5, <4>1, <4>2 DEF Mirrors
      <4> QED BY <3>2, <4>1, <4>3
    <3> QED BY <3>2, <3>3, <3>4
  <2>11. TypeOK'
    <3>1. \A k \in DOMAIN table' : k \in Seq(Components) /\ k # <<>> /\ table'[k] \in Entry
      BY <2>1, <2>4, <2>9, <2>10, AddedType
    <3>2. num_globals' \in Nat
      BY <2>1, <2>4
    <3> QED BY <1>1, <2>1, <2>3, <2>4, <2>6, <3>1, <3>2 DEF TypeOK
  <2>12. LocalKeys' /\ GlobalKeys'
    <3>1. LocalKeys /\ GlobalKeys
      BY <1>1 DEF SymbolsInv
    <3>2. Len(scope) = 0
      BY <2>5, EmptySeq
    <3> QED BY <1>3, <2>1, <2>9, <2>10, <3>1, <3>2, KeysAdd
  <2>13. SlotsAreDistinct'
    <3>1. SlotsAreDistinct
      BY DEF SymbolsInv
    <3>2. num_globals' \in Nat /\ num_globals' >= num_globals /\ num_globals < num_globals'
          /\ num_locals' = num_locals /\ num_locals >= num_locals /\ num_globals >= num_globals
      BY <2>1, <2>4
    <3> QED BY <1>3, <2>1, <2>4, <2>9, <3>1, <3>2, SlotsAdd
  <2> QED
    BY <1>1, <2>1, <2>3, <2>8, <2>11, <2>12, <2>13 DEF SymbolsInv
<1> QED
  BY <1>2, <1>3

\* The locals of a function are collected in its scope and that of its blocks.
LEMMA InFunction ==
    ASSUME NEW opens, SymbolsInv(opens), phase = "locals", WellNested(open)
    PROVE  /\ scope \in Seq(Components) /\ subscope \in Seq(Components)
           /\ Len(scope) \in Nat /\ Len(scope) >= 1
           /\ Mirrors(scope \o subscope, open)
           /\ Len(open) = Len(scope) + Len(subscope)
           /\ open[Len(scope)] = "function"
           /\ opens[start] = SubSeq(open, 1, Len(scope))
           /\ start \in 1..(at - 1) /\ num_locals >= 1
           /\ \A f \in 1..Len(open) : open[f] = "function" => f = Len(scope)
           /\ Last(open) = "function" => subscope = <<>>
           /\ subscope = <<>> => Last(open) = "function" /\ opens[start] = open
<1>1. /\ scope \in Seq(Components) /\ subscope \in Seq(Components) /\ scope # <<>>
      /\ Mirrors(scope \o subscope, open)
      /\ opens[start] = SubSeq(open, 1, Len(scope)) /\ Last(opens[start]) = "function"
      /\ start \in 1..(at - 1) /\ num_locals >= 1
  BY DEF SymbolsInv, TypeOK, ScopeInv
<1>2. Len(scope) \in Nat /\ Len(scope) >= 1 /\ Len(subscope) \in Nat
  BY <1>1, EmptySeq
<1>3. Len(open) = Len(scope) + Len(subscope)
  BY <1>1, ConcatProperties DEF Mirrors
<1>4. open \in Seq(BlockOps \cup CallableOps) /\ Len(scope) <= Len(open)
  BY <1>2, <1>3 DEF WellNested
<1>5. open[Len(scope)] = "function"
  <2>1. \A i \in 1..Len(scope) : open[i] \in BlockOps \cup CallableOps
    BY <1>2, <1>4, ElementOfSeq
  <2>2. /\ Len(SubSeq(open, 1, Len(scope))) = Len(scope)
        /\ SubSeq(open, 1, Len(scope))[Len(scope)] = open[Len(scope)]
    BY <1>2, <1>4, <2>1, SubSeqProperties
  <2> QED BY <1>1, <2>2 DEF Last
<1>6. \A f \in 1..Len(open) : open[f] = "function" => f = Len(scope)
  <2>1. Len(scope) \in 1..Len(open)
    BY <1>2, <1>4
  <2> QED BY <1>5, <2>1 DEF WellNested
<1>7. Last(open) = "function" => subscope = <<>>
  <2>1. Len(open) \in 1..Len(open)
    BY <1>2, <1>3
  <2>2. Last(open) = "function" => Len(subscope) = 0
    BY <1>2, <1>3, <1>6, <2>1 DEF Last
  <2> QED BY <1>1, <2>2, EmptySeq
<1>8. ASSUME subscope = <<>>
      PROVE  Last(open) = "function" /\ opens[start] = open
  <2>1. Len(subscope) = 0
    BY <1>8, EmptySeq
  <2>2. Len(open) = Len(scope)
    BY <1>2, <1>3, <2>1
  <2>3. SubSeq(open, 1, Len(open)) = open
    BY <1>4, SubSeqFull
  <2> QED BY <1>1, <1>5, <2>2, <2>3 DEF Last
<1> QED
  BY <1>1, <1>2, <1>3, <1>5, <1>6, <1>7, <1>8

\* The scope of a token within the function.
LEMMA InFunctionAfter ==
    ASSUME NEW opens, SymbolsInv(opens), phase = "locals", WellNested(open),
           tok \in Token, MayFollow(open, tok), WellNested(OpenAfter(open, tok)),
           at \in 1..MaxTokens, ~ AtFunctionEnd, tok.op \notin CallableOps
    PROVE  /\ ScopeAfter(subscope, tok) \in Seq(Components)
           /\ Mirrors(scope \o ScopeAfter(subscope, tok), OpenAfter(open, tok))
           /\ SubSeq(OpenAfter(open, tok), 1, Len(scope)) = SubSeq(open, 1, Len(scope))
           /\ Len(scope) \in 1..Len(OpenAfter(open, tok))
           /\ OpenAfter(open, tok)[Len(scope)] = "function"
<1> DEFINE after == OpenAfter(open, tok)
<1>1. /\ scope \in Seq(Components) /\ subscope \in Seq(Components)
      /\ Len(scope) \in Nat /\ Len(scope) >= 1
      /\ Mirrors(scope \o subscope, open)
      /\ Len(open) = Len(scope) + Len(subscope)
      /\ open[Len(scope)] = "function"
      /\ \A f \in 1..Len(open) : open[f] = "function" => f = Len(scope)
      /\ subscope = <<>> => Last(open) = "function"
  BY InFunction
<1>2. tok.op \in {"end", "else"} => Last(open) # "function"
  BY DEF AtFunctionEnd, MayFollow
<1>3. tok.op \in {"end", "else"} => subscope # <<>>
  BY <1>1, <1>2
<1>4. ScopeAfter(subscope, tok) \in Seq(Components)
  BY <1>1, <1>3, ScopeAfterType
<1>5. Mirrors(scope \o ScopeAfter(subscope, tok), OpenAfter(open, tok))
  <2>1. scope \o ScopeAfter(subscope, tok) = ScopeAfter(scope \o subscope, tok)
    BY <1>1, <1>3, ScopeAfterConcat
  <2>2. scope \o subscope \in Seq(Components)
    BY <1>1, ConcatProperties
  <2> QED BY <1>1, <2>1, <2>2, MirrorsAfter
<1>6. Len(scope) \in 1..Len(open)
  BY <1>1
<1>7. /\ Len(scope) \in 1..Len(after) /\ after[Len(scope)] = "function"
  BY <1>1, <1>2, <1>6, FunctionStays
<1>8. \A i \in 1..Len(scope) : after[i] = open[i]
  <2>1. open \in Seq(BlockOps \cup CallableOps) /\ Len(open) \in Nat
    BY DEF WellNested
  <2>2. CASE tok.op \in {"use", "set", "var"}
    BY <2>2, OpenAfterCases
  <2>3. CASE tok.op \in {"block", "for", "if"}
    <3>1. after = Append(open, tok.op) /\ tok.op \in BlockOps \cup CallableOps
      BY <2>3, OpenAfterCases DEF BlockOps
    <3>2. \A i \in 1..Len(open) : after[i] = open[i]
      BY <2>1, <3>1, AppendProperties
    <3> QED BY <1>1, <1>6, <2>1, <3>2
  <2>4. CASE tok.op \in {"end", "else"}
    <3>1. open # <<>> /\ Len(scope) # Len(open)
      BY <1>1, <1>2, <2>4 DEF MayFollow, Last
    <3>2. /\ Front(open) \in Seq(BlockOps \cup CallableOps)
          /\ Len(Front(open)) = Len(open) - 1
          /\ \A i \in 1..(Len(open) - 1) : Front(open)[i] = open[i]
      BY <2>1, <3>1, FrontProperties
    <3>3. "else" \in BlockOps \cup CallableOps
      BY DEF BlockOps
    <3>4. /\ Len(Front(open)) = Len(open) - 1
          /\ \A i \in 1..(Len(open) - 1) : Append(Front(open), "else")[i] = Front(open)[i]
      BY <3>2, <3>3, AppendProperties
    <3>5. \A i \in 1..(Len(open) - 1) : after[i] = open[i]
      BY <2>4, <3>2, <3>4, OpenAfterCases
    <3>6. Len(scope) <= Len(open) - 1
      BY <1>6, <2>1, <3>1
    <3> QED BY <1>1, <2>1, <3>5, <3>6
  <2> QED BY <2>2, <2>3, <2>4, TokenFields DEF BlockOps, CallableOps
<1>9. SubSeq(after, 1, Len(scope)) = SubSeq(open, 1, Len(scope))
  <2>1. after \in Seq(BlockOps \cup CallableOps) /\ open \in Seq(BlockOps \cup CallableOps)
    BY DEF WellNested
  <2>2. \A i \in 1..Len(scope) : /\ after[i] \in BlockOps \cup CallableOps
                                 /\ open[i] \in BlockOps \cup CallableOps
    <3>1. \A i \in 1..Len(scope) : i \in 1..Len(open)
      BY <1>1, <1>6
    <3> QED BY <1>8, <2>1, <3>1, ElementOfSeq
  <2> DEFINE a == SubSeq(after, 1, Len(scope))
             b == SubSeq(open, 1, Len(scope))
  <2>3. /\ a \in Seq(BlockOps \cup CallableOps) /\ Len(a) = Len(scope)
        /\ \A i \in 1..Len(scope) : a[i] = after[i]
    BY <1>1, <2>2, SubSeqProperties
  <2>4. /\ b \in Seq(BlockOps \cup CallableOps) /\ Len(b) = Len(scope)
        /\ \A i \in 1..Len(scope) : b[i] = open[i]
    BY <1>1, <2>2, SubSeqProperties
  <2> HIDE DEF a, b, after
  <2>5. \A i \in 1..Len(a) : a[i] = b[i]
    BY <1>8, <2>3, <2>4
  <2>6. a = b
    BY <2>3, <2>4, <2>5, SeqEqual
  <2> QED BY <2>6 DEF a, b
<1> QED
  BY <1>4, <1>5, <1>7, <1>9

LEMMA DeclareLocalKeeps ==
    ASSUME NEW opens, SymbolsInv(opens), DeclareLocal
    PROVE  SymbolsInv(opens)'
<1> DEFINE e == [type |-> "local", index |-> num_locals]
<1>1. /\ phase = "locals" /\ Running /\ tok.op \in {"var", "for"}
  BY DEF DeclareLocal
<1>2. CASE VariableKey \in DOMAIN table
  BY <1>2, FailKeeps DEF DeclareLocal
<1>3. CASE VariableKey \notin DOMAIN table
  <2>1. /\ Adds(VariableKey, e) /\ phase' = phase
        /\ num_locals' = num_locals + 1
        /\ subscope' = ScopeAfter(subscope, tok)
        /\ at' = at + 1 /\ open' = OpenAfter(open, tok)
        /\ UNCHANGED <<program, scope, num_globals, start, refs>>
    BY <1>3 DEF DeclareLocal, Step, Adds
  <2>2. /\ tok \in Token /\ WellNested(open) /\ MayFollow(open, tok) /\ at \in 1..MaxTokens
        /\ WellNested(OpenAfter(open, tok))
    BY <1>1, Context
  <2>3. /\ ProgramInv(opens)' /\ PassInv(opens)'
        /\ program' \in Seq(Token) /\ Len(program') <= MaxTokens
        /\ at' \in 1..(MaxTokens + 1)
        /\ open' \in Seq(BlockOps \cup CallableOps)
    BY <1>1, <2>1, StepKeeps
  <2>4. TypeOK /\ num_globals \in Nat /\ num_locals \in Nat
    BY DEF SymbolsInv, TypeOK
  <2>5. /\ scope \in Seq(Components) /\ subscope \in Seq(Components)
        /\ Len(scope) \in Nat /\ Len(scope) >= 1
        /\ opens[start] = SubSeq(open, 1, Len(scope))
        /\ start \in 1..(at - 1) /\ num_locals >= 1
        /\ \A f \in 1..Len(open) : open[f] = "function" => f = Len(scope)
    BY <1>1, <2>2, InFunction
  <2>6. /\ subscope' \in Seq(Components)
        /\ Mirrors(scope \o subscope', open')
        /\ SubSeq(open', 1, Len(scope)) = SubSeq(open, 1, Len(scope))
        /\ Len(scope) \in 1..Len(open')
        /\ open'[Len(scope)] = "function"
    <3>1. ~ AtFunctionEnd /\ tok.op \notin CallableOps
      BY <1>1 DEF AtFunctionEnd, CallableOps
    <3> QED BY <1>1, <2>1, <2>2, <3>1, InFunctionAfter
  <2>7. ScopeInv(opens)'
    <3>1. scope # <<>> /\ Last(opens[start]) = "function"
      BY <1>1 DEF SymbolsInv, ScopeInv
    <3>2. start' \in 1..(at' - 1) /\ num_locals' >= 1
      BY <2>1, <2>2, <2>4, <2>5
    <3> QED BY <1>1, <2>1, <2>5, <2>6, <3>1, <3>2 DEF ScopeInv
  <2>8. e \in Entry /\ e.type = "local" /\ e.index = num_locals
    BY <2>4 DEF Entry, Types
  <2> HIDE DEF e
  <2>9. /\ VariableKey \in Seq(Components) /\ VariableKey # <<>>
        /\ Len(VariableKey) > Len(scope)
        /\ \A i \in 1..Len(scope) : VariableKey[i] = scope[i]
    <3>1. /\ Len(scope \o subscope) = Len(scope) + Len(subscope) /\ Len(subscope) \in Nat
          /\ \A i \in 1..Len(scope) : (scope \o subscope)[i] = scope[i]
      BY <2>5, ConcatLeft
    <3>2. /\ VariableKey \in Seq(Components) /\ VariableKey # <<>>
          /\ Len(VariableKey) > Len(scope \o subscope)
          /\ \A i \in 1..Len(scope \o subscope) : VariableKey[i] = (scope \o subscope)[i]
      BY <1>1, <2>2, <2>4, VariableKeyShape
    <3>3. \A i \in 1..Len(scope) : i \in 1..Len(scope \o subscope)
      BY <2>5, <3>1
    <3>4. Len(VariableKey) \in Nat
      BY <3>2
    <3> QED BY <2>5, <3>1, <3>2, <3>3, <3>4
  <2>10. TypeOK'
    <3>1. \A k \in DOMAIN table' : k \in Seq(Components) /\ k # <<>> /\ table'[k] \in Entry
      BY <2>1, <2>4, <2>8, <2>9, AddedType
    <3>2. num_locals' \in Nat
      BY <2>1, <2>4
    <3> QED BY <1>1, <2>1, <2>3, <2>4, <2>6, <3>1, <3>2 DEF TypeOK
  <2>11. LocalKeys' /\ GlobalKeys'
    <3>1. LocalKeys /\ GlobalKeys
      BY <1>1 DEF SymbolsInv
    <3>2. \E f \in 1..Len(open') :
              /\ open'[f] = "function"
              /\ f <= Len(scope') /\ f < Len(VariableKey)
              /\ \A i \in 1..f : VariableKey[i] = scope'[i]
      BY <2>1, <2>5, <2>6, <2>9
    <3>3. \A f \in 1..Len(open) : open[f] = "function" /\ f <= Len(scope) =>
              /\ f \in 1..Len(open') /\ open'[f] = "function" /\ f <= Len(scope')
              /\ \A i \in 1..f : scope'[i] = scope[i]
      BY <2>1, <2>5, <2>6
    <3> QED BY <2>1, <2>8, <3>1, <3>2, <3>3, KeysAdd
  <2>12. SlotsAreDistinct'
    <3>1. SlotsAreDistinct
      BY DEF SymbolsInv
    <3>2. num_locals' \in Nat /\ num_locals' >= num_locals /\ num_locals < num_locals'
          /\ num_globals' = num_globals /\ num_globals >= num_globals /\ num_locals >= num_locals
      BY <2>1, <2>4
    <3> QED BY <2>1, <2>4, <2>5, <2>8, <3>1, <3>2, SlotsAdd
  <2> QED
    BY <1>1, <2>1, <2>3, <2>7, <2>10, <2>11, <2>12 DEF SymbolsInv
<1> QED
  BY <1>2, <1>3

\* Every construct that is open was open or is the token's.
LEMMA OpenAfterElements ==
    ASSUME NEW o, WellNested(o), NEW t \in Token, MayFollow(o, t)
    PROVE  \A i \in 1..Len(OpenAfter(o, t)) :
              \/ i \in 1..Len(o) /\ OpenAfter(o, t)[i] = o[i]
              \/ OpenAfter(o, t)[i] = t.op /\ t.op \notin {"end", "use", "set", "var"}
<1> DEFINE Kinds == BlockOps \cup CallableOps
<1>1. o \in Seq(Kinds) /\ Len(o) \in Nat
  BY DEF WellNested
<1>2. CASE t.op \in {"use", "set", "var"}
  BY <1>2, OpenAfterCases
<1>3. CASE t.op \in {"end", "else"}
  <2>1. o # <<>>
    BY <1>3 DEF MayFollow
  <2>2. /\ Front(o) \in Seq(Kinds) /\ Len(Front(o)) = Len(o) - 1 /\ Len(o) \in Nat \ {0}
        /\ \A i \in 1..(Len(o) - 1) : Front(o)[i] = o[i]
    BY <1>1, <2>1, FrontProperties
  <2>3. "else" \in Kinds
    BY DEF BlockOps
  <2>4. /\ Len(Append(Front(o), "else")) = Len(o)
        /\ Append(Front(o), "else")[Len(o)] = "else"
        /\ \A i \in 1..(Len(o) - 1) : Append(Front(o), "else")[i] = o[i]
    <3> HIDE DEF Kinds
    <3> QED BY <2>2, <2>3, AppendProperties
  <2> HIDE DEF Kinds
  <2>5. CASE t.op = "end"
    BY <2>2, <2>5, OpenAfterCases
  <2>6. CASE t.op = "else"
    <3>1. OpenAfter(o, t) = Append(Front(o), "else")
      BY <2>6, OpenAfterCases
    <3> QED BY <2>2, <2>4, <2>6, <3>1
  <2> QED BY <1>3, <2>5, <2>6
<1>4. CASE t.op \in {"block", "for", "if", "function", "class"}
  <2>1. OpenAfter(o, t) = Append(o, t.op) /\ t.op \in Kinds
    BY <1>4, OpenAfterCases DEF BlockOps, CallableOps
  <2>2. /\ Len(Append(o, t.op)) = Len(o) + 1
        /\ Append(o, t.op)[Len(o) + 1] = t.op
        /\ \A i \in 1..Len(o) : Append(o, t.op)[i] = o[i]
    <3> HIDE DEF Kinds
    <3> QED BY <1>1, <2>1, AppendProperties
  <2> QED BY <1>1, <1>4, <2>1, <2>2
<1> QED
  BY <1>2, <1>3, <1>4, TokenFields DEF BlockOps, CallableOps

LEMMA NotCallableAfter ==
    ASSUME NEW o, WellNested(o), NEW t \in Token, MayFollow(o, t),
           ~ InCallable(o), t.op \notin CallableOps, WellNested(OpenAfter(o, t))
    PROVE  ~ InCallable(OpenAfter(o, t))
<1>1. DOMAIN o = 1..Len(o) /\ DOMAIN OpenAfter(o, t) = 1..Len(OpenAfter(o, t))
  BY DEF WellNested
<1> QED
  BY <1>1, OpenAfterElements DEF InCallable

LEMMA PopulateOtherKeeps ==
    ASSUME NEW opens, SymbolsInv(opens), PopulateOther
    PROVE  SymbolsInv(opens)'
<1>1. /\ phase \in {"globals", "locals"} /\ Running /\ phase' = phase
      /\ phase = "globals" => ~ InCallable(open)
      /\ phase = "locals" => ~ AtFunctionEnd
      /\ tok.op \notin {"var", "for"} \cup CallableOps
      /\ subscope' = ScopeAfter(subscope, tok)
      /\ at' = at + 1 /\ open' = OpenAfter(open, tok)
      /\ UNCHANGED <<program, scope, table, num_globals, num_locals, start, refs>>
  BY DEF PopulateOther, Step
<1>2. /\ tok \in Token /\ WellNested(open) /\ MayFollow(open, tok) /\ at \in 1..MaxTokens
      /\ WellNested(OpenAfter(open, tok))
  BY <1>1, Context
<1>3. /\ ProgramInv(opens)' /\ PassInv(opens)'
      /\ program' \in Seq(Token) /\ Len(program') <= MaxTokens
      /\ at' \in 1..(MaxTokens + 1)
      /\ open' \in Seq(BlockOps \cup CallableOps)
  BY <1>1, StepKeeps
<1>4. /\ TypeOK /\ LocalKeys /\ GlobalKeys /\ SlotsAreDistinct
      /\ scope \in Seq(Components) /\ subscope \in Seq(Components) /\ num_locals \in Nat
  BY <1>1 DEF SymbolsInv, TypeOK
<1>5. GlobalKeys' /\ SlotsAreDistinct'
  BY <1>1, <1>4 DEF GlobalKeys, SlotsAreDistinct
<1>6. CASE phase = "globals"
  <2>1. scope = <<>> /\ Mirrors(subscope, open)
    BY <1>1, <1>6 DEF SymbolsInv, ScopeInv
  <2>2. tok.op \in {"end", "else"} => subscope # <<>>
    <3>1. subscope = <<>> => open = <<>>
      BY <1>2, <2>1, EmptySeq DEF Mirrors, WellNested
    <3> QED BY <1>2, <3>1 DEF MayFollow
  <2>3. subscope' \in Seq(Components) /\ Mirrors(subscope', open') /\ ~ InCallable(open')
    BY <1>1, <1>2, <1>4, <1>6, <2>1, <2>2, ScopeAfterType, MirrorsAfter, NotCallableAfter
  <2>4. ScopeInv(opens)'
    BY <1>1, <1>6, <2>1, <2>3 DEF ScopeInv
  <2>5. TypeOK'
    BY <1>1, <1>3, <1>4, <2>3 DEF TypeOK
  <2>6. LocalKeys'
    <3>1. Len(scope) = 0
      BY <2>1, EmptySeq
    <3> QED BY <1>1, <1>4, <3>1, LocalKeysStay
  <2> QED
    BY <1>1, <1>3, <1>5, <2>4, <2>5, <2>6 DEF SymbolsInv
<1>7. CASE phase = "locals"
  <2>1. /\ Len(scope) \in Nat /\ Len(scope) >= 1
        /\ opens[start] = SubSeq(open, 1, Len(scope))
        /\ start \in 1..(at - 1) /\ num_locals >= 1
        /\ \A f \in 1..Len(open) : open[f] = "function" => f = Len(scope)
    BY <1>2, <1>7, InFunction
  <2>2. /\ subscope' \in Seq(Components)
        /\ Mirrors(scope \o subscope', open')
        /\ SubSeq(open', 1, Len(scope)) = SubSeq(open, 1, Len(scope))
        /\ Len(scope) \in 1..Len(open')
        /\ open'[Len(scope)] = "function"
    BY <1>1, <1>2, <1>7, InFunctionAfter
  <2>3. ScopeInv(opens)'
    <3>1. scope # <<>> /\ Last(opens[start]) = "function"
      BY <1>7 DEF SymbolsInv, ScopeInv
    <3>2. start' \in 1..(at' - 1)
      BY <1>1, <1>2, <2>1
    <3> QED BY <1>1, <1>7, <2>1, <2>2, <3>1, <3>2 DEF ScopeInv
  <2>4. TypeOK'
    BY <1>1, <1>3, <1>4, <2>2 DEF TypeOK
  <2>5. LocalKeys'
    BY <1>1, <1>4, <2>1, <2>2, LocalKeysStay
  <2> QED
    BY <1>1, <1>3, <1>5, <2>3, <2>4, <2>5 DEF SymbolsInv
<1> QED
  BY <1>1, <1>6, <1>7
-----------------------------------------------------------------------------
(* The passes that generate code.                                           *)

LEMMA ClassAfter ==
    ASSUME NEW o, WellNested(o), NEW t \in Token, MayFollow(o, t), WellNested(OpenAfter(o, t))
    PROVE  /\ ~ InClass(o) /\ t.op # "class" => ~ InClass(OpenAfter(o, t))
           /\ InClass(o) \/ t.op = "class" =>
                 InClass(OpenAfter(o, t)) \/ OpenAfter(o, t) = <<>>
<1> DEFINE Kinds == BlockOps \cup CallableOps
           after == OpenAfter(o, t)
<1>1. o \in Seq(Kinds) /\ Len(o) \in Nat /\ after \in Seq(Kinds) /\ Len(after) \in Nat
  BY DEF WellNested
<1>2. /\ o # <<>> <=> Len(o) >= 1
      /\ after # <<>> <=> Len(after) >= 1
  BY <1>1, EmptySeq
<1>3. ASSUME ~ InClass(o), t.op # "class", InClass(after)
      PROVE  FALSE
  <2>1. after # <<>> /\ 1 \in 1..Len(after) /\ after[1] = "class"
    BY <1>1, <1>2, <1>3 DEF InClass
  <2>2. 1 \in 1..Len(o) /\ o[1] = "class"
    BY <1>3, <2>1, OpenAfterElements
  <2> QED BY <1>2, <1>3, <2>2, <1>1 DEF InClass
<1>4. ASSUME InClass(o) \/ t.op = "class"
      PROVE  InClass(after) \/ after = <<>>
  <2>1. CASE t.op = "class"
    <3>1. o = <<>> /\ after = Append(o, "class")
      BY <2>1, OpenAfterCases DEF MayFollow
    <3> QED BY <3>1 DEF InClass
  <2>2. CASE InClass(o) /\ t.op \in {"use", "set", "var"}
    BY <2>2, OpenAfterCases
  <2>3. CASE InClass(o) /\ t.op \in {"block", "for", "if", "function"}
    <3>1. after = Append(o, t.op) /\ t.op \in Kinds
      BY <2>3, OpenAfterCases DEF BlockOps, CallableOps
    <3>2. 1 \in 1..Len(o) /\ o[1] = "class"
      BY <1>1, <1>2, <2>3 DEF InClass
    <3>3. Len(after) = Len(o) + 1 /\ after[1] = o[1]
      <4> HIDE DEF Kinds, after
      <4> QED BY <1>1, <3>1, <3>2, AppendProperties
    <3> HIDE DEF after
    <3> QED BY <1>1, <1>2, <3>2, <3>3 DEF InClass
  <2>4. CASE InClass(o) /\ t.op \in {"end", "else"}
    <3>1. 1 \in 1..Len(o) /\ o[1] = "class" /\ o # <<>>
      BY <1>1, <1>2, <2>4 DEF InClass
    <3>2. /\ Front(o) \in Seq(Kinds) /\ Len(Front(o)) = Len(o) - 1
          /\ \A i \in 1..(Len(o) - 1) : Front(o)[i] = o[i]
      BY <1>1, <3>1, FrontProperties
    <3>3. CASE t.op = "end"
      <4>1. after = Front(o)
        BY <3>3, OpenAfterCases
      <4> HIDE DEF after, Kinds
      <4>2. CASE Len(o) = 1
        BY <1>1, <1>2, <3>2, <4>1, <4>2
      <4>3. CASE Len(o) # 1
        BY <1>1, <1>2, <3>1, <3>2, <4>1, <4>3 DEF InClass
      <4> QED BY <4>2, <4>3
    <3>4. CASE t.op = "else"
      <4>1. after = Append(Front(o), "else") /\ o[Len(o)] = "if" /\ "else" \in Kinds
        BY <3>4, OpenAfterCases DEF MayFollow, Last, BlockOps
      <4>2. Len(o) # 1
        BY <3>1, <4>1
      <4> HIDE DEF after, Kinds
      <4>3. /\ Len(after) = Len(o)
            /\ \A i \in 1..(Len(o) - 1) : after[i] = o[i]
        BY <1>1, <3>1, <3>2, <4>1, AppendProperties
      <4>4. after[1] = "class" /\ after # <<>>
        BY <1>1, <1>2, <3>1, <4>2, <4>3
      <4> QED BY <4>4 DEF InClass
    <3> QED BY <2>4, <3>3, <3>4
  <2> QED BY <1>4, <2>1, <2>2, <2>3, <2>4, TokenFields DEF BlockOps, CallableOps
<1> QED
  BY <1>3, <1>4

\* Where code is generated, the scope is that of the program.
LEMMA GeneratingScope ==
    ASSUME NEW opens, SymbolsInv(opens), Generating
    PROVE  /\ scope \in Seq(Components) /\ Mirrors(scope, open) /\ Len(scope) = Len(open)
           /\ phase \in {"classes", "code"} /\ Running
           /\ phase = "classes" <=> (InClass(open) \/ tok.op = "class")
<1>1. /\ phase \in {"classes", "code"} /\ Running
      /\ phase = "classes" <=> (InClass(open) \/ tok.op = "class")
  BY DEF Generating
<1>2. scope \in Seq(Components)
  BY DEF SymbolsInv, TypeOK
<1>3. ASSUME InClass(open) \/ phase = "code"
      PROVE  Mirrors(scope, open)
  BY <1>1, <1>3 DEF SymbolsInv, ScopeInv
<1>4. ASSUME ~ InClass(open), phase = "classes"
      PROVE  Mirrors(scope, open)
  <2>1. tok \in Token /\ MayFollow(open, tok)
    BY <1>1, Context
  <2>2. open = <<>> /\ scope = <<>>
    BY <1>1, <1>4, <2>1 DEF MayFollow, SymbolsInv, ScopeInv
  <2> QED BY <2>2, EmptySeq DEF Mirrors
<1> QED
  BY <1>1, <1>2, <1>3, <1>4 DEF Mirrors

\* So it is after a token.
LEMMA GenerateScope ==
    ASSUME NEW opens, SymbolsInv(opens), Generating,
           open' = OpenAfter(open, tok), phase' = phase,
           scope' \in Seq(Components), Mirrors(scope', open')
    PROVE  ScopeInv(opens)'
<1>1. /\ phase \in {"classes", "code"} /\ Running
      /\ phase = "classes" <=> (InClass(open) \/ tok.op = "class")
  BY GeneratingScope
<1>2. /\ tok \in Token /\ WellNested(open) /\ MayFollow(open, tok)
      /\ WellNested(OpenAfter(open, tok))
  BY <1>1, Context
<1>3. open' = <<>> => scope' = <<>>
  BY EmptySeq DEF Mirrors
<1>4. CASE phase = "classes"
  <2>1. InClass(open') \/ open' = <<>>
    BY <1>1, <1>2, <1>4, ClassAfter
  <2> QED BY <1>3, <1>4, <2>1 DEF ScopeInv
<1>5. CASE phase = "code"
  <2>1. ~ InClass(open')
    BY <1>1, <1>2, <1>5, ClassAfter
  <2> QED BY <1>5, <2>1 DEF ScopeInv
<1> QED
  BY <1>1, <1>4, <1>5

\* Statements leave the table alone.
LEMMA StatementKeeps ==
    ASSUME NEW opens, SymbolsInv(opens), Generating,
           Step, UNCHANGED <<table, subscope, num_globals, num_locals, start>>,
           refs' \subseteq [at : 1..MaxTokens, entry : Entry],
           scope' \in Seq(Components), Mirrors(scope', open'),
           \A f \in 1..Len(open) : open[f] = "function" /\ f <= Len(scope) =>
               /\ f \in 1..Len(open') /\ open'[f] = "function" /\ f <= Len(scope')
               /\ \A i \in 1..f : scope'[i] = scope[i]
    PROVE  SymbolsInv(opens)'
<1>1. /\ phase \in {"classes", "code"} /\ Running
  BY GeneratingScope
<1>2. /\ at' = at + 1 /\ open' = OpenAfter(open, tok) /\ UNCHANGED <<program, phase>>
  BY DEF Step
<1>3. /\ ProgramInv(opens)' /\ PassInv(opens)'
      /\ program' \in Seq(Token) /\ Len(program') <= MaxTokens
      /\ at' \in 1..(MaxTokens + 1)
      /\ open' \in Seq(BlockOps \cup CallableOps)
  BY <1>1, <1>2, StepKeeps
<1>4. ScopeInv(opens)'
  BY <1>2, GenerateScope
<1>5. TypeOK /\ LocalKeys /\ GlobalKeys /\ SlotsAreDistinct
  BY <1>1 DEF SymbolsInv
<1>6. TypeOK'
  BY <1>1, <1>2, <1>3, <1>5 DEF TypeOK
<1>7. LocalKeys'
  BY <1>5, LocalKeysStay
<1>8. GlobalKeys' /\ SlotsAreDistinct'
  BY <1>5 DEF GlobalKeys, SlotsAreDistinct
<1> QED
  BY <1>3, <1>4, <1>6, <1>7, <1>8 DEF SymbolsInv

LEMMA EnterClassKeeps ==
    ASSUME NEW opens, SymbolsInv(opens), EnterClass
    PROVE  SymbolsInv(opens)'
<1>1. /\ Generating /\ tok.op = "class" /\ scope' = Append(scope, Named(tok.name)) /\ Step
      /\ open' = OpenAfter(open, tok)
      /\ UNCHANGED <<subscope, table, num_globals, num_locals, start, refs>>
  BY DEF EnterClass, Step
<1>2. scope \in Seq(Components) /\ Mirrors(scope, open) /\ Running
  BY <1>1, GeneratingScope
<1>3. tok \in Token /\ WellNested(open) /\ MayFollow(open, tok)
  BY <1>2, Context
<1>4. open' = Append(open, "class") /\ "class" \in CallableOps /\ tok.name \in Names
  BY <1>1, <1>3, OpenAfterCases, TokenFields DEF CallableOps
<1>5. Mirrors(scope', open')
  BY <1>1, <1>2, <1>3, <1>4, MirrorsCallable
<1>6. scope' \in Seq(Components)
  BY <1>1, <1>2, <1>4, NamedType, AppendProperties
<1>7. Len(open) = 0
  BY <1>1, <1>3, EmptySeq DEF MayFollow
<1>8. refs' \subseteq [at : 1..MaxTokens, entry : Entry]
  BY <1>1 DEF SymbolsInv, TypeOK
<1> QED
  BY <1>1, <1>5, <1>6, <1>7, <1>8, StatementKeeps

\* A statement that opens and closes blocks, or none.
LEMMA BlockStatementKeeps ==
    ASSUME NEW opens, SymbolsInv(opens), Generating,
           Step, UNCHANGED <<table, subscope, num_globals, num_locals, start>>,
           refs' \subseteq [at : 1..MaxTokens, entry : Entry],
           scope' = ScopeAfter(scope, tok),
           tok.op \notin CallableOps, tok.op = "end" => Last(open) # "function"
    PROVE  SymbolsInv(opens)'
<1>1. scope \in Seq(Components) /\ Mirrors(scope, open) /\ Running /\ Len(scope) = Len(open)
  BY GeneratingScope
<1>2. tok \in Token /\ WellNested(open) /\ MayFollow(open, tok) /\ at \in 1..MaxTokens
  BY <1>1, Context
<1>3. open' = OpenAfter(open, tok)
  BY DEF Step
<1>4. Mirrors(scope', open')
  BY <1>1, <1>2, <1>3, MirrorsAfter
<1>5. tok.op \in {"end", "else"} => scope # <<>>
  <2>1. open \in Seq(BlockOps \cup CallableOps)
    BY <1>2 DEF WellNested
  <2>2. scope = <<>> => open = <<>>
    BY <1>1, <2>1, EmptySeq
  <2> QED BY <1>2, <2>2 DEF MayFollow
<1>6. scope' \in Seq(Components)
  BY <1>1, <1>2, <1>5, ScopeAfterType
<1>7. \A f \in 1..Len(open) : open[f] = "function" =>
          /\ f \in 1..Len(open') /\ open'[f] = "function" /\ f <= Len(scope')
          /\ \A i \in 1..f : scope'[i] = scope[i]
  BY <1>1, <1>2, <1>3, FunctionStays
<1> QED
  BY <1>4, <1>6, <1>7, StatementKeeps

LEMMA ScopeStmtKeeps ==
    ASSUME NEW opens, SymbolsInv(opens), ScopeStmt
    PROVE  SymbolsInv(opens)'
<1>1. /\ Generating /\ Step /\ scope' = ScopeAfter(scope, tok)
      /\ tok.op \in {"block", "if", "else"} \/ (tok.op = "end" /\ ~ AtFunctionEnd)
      /\ UNCHANGED <<subscope, table, num_globals, num_locals, start, refs>>
  BY DEF ScopeStmt
<1>2. tok.op \notin CallableOps /\ (tok.op = "end" => Last(open) # "function")
  BY <1>1 DEF CallableOps, AtFunctionEnd
<1>3. refs' \subseteq [at : 1..MaxTokens, entry : Entry]
  BY <1>1 DEF SymbolsInv, TypeOK
<1> QED
  BY <1>1, <1>2, <1>3, BlockStatementKeeps

\* What a lookup finds is in the table.
LEMMA LookupFinds ==
    ASSUME NEW s \in Seq(Components), NEW name, Lookup(s, name) # <<>>
    PROVE  Lookup(s, name) \in DOMAIN table
<1> DEFINE found == {n \in 0..Len(s) : SubSeq(s, 1, n) \o <<Named(name)>> \in DOMAIN table}
<1>1. Lookup(s, name) = IF found = {} THEN <<>> ELSE SubSeq(s, 1, Max(found)) \o <<Named(name)>>
  BY DEF Lookup
<1>2. found # {} /\ found \subseteq 0..Len(s) /\ Len(s) \in Nat
  BY <1>1
<1>3. Max(found) \in found
  <2> HIDE DEF found
  <2> QED BY <1>2, MaxIn
<1> QED
  BY <1>1, <1>2, <1>3

LEMMA ReferType ==
    ASSUME TypeOK, NEW key \in DOMAIN table, at \in 1..MaxTokens, Refer(key)
    PROVE  refs' \subseteq [at : 1..MaxTokens, entry : Entry]
BY DEF TypeOK, Refer

LEMMA UseNameKeeps ==
    ASSUME NEW opens, SymbolsInv(opens), UseName
    PROVE  SymbolsInv(opens)'
<1> DEFINE key == Lookup(scope, tok.name)
<1>1. Generating /\ tok.op = "use"
  BY SMTT(30) DEF UseName
<1>2. CASE key = <<>>
  BY <1>2, FailKeeps, SMTT(30) DEF UseName
<1>3. CASE key # <<>>
  <2>1. /\ Refer(key) /\ Step
        /\ UNCHANGED <<scope, subscope, table, num_globals, num_locals, start>>
    BY <1>3 DEF UseName
  <2>2. scope \in Seq(Components) /\ Running /\ TypeOK
    BY <1>1, GeneratingScope DEF SymbolsInv
  <2>3. tok \in Token /\ at \in 1..MaxTokens
    BY <2>2, Context
  <2>4. key \in DOMAIN table
    BY <1>3, <2>2, LookupFinds
  <2>5. refs' \subseteq [at : 1..MaxTokens, entry : Entry]
    BY <2>1, <2>2, <2>3, <2>4, ReferType
  <2>6. scope' = ScopeAfter(scope, tok)
    BY <1>1, <2>1, <2>3, ScopeAfterCases
  <2>7. tok.op \notin CallableOps /\ tok.op # "end"
    BY <1>1 DEF CallableOps
  <2> QED
    BY <1>1, <2>1, <2>5, <2>6, <2>7, BlockStatementKeeps
<1> QED
  BY <1>2, <1>3

LEMMA SetNameKeeps ==
    ASSUME NEW opens, SymbolsInv(opens), SetName
    PROVE  SymbolsInv(opens)'
<1> DEFINE key == Lookup(scope, tok.name)
<1>1. Generating /\ tok.op = "set"
  BY DEF SetName
<1>2. CASE key = <<>> \/ table[key].type \in CallableOps
  BY <1>2, FailKeeps, SMTT(30) DEF SetName
<1>3. CASE key # <<>> /\ table[key].type \notin CallableOps
  <2>1. /\ Refer(key) /\ Step
        /\ UNCHANGED <<scope, subscope, table, num_globals, num_locals, start>>
    BY <1>3 DEF SetName
  <2>2. scope \in Seq(Components) /\ Running /\ TypeOK
    BY <1>1, GeneratingScope DEF SymbolsInv
  <2>3. tok \in Token /\ at \in 1..MaxTokens
    BY <2>2, Context
  <2>4. key \in DOMAIN table
    BY <1>3, <2>2, LookupFinds
  <2>5. refs' \subseteq [at : 1..MaxTokens, entry : Entry]
    BY <2>1, <2>2, <2>3, <2>4, ReferType
  <2>6. scope' = ScopeAfter(scope, tok)
    BY <1>1, <2>1, <2>3, ScopeAfterCases
  <2>7. tok.op \notin CallableOps /\ tok.op # "end"
    BY <1>1 DEF CallableOps
  <2> QED
    BY <1>1, <2>1, <2>5, <2>6, <2>7, BlockStatementKeeps
<1> QED
  BY <1>2, <1>3

LEMMA BindVariableKeeps ==
    ASSUME NEW opens, SymbolsInv(opens), BindVariable
    PROVE  SymbolsInv(opens)'
<1> DEFINE inner == ScopeAfter(scope, tok)
           key == Lookup(inner, tok.name)
<1>1. Generating /\ tok.op \in {"var", "for"}
  BY DEF BindVariable
<1>2. CASE key = <<>>
  BY <1>2, FailKeeps DEF BindVariable
<1>3. CASE key # <<>>
  <2>1. /\ Refer(key) /\ Step /\ scope' = inner
        /\ UNCHANGED <<subscope, table, num_globals, num_locals, start>>
    BY <1>3 DEF BindVariable
  <2>2. scope \in Seq(Components) /\ Running /\ TypeOK
    BY <1>1, GeneratingScope DEF SymbolsInv
  <2>3. tok \in Token /\ at \in 1..MaxTokens
    BY <2>2, Context
  <2>4. inner \in Seq(Components)
    BY <1>1, <2>2, <2>3, ScopeAfterType
  <2>5. key \in DOMAIN table
    BY <1>3, <2>4, LookupFinds
  <2>6. refs' \subseteq [at : 1..MaxTokens, entry : Entry]
    BY <2>1, <2>2, <2>3, <2>5, ReferType
  <2>7. tok.op \notin CallableOps /\ tok.op # "end"
    BY <1>1 DEF CallableOps
  <2> QED
    BY <1>1, <2>1, <2>6, <2>7, BlockStatementKeeps
<1> QED
  BY <1>2, <1>3

LEMMA SkipTokenKeeps ==
    ASSUME NEW opens, SymbolsInv(opens), SkipToken
    PROVE  SymbolsInv(opens)'
<1>1. /\ phase \in {"classes", "code"} /\ Running /\ ~ Generating
      /\ at' = at + 1 /\ open' = OpenAfter(open, tok)
      /\ UNCHANGED <<program, phase, scope, subscope, table, num_globals, num_locals, start, refs>>
  BY DEF SkipToken, Step
<1>2. /\ tok \in Token /\ WellNested(open) /\ MayFollow(open, tok)
      /\ WellNested(OpenAfter(open, tok))
  BY <1>1, Context
<1>3. /\ ProgramInv(opens)' /\ PassInv(opens)'
      /\ program' \in Seq(Token) /\ Len(program') <= MaxTokens
      /\ at' \in 1..(MaxTokens + 1)
      /\ open' \in Seq(BlockOps \cup CallableOps)
  BY <1>1, StepKeeps
<1>4. TypeOK /\ LocalKeys /\ GlobalKeys /\ SlotsAreDistinct
  BY <1>1 DEF SymbolsInv
<1>5. TypeOK'
  BY <1>1, <1>3, <1>4 DEF TypeOK
<1>6. phase = "classes" <=> ~ (InClass(open) \/ tok.op = "class")
  BY <1>1 DEF Generating
<1>7. scope = <<>>
  <2>1. CASE InClass(open) \/ phase = "classes"
    BY <1>1, <1>6, <2>1 DEF SymbolsInv, ScopeInv
  <2>2. CASE ~ InClass(open) /\ phase = "code"
    <3>1. open = <<>> /\ Mirrors(scope, open) /\ scope \in Seq(Components)
      BY <1>2, <1>6, <2>2 DEF MayFollow, SymbolsInv, ScopeInv, TypeOK
    <3> QED BY <3>1, EmptySeq DEF Mirrors
  <2> QED BY <1>1, <2>1, <2>2
<1>8. ScopeInv(opens)'
  <2>1. Mirrors(<<>>, <<>>)
    BY EmptySeq DEF Mirrors
  <2>2. CASE phase = "classes"
    <3>1. ~ InClass(open')
      BY <1>1, <1>2, <1>6, <2>2, ClassAfter
    <3> QED BY <1>1, <1>7, <2>2, <3>1 DEF ScopeInv
  <2>3. CASE phase = "code"
    <3>1. InClass(open') \/ open' = <<>>
      BY <1>1, <1>2, <1>6, <2>3, ClassAfter
    <3> QED BY <1>1, <1>7, <2>1, <2>3, <3>1 DEF ScopeInv
  <2> QED BY <1>1, <2>2, <2>3
<1>9. LocalKeys'
  <2>1. Len(scope) = 0
    BY <1>7, EmptySeq
  <2> QED BY <1>1, <1>4, <2>1, LocalKeysStay
<1>10. GlobalKeys' /\ SlotsAreDistinct'
  BY <1>1, <1>4 DEF GlobalKeys, SlotsAreDistinct
<1> QED
  BY <1>3, <1>5, <1>8, <1>9, <1>10 DEF SymbolsInv

LEMMA NextPassKeeps ==
    ASSUME NEW opens, SymbolsInv(opens), NextPass
    PROVE  SymbolsInv(opens)'
<1>1. /\ phase \in {"globals", "classes", "code"} /\ at > Len(program) /\ at' = 1
      /\ UNCHANGED <<program, open, scope, subscope, table, num_globals, num_locals, start, refs>>
  BY DEF NextPass
<1>2. /\ phase = "globals" => phase' = "classes"
      /\ phase = "classes" => phase' = "code"
      /\ phase = "code" => phase' = "done"
  BY DEF NextPass
<1>3. /\ TypeOK /\ LocalKeys /\ GlobalKeys /\ SlotsAreDistinct
      /\ ProgramInv(opens) /\ PassInv(opens) /\ ScopeInv(opens)
  BY <1>1 DEF SymbolsInv
<1>4. Len(program) \in Nat
  BY <1>3 DEF TypeOK
<1>5. open = <<>> /\ opens[Len(program)] = <<>> /\ opens[0] = <<>>
  <2>1. at = Len(program) + 1 /\ open = opens[at - 1]
    BY <1>1, <1>3, <1>4 DEF PassInv
  <2>2. at - 1 = Len(program)
    BY <1>4, <2>1
  <2> QED BY <1>1, <1>3, <2>1, <2>2 DEF PassInv, ProgramInv
<1>6. TypeOK'
  <2>1. at' \in 1..(MaxTokens + 1)
    BY <1>1, BoundsAssumption
  <2> QED BY <1>1, <1>2, <1>3, <2>1 DEF TypeOK
<1>7. ProgramInv(opens)'
  BY <1>1, <1>3 DEF ProgramInv
<1>8. PassInv(opens)'
  <2>1. at' \in 1..(Len(program') + 1) /\ at' - 1 = 0 /\ phase' # "parse"
    BY <1>1, <1>2, <1>4
  <2> QED BY <1>1, <1>2, <1>5, <2>1 DEF PassInv
<1>9. ~ InClass(open) /\ Mirrors(<<>>, open)
  BY <1>5, EmptySeq DEF InClass, Mirrors
<1>10. scope = <<>>
  <2>1. Mirrors(scope, open) => scope = <<>>
    <3>1. scope \in Seq(Components)
      BY <1>3 DEF TypeOK
    <3> QED BY <1>5, <3>1, EmptySeq DEF Mirrors
  <2> QED BY <1>1, <1>3, <1>9, <2>1 DEF ScopeInv
<1>11. ScopeInv(opens)'
  BY <1>1, <1>2, <1>5, <1>9, <1>10 DEF ScopeInv
<1>12. LocalKeys' /\ GlobalKeys' /\ SlotsAreDistinct'
  <2>1. LocalKeys'
    BY <1>1, <1>3, <1>5, LocalKeysStay
  <2> QED BY <1>1, <1>3, <2>1 DEF GlobalKeys, SlotsAreDistinct
<1> QED
  BY <1>6, <1>7, <1>8, <1>11, <1>12 DEF SymbolsInv

\* The parameters have the scope of their function, and each its number.
LEMMA ParamsShape ==
    ASSUME NEW s \in Seq(Components), NEW params \in ParamLists
    PROVE  /\ \A k \in DOMAIN Params(s, params) :
                 /\ k \in Seq(Components) /\ k # <<>> /\ Len(k) = Len(s) + 1
                 /\ \A i \in 1..Len(s) : k[i] = s[i]
                 /\ Params(s, params)[k] \in Entry /\ Params(s, params)[k].type = "param"
           /\ \A k1, k2 \in DOMAIN Params(s, params) :
                 Params(s, params)[k1] = Params(s, params)[k2] => k1 = k2
<1> DEFINE P == Params(s, params)
           Number(k) == CHOOSE i \in DOMAIN params : Named(params[i]) = Last(k)
<1>1. params \in Seq(Variables) /\ DOMAIN params = 1..Len(params) /\ Len(params) \in Nat
  BY ParamsAssumption
<1>2. /\ DOMAIN P = {Append(s, Named(p)) : p \in ToSet(params)}
      /\ \A k \in DOMAIN P : P[k] = [type |-> "param", index |-> Number(k) - 1]
  BY DEF Params
<1> HIDE DEF P
<1>3. ASSUME NEW k \in DOMAIN P
      PROVE  /\ k \in Seq(Components) /\ k # <<>> /\ Len(k) = Len(s) + 1
             /\ \A i \in 1..Len(s) : k[i] = s[i]
             /\ k = Append(s, Last(k))
             /\ Number(k) \in 1..Len(params) /\ Named(params[Number(k)]) = Last(k)
  <2>1. PICK i \in DOMAIN params : k = Append(s, Named(params[i]))
    BY <1>2 DEF ToSet
  <2>2. params[i] \in Names
    BY <1>1 DEF Names
  <2>3. Named(params[i]) \in Components
    BY <2>2, NamedType
  <2>4. /\ k \in Seq(Components) /\ k # <<>> /\ Len(k) = Len(s) + 1
        /\ k[Len(s) + 1] = Named(params[i])
        /\ \A j \in 1..Len(s) : k[j] = s[j]
    BY <2>1, <2>3, AppendProperties
  <2>5. Last(k) = Named(params[i])
    BY <2>4 DEF Last
  <2>6. Number(k) \in DOMAIN params /\ Named(params[Number(k)]) = Last(k)
    BY <2>5
  <2> QED BY <1>1, <2>1, <2>4, <2>5, <2>6
<1> HIDE DEF Number
<1>4. \A k \in DOMAIN P : P[k] \in Entry /\ P[k].type = "param" /\ P[k].index = Number(k) - 1
  <2>1. ASSUME NEW k \in DOMAIN P
        PROVE  P[k] \in Entry /\ P[k].type = "param" /\ P[k].index = Number(k) - 1
    <3>1. Number(k) - 1 \in Nat
      BY <1>1, <1>3
    <3>2. P[k] = [type |-> "param", index |-> Number(k) - 1]
      BY <1>2 DEF Number
    <3>3. "param" \in Types
      BY DEF Types
    <3> QED BY <3>1, <3>2, <3>3 DEF Entry
  <2> QED BY <2>1
<1>5. ASSUME NEW k1 \in DOMAIN P, NEW k2 \in DOMAIN P, P[k1] = P[k2]
      PROVE  k1 = k2
  <2>1. Number(k1) \in Nat /\ Number(k2) \in Nat /\ Number(k1) - 1 = Number(k2) - 1
    BY <1>1, <1>3, <1>4, <1>5
  <2>2. Number(k1) = Number(k2)
    BY <2>1
  <2>3. Last(k1) = Last(k2)
    BY <1>3, <2>2
  <2> QED BY <1>3, <2>3
<1> QED
  BY <1>3, <1>4, <1>5 DEF P

LEMMA EnterFunctionKeeps ==
    ASSUME NEW opens, SymbolsInv(opens), EnterFunction
    PROVE  SymbolsInv(opens)'
<1> DEFINE inner == Append(scope, Named(tok.name))
           P == Params(inner, tok.params)
<1>1. Generating /\ tok.op = "function"
  BY DEF EnterFunction
<1>2. CASE ~ IsInjective(tok.params) \/ DOMAIN P \cap DOMAIN table # {}
  BY <1>2, FailKeeps DEF EnterFunction
<1>3. CASE IsInjective(tok.params) /\ DOMAIN P \cap DOMAIN table = {}
  <2>1. /\ scope' = inner /\ subscope' = <<>> /\ table' = With(P)
        /\ num_locals' = (IF tok.name = "string" THEN 2 ELSE 1)
        /\ start' = at /\ phase' = "locals" /\ at' = at + 1 /\ open' = OpenAfter(open, tok)
        /\ UNCHANGED <<program, num_globals, refs>>
    BY <1>3 DEF EnterFunction
  <2>2. /\ scope \in Seq(Components) /\ Mirrors(scope, open) /\ Len(scope) = Len(open)
        /\ phase \in {"classes", "code"} /\ Running
    BY <1>1, GeneratingScope
  <2>3. /\ tok \in Token /\ WellNested(open) /\ MayFollow(open, tok) /\ at \in 1..MaxTokens
        /\ WellNested(OpenAfter(open, tok)) /\ opens[at] = OpenAfter(open, tok)
    BY <2>2, Context
  <2>4. /\ ProgramInv(opens)' /\ PassInv(opens)'
        /\ program' \in Seq(Token) /\ Len(program') <= MaxTokens
        /\ at' \in 1..(MaxTokens + 1)
        /\ open' \in Seq(BlockOps \cup CallableOps)
    BY <2>1, <2>2, StepKeeps
  <2>5. /\ TypeOK /\ LocalKeys /\ GlobalKeys /\ SlotsAreDistinct
    BY <2>2 DEF SymbolsInv
  <2>6. tok.name \in Names /\ tok.params \in ParamLists
    BY <1>1, <2>3, TokenFields DEF CallableOps
  <2>7. /\ inner \in Seq(Components) /\ Len(inner) = Len(scope) + 1
        /\ Len(scope) \in Nat
    BY <2>2, <2>6, NamedType, AppendProperties
  <2>8. open' = Append(open, "function") /\ "function" \in CallableOps
    BY <1>1, <2>1, <2>3, OpenAfterCases DEF CallableOps
  <2>9. /\ Mirrors(inner, open')
        /\ Len(open') = Len(inner) /\ open'[Len(inner)] = "function"
    <3>1. Mirrors(inner, open')
      BY <2>2, <2>3, <2>6, <2>8, MirrorsCallable
    <3>2. open \in Seq(BlockOps \cup CallableOps) /\ "function" \in BlockOps \cup CallableOps
      BY <2>3, <2>8 DEF WellNested
    <3>3. open'[Len(open) + 1] = "function"
      BY <2>8, <3>2, AppendProperties
    <3> QED BY <2>2, <2>7, <3>1, <3>3 DEF Mirrors
  <2>10. NoLocals
    <3>1. \A f \in 1..Len(open) : open[f] # "function"
      <4>1. open \in Seq(BlockOps \cup CallableOps) /\ Len(open) \in Nat
        BY <2>3 DEF WellNested
      <4>2. CASE open = <<>>
        BY <4>2, EmptySeq
      <4>3. CASE Last(open) = "class" /\ open # <<>>
        <5>1. Len(open) \in 1..Len(open) /\ open[Len(open)] = "class"
          BY <4>1, <4>3, EmptySeq DEF Last
        <5>2. Len(open) = 1 /\ open[1] = "class"
          BY <2>3, <5>1 DEF WellNested
        <5> QED BY <5>2
      <4> QED BY <1>1, <2>3, <4>2, <4>3 DEF MayFollow
    <3> QED BY <2>5, <3>1, NoLocalsOutside
  <2>11. /\ \A k \in DOMAIN P :
                /\ k \in Seq(Components) /\ k # <<>> /\ Len(k) = Len(inner) + 1
                /\ \A i \in 1..Len(inner) : k[i] = inner[i]
                /\ P[k] \in Entry /\ P[k].type = "param"
         /\ \A k1, k2 \in DOMAIN P : P[k1] = P[k2] => k1 = k2
    BY <2>6, <2>7, ParamsShape
  <2>12. /\ DOMAIN table' = DOMAIN P \cup DOMAIN table
         /\ \A k \in DOMAIN P : table'[k] = P[k]
         /\ \A k \in DOMAIN table : table'[k] = table[k]
    BY <1>3, <2>1 DEF With
  <2> HIDE DEF inner, P
  <2>13. TypeOK'
    <3>1. \A k \in DOMAIN table' : k \in Seq(Components) /\ k # <<>> /\ table'[k] \in Entry
      BY <2>5, <2>11, <2>12 DEF TypeOK
    <3>2. num_locals' \in Nat /\ start' \in 0..MaxTokens /\ subscope' \in Seq(Components)
      BY <2>1, <2>3, EmptySeq, BoundsAssumption
    <3> QED BY <2>1, <2>4, <2>5, <2>7, <3>1, <3>2 DEF TypeOK
  <2>14. ScopeInv(opens)'
    <3>1. start' \in 1..(at' - 1) /\ num_locals' >= 1
      BY <2>1, <2>3
    <3>2. inner # <<>> /\ inner \o <<>> = inner
      BY <2>7, EmptySeq, ConcatEmptySeq
    <3>3. SubSeq(open', 1, Len(inner)) = open'
      BY <2>4, <2>9, SubSeqFull
    <3>4. opens[start'] = open' /\ Last(open') = "function"
      BY <2>1, <2>3, <2>9 DEF Last
    <3> QED BY <2>1, <2>9, <3>1, <3>2, <3>3, <3>4 DEF ScopeInv
  <2>15. LocalKeys'
    <3>1. ASSUME NEW k \in DOMAIN table', table'[k].type \in {"local", "param"}
          PROVE  \E f \in 1..Len(open') :
                     /\ open'[f] = "function"
                     /\ f <= Len(scope') /\ f < Len(k)
                     /\ \A i \in 1..f : k[i] = scope'[i]
      <4>1. k \in DOMAIN P
        BY <2>10, <2>12, <3>1 DEF NoLocals
      <4>2. Len(k) = Len(inner) + 1 /\ \A i \in 1..Len(inner) : k[i] = inner[i]
        BY <2>11, <4>1
      <4>3. Len(inner) \in 1..Len(open') /\ Len(inner) < Len(k)
        BY <2>7, <2>9, <4>2
      <4> QED BY <2>1, <2>7, <2>9, <4>2, <4>3
    <3> QED BY <3>1 DEF LocalKeys
  <2>16. GlobalKeys'
    <3>1. \A k \in DOMAIN P : P[k].type = "param"
      BY <2>11
    <3> QED BY <2>5, <2>12, <3>1 DEF GlobalKeys
  <2>17. SlotsAreDistinct'
    <3>1. \A k \in DOMAIN table : table[k].type # "local" /\ table[k].type # "param"
      BY <2>10 DEF NoLocals
    <3>2. \A k \in DOMAIN P : P[k].type = "param"
      BY <2>11
    <3>3. \A k \in DOMAIN table' : table'[k].type # "local"
      BY <2>12, <3>1, <3>2
    <3>4. \A k \in DOMAIN table' : table'[k].type = "global" =>
              table'[k].index \in 0..(num_globals' - 1)
      BY <2>1, <2>5, <2>12, <3>2 DEF SlotsAreDistinct
    <3>5. ASSUME NEW k1 \in DOMAIN table', NEW k2 \in DOMAIN table', table'[k1] = table'[k2],
                 table'[k1].type \notin CallableOps
          PROVE  k1 = k2
      <4>1. CASE k1 \in DOMAIN P /\ k2 \in DOMAIN P
        BY <2>11, <2>12, <3>5, <4>1
      <4>2. CASE k1 \in DOMAIN table /\ k2 \in DOMAIN table
        BY <2>5, <2>12, <3>5, <4>2 DEF SlotsAreDistinct
      <4>3. CASE k1 \in DOMAIN P /\ k2 \in DOMAIN table
        BY <2>12, <3>1, <3>2, <3>5, <4>3
      <4>4. CASE k1 \in DOMAIN table /\ k2 \in DOMAIN P
        BY <2>12, <3>1, <3>2, <3>5, <4>4
      <4> QED BY <2>12, <4>1, <4>2, <4>3, <4>4
    <3> QED BY <3>3, <3>4, <3>5 DEF SlotsAreDistinct
  <2> QED
    BY <2>4, <2>13, <2>14, <2>15, <2>16, <2>17 DEF SymbolsInv
<1> QED
  BY <1>2, <1>3

LEMMA LocalsDoneKeeps ==
    ASSUME NEW opens, SymbolsInv(opens), LocalsDone
    PROVE  SymbolsInv(opens)'
<1>1. phase = "locals" /\ Running /\ AtFunctionEnd
  BY DEF LocalsDone
<1>2. CASE program[start].name = "string" /\ program[start].params # <<>>
  BY <1>2, FailKeeps DEF LocalsDone
<1>3. CASE ~ (program[start].name = "string" /\ program[start].params # <<>>)
  <2>1. /\ at' = start + 1
        /\ phase' = (IF InClass(open) THEN "classes" ELSE "code")
        /\ UNCHANGED <<program, open, scope, subscope, table, num_globals, num_locals, start, refs>>
    BY <1>3 DEF LocalsDone
  <2>2. /\ WellNested(open) /\ at \in 1..Len(program) /\ Len(program) \in Nat
        /\ at \in 1..MaxTokens
    BY <1>1, Context
  <2>3. /\ scope \in Seq(Components)
        /\ Mirrors(scope \o subscope, open)
        /\ start \in 1..(at - 1)
        /\ Last(open) = "function" => subscope = <<>>
        /\ subscope = <<>> => opens[start] = open
    BY <1>1, <2>2, InFunction
  <2>4. Last(open) = "function"
    BY <1>1 DEF AtFunctionEnd
  <2>5. Mirrors(scope, open) /\ opens[start] = open
    BY <2>3, <2>4, ConcatEmptySeq
  <2>6. /\ TypeOK /\ LocalKeys /\ GlobalKeys /\ SlotsAreDistinct
        /\ ProgramInv(opens) /\ PassInv(opens)
    BY <1>1 DEF SymbolsInv
  <2>7. at' \in 1..(Len(program) + 1) /\ at' - 1 = start /\ at' \in 1..(MaxTokens + 1)
    BY <2>1, <2>2, <2>3, BoundsAssumption
  <2>8. phase' \in {"classes", "code"}
    BY <2>1
  <2>9. TypeOK'
    BY <2>1, <2>6, <2>7, <2>8 DEF TypeOK
  <2>10. ProgramInv(opens)'
    BY <2>1, <2>6 DEF ProgramInv
  <2>11. PassInv(opens)'
    <3>1. opens[Len(program)] = <<>>
      BY <1>1, <2>6 DEF PassInv
    <3> QED BY <2>1, <2>5, <2>7, <2>8, <3>1 DEF PassInv
  <2>12. ScopeInv(opens)'
    <3>1. CASE InClass(open)
      BY <2>1, <2>5, <3>1 DEF ScopeInv
    <3>2. CASE ~ InClass(open)
      BY <2>1, <2>5, <3>2 DEF ScopeInv
    <3> QED BY <3>1, <3>2
  <2>13. LocalKeys' /\ GlobalKeys' /\ SlotsAreDistinct'
    BY <2>1, <2>6 DEF LocalKeys, GlobalKeys, SlotsAreDistinct
  <2> QED
    BY <2>9, <2>10, <2>11, <2>12, <2>13 DEF SymbolsInv
<1> QED
  BY <1>2, <1>3

\* The end of a function: its locals have the scope as a prefix, no global has.
LEMMA LeaveFunctionTable ==
    ASSUME NEW opens, SymbolsInv(opens), LeaveFunction
    PROVE  /\ NoLocals'
           /\ DOMAIN table' \subseteq DOMAIN table
           /\ \A k \in DOMAIN table' : table'[k] = table[k]
           /\ \A k \in DOMAIN table : table[k].type \notin {"local", "param"} => k \in DOMAIN table'
<1>1. Generating /\ AtFunctionEnd /\ table' = Without(KeysIn(scope))
  BY DEF LeaveFunction
<1>2. /\ scope \in Seq(Components) /\ Mirrors(scope, open) /\ Len(scope) = Len(open) /\ Running
      /\ phase \in {"classes", "code"}
  BY <1>1, GeneratingScope
<1>3. WellNested(open) /\ tok \in Token /\ MayFollow(open, tok)
  BY <1>2, Context
<1>4. TypeOK /\ LocalKeys /\ GlobalKeys
  BY <1>2 DEF SymbolsInv
<1>5. /\ DOMAIN table' = DOMAIN table \ KeysIn(scope)
      /\ \A k \in DOMAIN table' : table'[k] = table[k]
  BY <1>1 DEF Without
<1>6. Len(open) \in Nat /\ Len(open) >= 1 /\ open[Len(open)] = "function"
  <2>1. open \in Seq(BlockOps \cup CallableOps) /\ open # <<>>
    BY <1>1, <1>3 DEF WellNested, AtFunctionEnd, MayFollow
  <2> QED BY <1>1, <2>1, EmptySeq DEF AtFunctionEnd, Last
<1>7. ASSUME NEW k \in DOMAIN table, table[k].type \in {"local", "param"}
      PROVE  k \in KeysIn(scope)
  <2>1. PICK f \in 1..Len(open) : /\ open[f] = "function"
                                  /\ f <= Len(scope) /\ f < Len(k)
                                  /\ \A i \in 1..f : k[i] = scope[i]
    BY <1>4, <1>7 DEF LocalKeys
  <2>2. f = Len(open)
    <3>1. Len(open) \in 1..Len(open)
      BY <1>6
    <3> QED BY <1>3, <1>6, <2>1, <3>1 DEF WellNested
  <2>3. k \in Seq(Components) /\ Len(k) \in Nat
    BY <1>4 DEF TypeOK
  <2>4. /\ SubSeq(k, 1, Len(scope)) \in Seq(Components)
        /\ Len(SubSeq(k, 1, Len(scope))) = Len(scope)
        /\ \A i \in 1..Len(scope) : SubSeq(k, 1, Len(scope))[i] = k[i]
    <3>1. \A i \in 1..Len(scope) : i \in 1..Len(k)
      BY <1>2, <1>6, <2>1, <2>2, <2>3
    <3>2. \A i \in 1..Len(scope) : k[i] \in Components
      BY <2>3, <3>1, ElementOfSeq
    <3> QED BY <1>2, <1>6, <3>2, SubSeqProperties
  <2>5. SubSeq(k, 1, Len(scope)) = scope
    <3>1. \A i \in 1..Len(scope) : SubSeq(k, 1, Len(scope))[i] = scope[i]
      BY <1>2, <2>1, <2>2, <2>4
    <3> QED BY <1>2, <2>4, <3>1, SeqEqual
  <2>6. SubSeq(scope, 1, Len(scope)) = scope
    BY <1>2, SubSeqFull
  <2>7. Len(scope) <= Len(k) /\ scope # k
    BY <1>2, <1>6, <2>1, <2>2, <2>3
  <2> QED
    BY <2>5, <2>6, <2>7 DEF KeysIn, IsStrictPrefix, IsPrefix
<1>8. ASSUME NEW k \in DOMAIN table, table[k].type \notin {"local", "param"}, k \in KeysIn(scope)
      PROVE  FALSE
  <2>1. /\ Len(scope) <= Len(k) /\ scope # k
        /\ SubSeq(scope, 1, Len(scope)) = SubSeq(k, 1, Len(scope))
    BY <1>8, SMTT(30) DEF KeysIn, IsStrictPrefix, IsPrefix
  <2>2. SubSeq(scope, 1, Len(scope)) = scope
    BY <1>2, SubSeqFull, SMTT(30)
  <2>3. k \in Seq(Components) /\ Len(k) \in Nat
    BY <1>4, SMTT(30) DEF TypeOK
  <2>4. Len(k) # Len(scope)
    <3>1. SubSeq(k, 1, Len(k)) = k
      BY <2>3, SubSeqFull
    <3> QED BY <2>1, <2>2, <3>1
  <2>5. k[1][1] = "^"
    <3>1. Len(k) # 1
      BY <1>2, <1>6, <2>1, <2>3, <2>4
    <3> QED BY <1>4, <1>8, <3>1 DEF GlobalKeys
  <2>6. k[1] = scope[1]
    <3>1. \A i \in 1..Len(scope) : i \in 1..Len(k)
      BY <1>2, <1>6, <2>1, <2>3
    <3>2. \A i \in 1..Len(scope) : k[i] \in Components
      BY <2>3, <3>1, ElementOfSeq
    <3>3. \A i \in 1..Len(scope) : SubSeq(k, 1, Len(scope))[i] = k[i]
      BY <1>2, <1>6, <3>2, SubSeqProperties
    <3>4. 1 \in 1..Len(scope)
      BY <1>2, <1>6
    <3> QED BY <2>1, <2>2, <3>3, <3>4
  <2>7. scope[1][1] = "name"
    <3>1. 1 \in 1..Len(open) /\ Len(open) \in 1..Len(open)
      BY <1>6
    <3>2. open[1] \in CallableOps
      BY <1>3, <1>6, <3>1 DEF WellNested, CallableOps
    <3> QED BY <1>2, <3>1, <3>2 DEF Mirrors
  <2> QED BY <2>5, <2>6, <2>7
<1> QED
  BY <1>5, <1>7, <1>8 DEF NoLocals

LEMMA LeaveFunctionKeeps ==
    ASSUME NEW opens, SymbolsInv(opens), LeaveFunction
    PROVE  SymbolsInv(opens)'
<1>1. /\ Generating /\ AtFunctionEnd /\ scope' = Front(scope)
      /\ at' = at + 1 /\ open' = OpenAfter(open, tok)
      /\ UNCHANGED <<program, phase, subscope, num_globals, num_locals, start, refs>>
  BY DEF LeaveFunction, Step
<1>2. /\ scope \in Seq(Components) /\ Mirrors(scope, open) /\ Len(scope) = Len(open) /\ Running
      /\ phase \in {"classes", "code"}
  BY <1>1, GeneratingScope
<1>3. /\ WellNested(open) /\ tok \in Token /\ MayFollow(open, tok) /\ at \in 1..MaxTokens
      /\ tok.op = "end"
  BY <1>1, <1>2, Context DEF AtFunctionEnd
<1>4. /\ ProgramInv(opens)' /\ PassInv(opens)'
      /\ program' \in Seq(Token) /\ Len(program') <= MaxTokens
      /\ at' \in 1..(MaxTokens + 1)
      /\ open' \in Seq(BlockOps \cup CallableOps)
  BY <1>1, <1>2, StepKeeps
<1>5. scope' = ScopeAfter(scope, tok)
  BY <1>1, <1>3, ScopeAfterCases
<1>6. scope' \in Seq(Components) /\ Mirrors(scope', open')
  <2>1. scope # <<>>
    <3>1. open \in Seq(BlockOps \cup CallableOps) /\ open # <<>>
      BY <1>3 DEF WellNested, MayFollow
    <3> QED BY <1>2, <3>1, EmptySeq
  <2>2. tok.op \notin CallableOps
    BY <1>3 DEF CallableOps
  <2> QED BY <1>1, <1>2, <1>3, <1>5, <2>1, <2>2, ScopeAfterType, MirrorsAfter
<1>7. ScopeInv(opens)'
  BY <1>1, <1>6, GenerateScope
<1>8. /\ TypeOK /\ LocalKeys /\ GlobalKeys /\ SlotsAreDistinct
  BY <1>2 DEF SymbolsInv
<1>9. /\ NoLocals' /\ DOMAIN table' \subseteq DOMAIN table
      /\ \A k \in DOMAIN table' : table'[k] = table[k]
  BY LeaveFunctionTable
<1>10. TypeOK'
  <2>1. \A k \in DOMAIN table' : k \in Seq(Components) /\ k # <<>> /\ table'[k] \in Entry
    BY <1>8, <1>9 DEF TypeOK
  <2> QED BY <1>1, <1>4, <1>6, <1>8, <2>1 DEF TypeOK
<1>11. LocalKeys'
  BY <1>9 DEF LocalKeys, NoLocals
<1>12. GlobalKeys'
  BY <1>8, <1>9 DEF GlobalKeys
<1>13. SlotsAreDistinct'
  BY <1>1, <1>8, <1>9 DEF SlotsAreDistinct
<1> QED
  BY <1>4, <1>7, <1>10, <1>11, <1>12, <1>13 DEF SymbolsInv

-----------------------------------------------------------------------------
(* The parser, and the whole.                                               *)

LEMMA AddTokenKeeps ==
    ASSUME NEW opens, SymbolsInv(opens), NEW t \in Token, MayFollow(open, t), AddToken(t)
    PROVE  \E more : SymbolsInv(more)' /\ \A i \in 0..Len(program) : more[i] = opens[i]
<1> DEFINE n == Len(program)
<1>1. /\ phase = "parse" /\ n + 1 + Len(OpenAfter(open, t)) <= MaxTokens
      /\ program' = Append(program, t) /\ open' = OpenAfter(open, t)
      /\ UNCHANGED <<phase, at, scope, subscope, table, num_globals, num_locals, start, refs>>
  BY DEF AddToken
<1>2. /\ TypeOK /\ LocalKeys /\ GlobalKeys /\ SlotsAreDistinct
      /\ ProgramInv(opens) /\ PassInv(opens) /\ ScopeInv(opens)
  BY <1>1 DEF SymbolsInv
<1>3. program \in Seq(Token) /\ n \in Nat
  BY <1>2 DEF TypeOK
<1>4. at = 1 /\ open = opens[n] /\ WellNested(open) /\ WellNested(open')
  <2>1. at = 1 /\ open = opens[n] /\ WellNested(open)
    BY <1>1, <1>2, <1>3 DEF PassInv, ProgramInv
  <2> QED BY <1>1, <2>1, OpenAfterNested
<1>5. /\ program' \in Seq(Token) /\ Len(program') = n + 1
      /\ program'[n + 1] = t /\ \A i \in 1..n : program'[i] = program[i]
  BY <1>1, <1>3, AppendProperties
<1>6. PICK more : /\ DOMAIN more = 0..(n + 1) /\ more[n + 1] = open'
                  /\ \A i \in 0..n : more[i] = opens[i]
  <2> DEFINE h == [i \in 0..(n + 1) |-> IF i = n + 1 THEN open' ELSE opens[i]]
  <2>1. /\ DOMAIN h = 0..(n + 1) /\ h[n + 1] = open'
        /\ \A i \in 0..n : h[i] = opens[i]
    BY <1>3
  <2> QED BY <2>1
<1> HIDE DEF n
<1>7. TypeOK'
  <2>1. open' \in Seq(BlockOps \cup CallableOps) /\ Len(open') \in Nat
    BY <1>4 DEF WellNested
  <2>2. Len(program') <= MaxTokens
    BY <1>1, <1>3, <1>5, <2>1, BoundsAssumption
  <2> QED BY <1>1, <1>2, <1>5, <2>1, <2>2 DEF TypeOK
<1>8. ProgramInv(more)'
  <2>1. \A i \in 0..(n + 1) : WellNested(more[i])
    <3>1. \A i \in 0..n : WellNested(opens[i])
      BY <1>2 DEF ProgramInv, n
    <3> QED BY <1>3, <1>4, <1>6, <3>1
  <2>2. ASSUME NEW i \in 1..(n + 1)
        PROVE  MayFollow(more[i - 1], program'[i]) /\ more[i] = OpenAfter(more[i - 1], program'[i])
    <3>1. CASE i = n + 1
      <4>1. i - 1 = n /\ n \in 0..n
        BY <1>3, <3>1
      <4> QED BY <1>1, <1>4, <1>5, <1>6, <3>1, <4>1
    <3>2. CASE i # n + 1
      <4>1. i \in 1..n /\ i \in 0..n /\ i - 1 \in 0..n
        BY <1>3, <3>2
      <4>2. MayFollow(opens[i - 1], program[i]) /\ opens[i] = OpenAfter(opens[i - 1], program[i])
        BY <1>2, <4>1 DEF ProgramInv, n
      <4> QED BY <1>5, <1>6, <4>1, <4>2
    <3> QED BY <3>1, <3>2
  <2>3. more[0] = <<>>
    <3>1. 0 \in 0..n /\ opens[0] = <<>>
      BY <1>2, <1>3 DEF ProgramInv
    <3> QED BY <1>6, <3>1
  <2> QED BY <1>5, <1>6, <2>1, <2>2, <2>3 DEF ProgramInv
<1>9. PassInv(more)'
  BY <1>1, <1>4, <1>5, <1>6 DEF PassInv
<1>10. scope = <<>> /\ ScopeInv(more)'
  BY <1>1, <1>2 DEF ScopeInv
<1>11. LocalKeys' /\ GlobalKeys' /\ SlotsAreDistinct'
  <2>1. Len(scope) = 0
    BY <1>10, EmptySeq
  <2>2. LocalKeys'
    BY <1>1, <1>2, <2>1, LocalKeysStay
  <2> QED BY <1>1, <1>2, <2>2 DEF GlobalKeys, SlotsAreDistinct
<1>12. SymbolsInv(more)'
  BY <1>7, <1>8, <1>9, <1>10, <1>11 DEF SymbolsInv
<1> QED
  BY <1>6, <1>12 DEF n

LEMMA FinishParseKeeps ==
    ASSUME NEW opens, SymbolsInv(opens), FinishParse
    PROVE  SymbolsInv(opens)'
<1>1. /\ phase = "parse" /\ open = <<>> /\ phase' = "globals"
      /\ UNCHANGED <<program, at, open, scope, subscope, table, num_globals, num_locals, start, refs>>
  BY DEF FinishParse
<1>2. /\ TypeOK /\ LocalKeys /\ GlobalKeys /\ SlotsAreDistinct
      /\ ProgramInv(opens) /\ PassInv(opens) /\ ScopeInv(opens)
  BY <1>1 DEF SymbolsInv
<1>3. Len(program) \in Nat
  BY <1>2 DEF TypeOK
<1>4. TypeOK'
  BY <1>1, <1>2 DEF TypeOK
<1>5. ProgramInv(opens)'
  BY <1>1, <1>2 DEF ProgramInv
<1>6. PassInv(opens)'
  <2>1. at = 1 /\ opens[Len(program)] = <<>> /\ opens[0] = <<>>
    BY <1>1, <1>2 DEF PassInv, ProgramInv
  <2>2. at' \in 1..(Len(program') + 1) /\ at' - 1 = 0
    BY <1>1, <1>3, <2>1
  <2> QED BY <1>1, <2>1, <2>2 DEF PassInv
<1>7. ScopeInv(opens)'
  <2>1. scope = <<>> /\ subscope = <<>> /\ Mirrors(<<>>, <<>>)
    BY <1>1, <1>2, EmptySeq DEF ScopeInv, Mirrors
  <2> QED BY <1>1, <2>1 DEF ScopeInv
<1>8. LocalKeys' /\ GlobalKeys' /\ SlotsAreDistinct'
  BY <1>1, <1>2 DEF LocalKeys, GlobalKeys, SlotsAreDistinct
<1> QED
  BY <1>4, <1>5, <1>6, <1>7, <1>8 DEF SymbolsInv

LEMMA InitHolds ==
    ASSUME Init
    PROVE  \E opens : SymbolsInv(opens)
<1> DEFINE opens == [i \in {0} |-> <<>>]
<1>1. /\ program = <<>> /\ phase = "parse" /\ at = 1 /\ open = <<>> /\ scope = <<>>
      /\ subscope = <<>> /\ table = <<>> /\ num_globals = 0 /\ num_locals = 0 /\ start = 0
      /\ refs = {}
  BY DEF Init
<1>2. Len(program) = 0 /\ DOMAIN table = {}
  BY <1>1, EmptySeq
<1>3. TypeOK
  <2>1. at \in 1..(MaxTokens + 1) /\ start \in 0..MaxTokens /\ Len(program) <= MaxTokens
    BY <1>1, <1>2, BoundsAssumption
  <2> QED BY <1>1, <1>2, <2>1, EmptySeq DEF TypeOK
<1>4. DOMAIN opens = 0..0 /\ opens[0] = <<>>
  OBVIOUS
<1> HIDE DEF opens
<1>5. WellNested(<<>>)
  BY EmptySeq DEF WellNested
<1>6. ProgramInv(opens)
  BY <1>2, <1>4, <1>5 DEF ProgramInv
<1>7. PassInv(opens) /\ ScopeInv(opens)
  BY <1>1, <1>2, <1>4 DEF PassInv, ScopeInv
<1>8. LocalKeys /\ GlobalKeys /\ SlotsAreDistinct
  BY <1>2 DEF LocalKeys, GlobalKeys, SlotsAreDistinct
<1> QED
  BY <1>3, <1>6, <1>7, <1>8 DEF SymbolsInv

LEMMA StutterKeeps ==
    ASSUME NEW opens, SymbolsInv(opens), UNCHANGED vars
    PROVE  SymbolsInv(opens)'
<1> USE DEF vars
<1>1. TypeOK' /\ ProgramInv(opens)'
  BY DEF SymbolsInv, TypeOK, ProgramInv
<1>2. PassInv(opens)' /\ ScopeInv(opens)'
  BY DEF SymbolsInv, PassInv, ScopeInv, InCallable, InClass
<1>3. SlotsAreDistinct' /\ (phase' # "failed" => LocalKeys' /\ GlobalKeys')
  BY DEF SymbolsInv, LocalKeys, GlobalKeys, SlotsAreDistinct
<1> QED
  BY <1>1, <1>2, <1>3 DEF SymbolsInv

\* There is a history of the open constructs for which the invariant holds.
Inv == \E opens : SymbolsInv(opens)

LEMMA NextKeeps ==
    ASSUME Inv, [Next]_vars
    PROVE  Inv'
<1>1. PICK opens : SymbolsInv(opens)
  BY DEF Inv
<1>2. CASE ParseStep
  <2>1. CASE FinishParse
    BY <1>1, <2>1, FinishParseKeeps DEF Inv
  <2>2. ASSUME NEW t \in {u \in Token : u.op \in Ops /\ MayFollow(open, u)}, AddToken(t)
        PROVE  Inv'
    BY <1>1, <2>2, AddTokenKeeps DEF Inv
  <2> QED BY <1>2, <2>1, <2>2 DEF ParseStep
<1>3. CASE Populate
  <2>1. SymbolsInv(opens)'
    BY <1>1, <1>3, SkipBodyKeeps, DeclareCallableKeeps, DeclareGlobalKeeps, DeclareLocalKeeps,
       PopulateOtherKeeps DEF Populate
  <2> QED BY <2>1 DEF Inv
<1>4. CASE Generate
  <2>1. SymbolsInv(opens)'
    BY <1>1, <1>4, EnterFunctionKeeps, LocalsDoneKeeps, LeaveFunctionKeeps, EnterClassKeeps,
       UseNameKeeps, SetNameKeeps, BindVariableKeeps, ScopeStmtKeeps, SkipTokenKeeps DEF Generate
  <2> QED BY <2>1 DEF Inv
<1>5. CASE NextPass
  BY <1>1, <1>5, NextPassKeeps DEF Inv
<1>6. CASE UNCHANGED vars
  BY <1>1, <1>6, StutterKeeps DEF Inv
<1> QED
  BY <1>2, <1>3, <1>4, <1>5, <1>6 DEF Next

LEMMA InvHolds == Spec => []Inv
<1>1. Init => Inv
  BY InitHolds DEF Inv
<1> QED
  BY <1>1, NextKeeps, PTL DEF Spec

-----------------------------------------------------------------------------
(* Theorems.                                                                *)

\* Every variable of the symbol table's users holds a value of its type; with it,
\* no scope is left that was not entered, and only what was found is referred to.
THEOREM SymbolsTypeOKHolds == Spec => []TypeOK
<1>1. Inv => TypeOK
  BY DEF Inv, SymbolsInv
<1> QED
  BY <1>1, InvHolds, PTL

\* Two variables that are alive together have different places, whatever the
\* blocks, loops and functions they are declared in.
THEOREM SlotsAreDistinctHolds == Spec => []SlotsAreDistinct
<1>1. Inv => SlotsAreDistinct
  BY DEF Inv, SymbolsInv
<1> QED
  BY <1>1, InvHolds, PTL

\* leave_scope removes all that a function declared: outside of functions the
\* table holds globals only.
THEOREM LocalsAreForgottenHolds == Spec => []LocalsAreForgotten
<1>1. ASSUME Inv
      PROVE  LocalsAreForgotten
  <2>1. PICK opens : SymbolsInv(opens)
    BY <1>1 DEF Inv
  <2>2. ASSUME phase \in {"globals", "classes", "code", "done"}, ~ Contains(open, "function")
        PROVE  \A k \in DOMAIN table : table[k].type \notin {"local", "param"}
    <3>1. LocalKeys
      BY <2>1, <2>2 DEF SymbolsInv
    <3>2. \A f \in 1..Len(open) : open[f] # "function"
      BY <2>2 DEF Contains
    <3> QED BY <3>1, <3>2, NoLocalsOutside DEF NoLocals
  <2> QED BY <2>2 DEF LocalsAreForgotten
<1> QED
  BY <1>1, InvHolds, PTL

\* leave_scope removes nothing else, and nothing changes the entry of a global.
THEOREM GlobalsArePermanentHolds == Spec => GlobalsArePermanent
<1> DEFINE Stays == \A k \in DOMAIN table : table[k].type \notin {"local", "param"} =>
                        k \in DOMAIN table' /\ table'[k] = table[k]
<1>1. ASSUME Inv, [Next]_vars
      PROVE  [Stays]_vars
  <2>1. PICK opens : SymbolsInv(opens)
    BY <1>1 DEF Inv
  <2>2. CASE UNCHANGED table
    BY <2>2
  <2>3. CASE LeaveFunction
    BY <2>1, <2>3, LeaveFunctionTable
  <2>4. ASSUME NEW key, NEW e, Adds(key, e)
        PROVE  Stays
    BY <2>4, AddEntry
  <2>5. CASE DeclareCallable
    <3> DEFINE key == <<Named(tok.name)>>
               e == [type |-> tok.op, index |-> 0]
    <3>1. Fail \/ Adds(key, e)
      BY <2>5 DEF DeclareCallable, Adds
    <3> QED BY <2>2, <2>4, <3>1 DEF Fail
  <2>6. CASE DeclareGlobal
    <3> DEFINE e == [type |-> "global", index |-> num_globals]
    <3>1. Fail \/ Adds(VariableKey, e)
      BY <2>6 DEF DeclareGlobal, Adds
    <3> QED BY <2>2, <2>4, <3>1 DEF Fail
  <2>7. CASE DeclareLocal
    <3> DEFINE e == [type |-> "local", index |-> num_locals]
    <3>1. Fail \/ Adds(VariableKey, e)
      BY <2>7 DEF DeclareLocal, Adds
    <3> QED BY <2>2, <2>4, <3>1 DEF Fail
  <2>8. CASE EnterFunction
    <3> DEFINE P == Params(Append(scope, Named(tok.name)), tok.params)
    <3>1. Fail \/ (DOMAIN P \cap DOMAIN table = {} /\ table' = With(P))
      BY <2>8 DEF EnterFunction
    <3> HIDE DEF P
    <3>2. ASSUME DOMAIN P \cap DOMAIN table = {}, table' = With(P)
          PROVE  Stays
      BY <3>2 DEF With
    <3> QED BY <2>2, <3>1, <3>2 DEF Fail
  <2>9. CASE SkipBody \/ PopulateOther
    BY <2>2, <2>9 DEF SkipBody, PopulateOther
  <2>10. CASE LocalsDone \/ EnterClass \/ ScopeStmt \/ SkipToken
    BY <2>2, <2>10 DEF LocalsDone, EnterClass, ScopeStmt, SkipToken, Fail
  <2>11. CASE UseName \/ SetName \/ BindVariable
    BY <2>2, <2>11 DEF UseName, SetName, BindVariable, Fail
  <2>12. CASE ParseStep \/ NextPass
    BY <2>2, <2>12 DEF ParseStep, FinishParse, AddToken, NextPass
  <2>13. CASE UNCHANGED vars
    BY <2>13
  <2> QED
    BY <1>1, <2>3, <2>5, <2>6, <2>7, <2>8, <2>9, <2>10, <2>11, <2>12, <2>13
       DEF Next, Populate, Generate
<1> QED
  BY <1>1, InvHolds, PTL DEF Spec, GlobalsArePermanent

-----------------------------------------------------------------------------
(* The tree of a program: the constructs around each place between two      *)
(* tokens, outermost first, each as the token that opens it.                *)

Opens(op) == op \in {"block", "for", "if", "function", "class"}

PlacesAfter(p, i, op) ==
    CASE op = "end"  -> Front(p)
      [] op = "else" -> Append(Front(p), i)
      [] Opens(op)   -> Append(p, i)
      [] OTHER       -> p

Kinds(prog, p) == [n \in 1..Len(p) |-> prog[p[n]].op]

Tree(prog, places) ==
    /\ prog \in Seq(Token) /\ Len(prog) <= MaxTokens
    /\ DOMAIN places = 0..Len(prog)
    /\ places[0] = <<>>
    /\ \A i \in 1..Len(prog) :
          /\ places[i] = PlacesAfter(places[i - 1], i, prog[i].op)
          /\ MayFollow(Kinds(prog, places[i - 1]), prog[i])
    /\ \A i \in 0..Len(prog) :
          /\ places[i] \in Seq(1..i)
          /\ WellNested(Kinds(prog, places[i]))
          /\ \A n \in 1..Len(places[i]) : places[places[i][n]] = SubSeq(places[i], 1, n)

\* The innermost construct, and the function, of some nested constructs; 0 if none.
Inner(p) == IF p = <<>> THEN 0 ELSE p[Len(p)]
Fun(prog, p) ==
    IF \E n \in 1..Len(p) : prog[p[n]].op = "function"
    THEN p[CHOOSE n \in 1..Len(p) : prog[p[n]].op = "function"] ELSE 0

Within(prog, p) == \E n \in 1..Len(p) : prog[p[n]].op \in CallableOps

\* The scope that they make, and the key of a name in one of them.
Part(prog, j) == IF prog[j].op \in CallableOps THEN Named(prog[j].name) ELSE Block(j)
Path(prog, p) == [n \in 1..Len(p) |-> Part(prog, p[n])]
KeyIn(prog, places, j, name) == Append(Path(prog, places[j]), Named(name))

\* Token d declares a name in the construct j.
Declares(prog, places, j, name, d) ==
    \/ prog[d].op = "var" /\ prog[d].name = name /\ Inner(places[d - 1]) = j
    \/ prog[d].op = "for" /\ prog[d].name = name /\ d = j
    \/ prog[d].op = "function" /\ Contains(prog[d].params, name) /\ d = j
    \/ prog[d].op \in CallableOps /\ prog[d].name = name /\ places[d - 1] = <<>> /\ j = 0

Declarers(prog, places, j, name) == {d \in 1..Len(prog) : Declares(prog, places, j, name, d)}

IsVar(prog, d) == prog[d].op \in {"var", "for"}

\* The variables of a function, or the globals, among the tokens before d.
VarsOf(prog, places, f, d) ==
    {k \in 1..(d - 1) : IsVar(prog, k) /\ Fun(prog, places[k - 1]) = f}
First(prog, f) == IF f = 0 THEN 0 ELSE IF prog[f].name = "string" THEN 2 ELSE 1

VarEntry(prog, places, d) ==
    LET f == Fun(prog, places[d - 1])
    IN  [type |-> IF f = 0 THEN "global" ELSE "local",
         index |-> First(prog, f) + Cardinality(VarsOf(prog, places, f, d))]

EntryFor(prog, places, j, name, d) ==
    IF IsVar(prog, d) THEN VarEntry(prog, places, d)
    ELSE IF j = 0 THEN [type |-> prog[d].op, index |-> 0]
    ELSE [type |-> "param",
          index |-> (CHOOSE n \in DOMAIN prog[d].params : prog[d].params[n] = name) - 1]

\* The innermost of some constructs that declares a name.
Finding(prog, places, p, name) ==
    {n \in 0..Len(p) : Declarers(prog, places, IF n = 0 THEN 0 ELSE p[n], name) # {}}
Found(prog, places, p, name) ==
    LET n == Max(Finding(prog, places, p, name)) IN IF n = 0 THEN 0 ELSE p[n]

\* What surrounds the name of token i when it is looked up.
Looked(prog, places, i) == IF prog[i].op = "for" THEN places[i] ELSE places[i - 1]

MeaningAt(prog, places, i) ==
    LET name == prog[i].name
        j == Found(prog, places, Looked(prog, places, i), name)
        d == CHOOSE k \in Declarers(prog, places, j, name) : TRUE
    IN  EntryFor(prog, places, j, name, d)

\* The declarations of a construct are unique.
Unique(prog, places, j) ==
    \A name \in Names, d1, d2 \in 1..Len(prog) :
        Declares(prog, places, j, name, d1) /\ Declares(prog, places, j, name, d2) => d1 = d2

\* A token is as the compiler wants it.
GoodToken(prog, places, i) ==
    /\ prog[i].op \in {"use", "set"} => Finding(prog, places, places[i - 1], prog[i].name) # {}
    /\ prog[i].op = "set" => MeaningAt(prog, places, i).type \notin CallableOps
    /\ prog[i].op = "function" =>
          /\ IsInjective(prog[i].params)
          /\ prog[i].name = "string" => prog[i].params = <<>>

GoodProgram(prog, places) ==
    /\ \A j \in 0..Len(prog) : Unique(prog, places, j)
    /\ \A i \in 1..Len(prog) : GoodToken(prog, places, i)

-----------------------------------------------------------------------------
(* The table.                                                               *)

\* Construct j is global, or in the function f.
Live(prog, places, f, j) ==
    ~ Within(prog, places[j]) \/ (f # 0 /\ Fun(prog, places[j]) = f)

\* The table tab has the declarations among the tokens R, of the globals and of
\* the function f.
Holds(prog, places, tab, f, R) ==
    /\ \A k \in DOMAIN tab :
          \E j \in 0..Len(prog), name \in Names, d \in R :
              /\ Live(prog, places, f, j) /\ Declares(prog, places, j, name, d)
              /\ k = KeyIn(prog, places, j, name)
    /\ \A j \in 0..Len(prog), name \in Names, d \in R :
          Live(prog, places, f, j) /\ Declares(prog, places, j, name, d) =>
              /\ KeyIn(prog, places, j, name) \in DOMAIN tab
              /\ tab[KeyIn(prog, places, j, name)] = EntryFor(prog, places, j, name, d)
              /\ \A c \in R : Declares(prog, places, j, name, c) => c = d

\* The pass that generates, the function that is open in it, and what has been declared.
OwnPass == phase = "locals" \/ (phase \in {"classes", "code"} /\ (phase = "classes") = InClass(open))
Current(places) == IF OwnPass THEN Fun(program, places[at - 1]) ELSE 0
Declared(places) ==
    CASE phase = "globals" -> 1..(at - 1)
      [] phase = "locals" ->
           {d \in 1..Len(program) : d < at \/ Fun(program, places[d - 1]) # start}
      [] OTHER -> 1..Len(program)

\* The tokens that were generated.
OfClass(prog, places, i) ==
    prog[i].op = "class" \/ (places[i - 1] # <<>> /\ prog[places[i - 1][1]].op = "class")
Reached == IF phase = "locals" THEN start ELSE at
Generated(places) ==
    {i \in 1..Len(program) :
        \/ phase = "done"
        \/ phase = "code" /\ (OfClass(program, places, i) \/ i < at)
        \/ phase = "classes" /\ OfClass(program, places, i) /\ i < at
        \/ /\ phase = "locals"
           /\ IF InClass(open) THEN OfClass(program, places, i) /\ i < start
              ELSE OfClass(program, places, i) \/ i < start}

-----------------------------------------------------------------------------
(* The invariant.                                                           *)

PathInv(places) ==
    /\ phase = "globals" =>
          subscope = IF InCallable(open) THEN <<>> ELSE Path(program, places[at - 1])
    /\ phase \in {"classes", "code"} /\ OwnPass => scope = Path(program, places[at - 1])
    /\ phase = "locals" =>
          /\ scope = Path(program, places[start])
          /\ scope \o subscope = Path(program, places[at - 1])
          /\ Inner(places[start]) = start

StartInv(places) ==
    /\ phase # "globals" /\ Current(places) # 0 => start = Current(places)
    /\ phase = "locals" => IsInjective(program[start].params)

NumbersInv(places) ==
    /\ phase = "globals" =>
          num_globals = Cardinality(VarsOf(program, places, 0, at))
    /\ phase = "locals" =>
          num_locals = First(program, start) + Cardinality(VarsOf(program, places, start, at))

GeneratedInv(places) ==
    /\ {r.at : r \in refs} =
          {i \in Generated(places) : program[i].op \in {"use", "set", "var", "for"}}
    /\ \A i \in Generated(places) :
          /\ GoodToken(program, places, i)
          /\ program[i].op = "function" =>
                \A j \in 1..Len(program) : Fun(program, places[j]) = i => Unique(program, places, j)

\* What is referred to can be looked up.
RefersInv(places) ==
    \A r \in refs :
        /\ program[r.at].op \in {"use", "set", "var", "for"}
        /\ program[r.at].op \in {"use", "set"} =>
              Finding(program, places, places[r.at - 1], program[r.at].name) # {}

MeansInv(opens, places) ==
    /\ Tree(program, places)
    /\ \A i \in 0..Len(program) : opens[i] = Kinds(program, places[i])
    /\ phase = "parse" => table = <<>> /\ refs = {} /\ num_globals = 0
    /\ phase \notin {"parse", "failed"} =>
          /\ PathInv(places) /\ StartInv(places) /\ NumbersInv(places)
          /\ Holds(program, places, table, Current(places), Declared(places))
          /\ GeneratedInv(places)
    /\ \A r \in refs : r.at \in 1..Len(program) /\ r.entry = MeaningAt(program, places, r.at)
    /\ RefersInv(places)
    /\ phase = "failed" => ~ GoodProgram(program, places)

-----------------------------------------------------------------------------
(* Facts about trees.                                                       *)

\* A function on 1..n is a sequence.
LEMMA SequenceOfValues ==
    ASSUME NEW S, NEW n \in Nat, NEW s, s \in [1..n -> S]
    PROVE  s \in Seq(S) /\ Len(s) = n
<1>1. s \in Seq(S)
  BY SeqDef
<1>2. Len(s) \in Nat /\ DOMAIN s = 1..Len(s)
  BY <1>1, LenProperties
<1>3. 1..Len(s) = 1..n
  BY <1>2
<1>4. \A a, b \in Nat : 1..a = 1..b => a = b
  <2>1. ASSUME NEW a \in Nat, NEW b \in Nat, 1..a = 1..b, a < b
        PROVE  FALSE
    <3>1. b \in 1..b /\ b \notin 1..a
      BY <2>1
    <3> QED BY <2>1, <3>1
  <2>2. \A a, b \in Nat : a = b \/ a < b \/ b < a
    OBVIOUS
  <2> QED BY <2>1, <2>2
<1> QED
  BY <1>1, <1>2, <1>3, <1>4

\* What a tree says of the constructs around one place.
LEMMA TreeFacts ==
    ASSUME NEW prog, NEW places, Tree(prog, places), NEW i \in 0..Len(prog)
    PROVE  /\ prog \in Seq(Token) /\ Len(prog) \in Nat
           /\ places[i] \in Seq(1..i) /\ Len(places[i]) \in Nat
           /\ places[i] = <<>> <=> Len(places[i]) = 0
           /\ \A n \in 1..Len(places[i]) :
                 places[i][n] \in 1..i /\ places[i][n] \in 1..Len(prog)
           /\ \A n \in 1..Len(places[i]) : prog[places[i][n]] \in Token
<1> DEFINE p == places[i]
<1>1. prog \in Seq(Token) /\ Len(prog) \in Nat
  BY DEF Tree
<1>2. p \in Seq(1..i)
  BY DEF Tree
<1> HIDE DEF p
<1>3. Len(p) \in Nat /\ (p = <<>> <=> Len(p) = 0) /\ \A n \in 1..Len(p) : p[n] \in 1..i
  BY <1>2, EmptySeq, LenProperties, ElementOfSeq
<1>4. \A n \in 1..Len(p) : p[n] \in 1..Len(prog)
  BY <1>1, <1>3
<1>5. \A n \in 1..Len(p) : prog[p[n]] \in Token
  BY <1>1, <1>4, ElementOfSeq
<1> QED
  BY <1>1, <1>2, <1>3, <1>4, <1>5 DEF p

\* Classes stand at the top level, functions there or in a class.
LEMMA TreeKinds ==
    ASSUME NEW prog, NEW places, Tree(prog, places), NEW i \in 0..Len(prog)
    PROVE  /\ \A n \in 1..Len(places[i]) : prog[places[i][n]].op \in BlockOps \cup CallableOps
           /\ \A n \in 1..Len(places[i]) : prog[places[i][n]].op = "class" => n = 1
           /\ \A n \in 1..Len(places[i]) : prog[places[i][n]].op = "function" =>
                 n = 1 \/ (n = 2 /\ prog[places[i][1]].op = "class")
           /\ \A n \in 1..Len(places[i]) :
                 n >= 2 /\ prog[places[i][1]].op = "class" => prog[places[i][2]].op = "function"
<1> DEFINE p == places[i]
           k == Kinds(prog, p)
<1>1. Len(p) \in Nat
  BY TreeFacts
<1>2. WellNested(Kinds(prog, p))
  BY DEF Tree
<1> HIDE DEF p
<1>3. /\ k \in Seq(BlockOps \cup CallableOps) /\ Len(k) = Len(p)
      /\ \A n \in 1..Len(p) : k[n] = prog[p[n]].op
  <2>1. k = [n \in 1..Len(p) |-> prog[p[n]].op]
    BY DEF Kinds
  <2>2. k \in Seq(BlockOps \cup CallableOps)
    BY <1>2 DEF WellNested
  <2>3. DOMAIN k = 1..Len(k) /\ Len(k) \in Nat
    BY <2>2, LenProperties
  <2>4. Len(k) = Len(p)
    <3>1. k \in [1..Len(k) -> BlockOps \cup CallableOps]
      BY <2>2, LenProperties
    <3>2. k \in [1..Len(p) -> BlockOps \cup CallableOps]
      <4>1. 1..Len(p) = 1..Len(k)
        BY <2>1, <2>3
      <4> HIDE DEF k
      <4> QED BY <3>1, <4>1
    <3> HIDE DEF k
    <3> QED BY <1>1, <3>2, SequenceOfValues
  <2> QED BY <2>1, <2>2, <2>4
<1>4. \A n \in 1..Len(p) : k[n] \in BlockOps \cup CallableOps
  BY <1>3, ElementOfSeq
<1>5. \A n \in 1..Len(p) : 1 \in 1..Len(p) /\ (n >= 2 => 2 \in 1..Len(p) /\ Len(p) >= 2)
  BY <1>1
<1>6. /\ \A n \in 1..Len(p) :
            /\ k[n] = "class" => n = 1
            /\ k[n] = "function" => n = 1 \/ (n = 2 /\ k[1] = "class")
      /\ Len(p) >= 2 /\ k[1] = "class" => k[2] = "function"
  BY <1>2, <1>3 DEF WellNested
<1> HIDE DEF k
<1> QED
  BY <1>3, <1>4, <1>5, <1>6 DEF p

LEMMA TreePrefix ==
    ASSUME NEW prog, NEW places, Tree(prog, places), NEW i \in 0..Len(prog),
           NEW n \in 1..Len(places[i])
    PROVE  /\ places[i][n] \in 0..Len(prog)
           /\ Len(places[places[i][n]]) = n
           /\ \A m \in 1..n : m \in 1..Len(places[i]) /\ places[places[i][n]][m] = places[i][m]
           /\ \A m \in 1..n : places[i][m] <= places[i][n]
           /\ \A m \in 1..Len(places[i]) : places[i][m] = places[i][n] => m = n
<1> DEFINE p == places[i]
<1>1. /\ p \in Seq(1..i) /\ Len(p) \in Nat
      /\ \A m \in 1..Len(p) : p[m] \in 1..i /\ p[m] \in 1..Len(prog)
      /\ \A m \in 1..Len(p) : places[p[m]] = SubSeq(p, 1, m)
      /\ Len(prog) \in Nat
  <2>1. p \in Seq(1..i) /\ Len(p) \in Nat /\ Len(prog) \in Nat
    BY TreeFacts
  <2>2. \A m \in 1..Len(p) : p[m] \in 1..i /\ p[m] \in 1..Len(prog)
    BY TreeFacts
  <2>3. \A m \in 1..Len(p) : places[p[m]] = SubSeq(p, 1, m)
    BY DEF Tree
  <2> QED BY <2>1, <2>2, <2>3
<1> HIDE DEF p
<1>2. n \in 1..Len(p)
  BY DEF p
<1>3. \A m \in 1..Len(p) : /\ Len(places[p[m]]) = m
                           /\ \A l \in 1..m : places[p[m]][l] = p[l]
  <2>1. ASSUME NEW m \in 1..Len(p)
        PROVE  Len(SubSeq(p, 1, m)) = m /\ \A l \in 1..m : SubSeq(p, 1, m)[l] = p[l]
    <3>1. m \in Int /\ 1 <= m /\ \A l \in 1..m : p[l] \in 1..i
      BY <1>1
    <3>2. /\ Len(SubSeq(p, 1, m)) = IF 1 <= m THEN m - 1 + 1 ELSE 0
          /\ \A l \in 1..(m - 1 + 1) : SubSeq(p, 1, m)[l] = p[1 + l - 1]
      BY ONLY <3>1, SubSeqProperties
    <3>3. \A l \in 1..m : l \in 1..(m - 1 + 1) /\ 1 + l - 1 = l
      BY <3>1
    <3> QED BY <3>1, <3>2, <3>3
  <2> QED BY <1>1, <2>1
<1>4. \A m \in 1..n : m \in 1..Len(p)
  BY <1>1, <1>2
<1>5. p[n] \in 0..Len(prog) /\ p[n] \in 1..Len(prog)
  BY <1>1, <1>2
<1>6. ASSUME NEW m \in 1..n
      PROVE  p[m] <= p[n]
  <2>1. p[n] \in 0..Len(prog) /\ m \in 1..Len(places[p[n]])
    BY <1>2, <1>3, <1>5
  <2>2. places[p[n]][m] \in 1..p[n]
    BY <2>1, TreeFacts
  <2>3. places[p[n]][m] = p[m]
    BY <1>2, <1>3
  <2> QED BY <1>5, <2>2, <2>3
<1> QED
  BY <1>2, <1>3, <1>4, <1>5, <1>6 DEF p

\* The innermost construct has the same constructs around it and itself.
LEMMA TreeInner ==
    ASSUME NEW prog, NEW places, Tree(prog, places), NEW i \in 0..Len(prog)
    PROVE  /\ Inner(places[i]) \in 0..Len(prog) /\ Inner(places[i]) <= i
           /\ places[Inner(places[i])] = places[i]
           /\ places[i] = <<>> <=> Inner(places[i]) = 0
           /\ places[i] # <<>> =>
                /\ Len(places[i]) \in 1..Len(places[i])
                /\ Inner(places[i]) = places[i][Len(places[i])] /\ Inner(places[i]) \in 1..i
<1>1. /\ places[i] \in Seq(1..i) /\ Len(places[i]) \in Nat
      /\ places[i] = <<>> <=> Len(places[i]) = 0
      /\ \A m \in 1..Len(places[i]) : places[i][m] \in 1..i /\ places[i][m] \in 1..Len(prog)
      /\ \A m \in 1..Len(places[i]) : places[places[i][m]] = SubSeq(places[i], 1, m)
      /\ Len(prog) \in Nat
  <2>1. places[i] \in Seq(1..i) /\ Len(places[i]) \in Nat /\ Len(prog) \in Nat
    BY TreeFacts
  <2>2. places[i] = <<>> <=> Len(places[i]) = 0
    BY TreeFacts
  <2>3. \A m \in 1..Len(places[i]) : places[i][m] \in 1..i /\ places[i][m] \in 1..Len(prog)
    BY TreeFacts
  <2>4. \A m \in 1..Len(places[i]) : places[places[i][m]] = SubSeq(places[i], 1, m)
    BY DEF Tree
  <2> QED BY <2>1, <2>2, <2>3, <2>4
<1>2. places[0] = <<>>
  BY DEF Tree
<1>3. CASE places[i] = <<>>
  BY <1>1, <1>2, <1>3 DEF Inner
<1>4. CASE places[i] # <<>>
  <2>1. Len(places[i]) \in 1..Len(places[i]) /\ Inner(places[i]) = places[i][Len(places[i])]
    BY <1>1, <1>4 DEF Inner
  <2>2. SubSeq(places[i], 1, Len(places[i])) = places[i]
    BY <1>1, SubSeqFull
  <2> QED BY <1>1, <1>4, <2>1, <2>2, SMTT(30)
<1> QED
  BY <1>3, <1>4

\* One token further.
LEMMA TreeStep ==
    ASSUME NEW prog, NEW places, Tree(prog, places), NEW i \in 1..Len(prog)
    PROVE  /\ i \in 0..Len(prog) /\ i - 1 \in 0..Len(prog) /\ prog[i] \in Token
           /\ prog[i].op \in {"use", "set", "var"} => places[i] = places[i - 1]
           /\ prog[i].op \in {"end", "else"} => places[i - 1] # <<>>
           /\ prog[i].op = "end" =>
                 /\ places[i] = Front(places[i - 1])
                 /\ Len(places[i]) = Len(places[i - 1]) - 1
                 /\ \A n \in 1..Len(places[i]) :
                       n \in 1..Len(places[i - 1]) /\ places[i][n] = places[i - 1][n]
           /\ prog[i].op = "else" =>
                 /\ places[i] = Append(Front(places[i - 1]), i)
                 /\ Len(places[i]) = Len(places[i - 1])
                 /\ places[i][Len(places[i])] = i
                 /\ prog[Inner(places[i - 1])].op = "if"
                 /\ \A n \in 1..(Len(places[i]) - 1) :
                       n \in 1..Len(places[i - 1]) /\ places[i][n] = places[i - 1][n]
           /\ Opens(prog[i].op) =>
                 /\ places[i] = Append(places[i - 1], i)
                 /\ Len(places[i]) = Len(places[i - 1]) + 1
                 /\ places[i][Len(places[i])] = i
                 /\ \A n \in 1..Len(places[i - 1]) : places[i][n] = places[i - 1][n]
           /\ prog[i].op = "class" => places[i - 1] = <<>>
           /\ prog[i].op = "function" =>
                 places[i - 1] = <<>> \/ prog[Inner(places[i - 1])].op = "class"
           /\ prog[i].op \in {"set", "var", "block", "for", "if"} =>
                 places[i - 1] = <<>> \/ prog[Inner(places[i - 1])].op # "class"
<1> DEFINE p == places[i - 1]
           k == Kinds(prog, p)
<1>1. i - 1 \in 0..Len(prog) /\ Len(prog) \in Nat /\ prog[i] \in Token /\ i \in Nat
      /\ i \in 0..Len(prog)
  <2>1. prog \in Seq(Token)
    BY DEF Tree
  <2>2. Len(prog) \in Nat
    BY <2>1
  <2> QED BY <2>1, <2>2, ElementOfSeq
<1>2. /\ p \in Seq(1..(i - 1)) /\ Len(p) \in Nat
      /\ p = <<>> <=> Len(p) = 0
  BY <1>1, TreeFacts
<1>3. places[i] = PlacesAfter(p, i, prog[i].op) /\ MayFollow(k, prog[i])
  BY DEF Tree
<1>4. Kinds(prog, p) = [n \in 1..Len(p) |-> prog[p[n]].op]
  BY DEF Kinds
<1>5. /\ k = <<>> <=> p = <<>>
      /\ p # <<>> => Last(k) = prog[Inner(p)].op
  <2>1. k \in Seq(BlockOps \cup CallableOps)
    BY <1>1 DEF Tree, WellNested
  <2>2. Len(k) \in Nat /\ DOMAIN k = 1..Len(k) /\ k \in [1..Len(k) -> BlockOps \cup CallableOps]
    BY <2>1, LenProperties
  <2>3. 1..Len(k) = 1..Len(p)
    BY <1>4, <2>2
  <2>4. Len(k) = Len(p)
    <3>1. k \in [1..Len(p) -> BlockOps \cup CallableOps]
      <4> HIDE DEF k, p
      <4> QED BY <2>2, <2>3
    <3> HIDE DEF k, p
    <3> QED BY <1>2, <3>1, SequenceOfValues
  <2>5. k = <<>> <=> Len(k) = 0
    <3> HIDE DEF k
    <3> QED BY <2>1, EmptySeq
  <2>6. p # <<>> => Len(p) \in 1..Len(p)
    BY <1>2
  <2>7. p # <<>> => k[Len(k)] = prog[p[Len(p)]].op
    BY <1>4, <2>4, <2>6, SMTT(30)
  <2> QED BY <1>2, <2>4, <2>5, <2>7 DEF Last, Inner
<1>6. p \in Seq(Nat) /\ i \in Nat
  <2>1. 1..(i - 1) \subseteq Nat
    BY <1>1, SMTT(30)
  <2> HIDE DEF p
  <2> QED BY <1>1, <1>2, <2>1, SeqMonotonic, SMTT(30)
<1> HIDE DEF p, k
<1>7. CASE prog[i].op \in {"use", "set", "var"}
  BY <1>1, <1>3, <1>5, <1>7 DEF PlacesAfter, Opens, MayFollow, p
<1>8. CASE prog[i].op \in {"end", "else"}
  <2>1. p # <<>>
    BY <1>3, <1>5, <1>8 DEF MayFollow
  <2>2. /\ Front(p) \in Seq(Nat) /\ Len(Front(p)) = Len(p) - 1 /\ Len(p) \in Nat \ {0}
        /\ \A n \in 1..(Len(p) - 1) : Front(p)[n] = p[n]
    BY <1>6, <2>1, FrontProperties
  <2>3. CASE prog[i].op = "end"
    <3>1. places[i] = Front(p)
      BY <1>3, <2>3 DEF PlacesAfter, Opens
    <3>2. \A n \in 1..Len(Front(p)) : n \in 1..(Len(p) - 1) /\ n \in 1..Len(p)
      BY <2>2
    <3>3. \A n \in 1..Len(Front(p)) : Front(p)[n] = p[n]
      BY <2>2, <3>2
    <3>4. prog[i].op = "end" /\ ~ Opens(prog[i].op)
      BY <2>3 DEF Opens
    <3> QED BY <1>1, <2>1, <2>2, <3>1, <3>2, <3>3, <3>4 DEF p
  <2>4. CASE prog[i].op = "else"
    <3>1. places[i] = Append(Front(p), i)
      BY <1>3, <2>4 DEF PlacesAfter, Opens
    <3>2. /\ Len(Append(Front(p), i)) = Len(p)
          /\ Append(Front(p), i)[Len(p)] = i
          /\ \A n \in 1..(Len(p) - 1) : n \in 1..Len(p) /\ Append(Front(p), i)[n] = p[n]
      BY <1>6, <2>2, AppendProperties, SMTT(30)
    <3>3. prog[Inner(p)].op = "if"
      BY <1>3, <1>5, <2>1, <2>4 DEF MayFollow
    <3> QED BY <1>1, <2>1, <2>4, <3>1, <3>2, <3>3 DEF p, Opens
  <2> QED BY <1>8, <2>3, <2>4
<1>9. CASE Opens(prog[i].op)
  <2>1. places[i] = Append(p, i)
    BY <1>3, <1>9 DEF PlacesAfter, Opens
  <2>2. /\ Len(Append(p, i)) = Len(p) + 1
        /\ Append(p, i)[Len(p) + 1] = i
        /\ \A n \in 1..Len(p) : Append(p, i)[n] = p[n]
    BY <1>6, AppendProperties
  <2>3. /\ prog[i].op = "class" => p = <<>>
        /\ prog[i].op = "function" => p = <<>> \/ prog[Inner(p)].op = "class"
        /\ prog[i].op \in {"set", "var", "block", "for", "if"} =>
              p = <<>> \/ prog[Inner(p)].op # "class"
    BY <1>3, <1>5 DEF MayFollow
  <2> QED BY <1>1, <1>9, <2>1, <2>2, <2>3 DEF p, Opens
<1> QED
  BY <1>1, <1>7, <1>8, <1>9, TokenFields DEF BlockOps, CallableOps, Opens

\* The scope of the constructs around a place has a component for each.
LEMMA PathType ==
    ASSUME NEW prog, NEW places, Tree(prog, places), NEW i \in 0..Len(prog)
    PROVE  /\ Path(prog, places[i]) \in Seq(Components)
           /\ Len(Path(prog, places[i])) = Len(places[i])
           /\ \A n \in 1..Len(places[i]) :
                 /\ Path(prog, places[i])[n] = Part(prog, places[i][n])
                 /\ Part(prog, places[i][n]) \in Components
           /\ Path(prog, places[i]) = <<>> <=> places[i] = <<>>
<1> DEFINE p == places[i]
           s == Path(prog, places[i])
<1>1. /\ Len(p) \in Nat
      /\ p = <<>> <=> Len(p) = 0
  BY TreeFacts
<1>2. \A n \in 1..Len(p) : p[n] \in 1..Len(prog) /\ prog[p[n]] \in Token
  BY TreeFacts
<1>3. Len(prog) \in Nat /\ Len(prog) <= MaxTokens /\ MaxTokens \in Nat
  BY BoundsAssumption DEF Tree
<1>4. \A n \in 1..Len(p) : Part(prog, p[n]) \in Components
  <2>1. ASSUME NEW n \in 1..Len(p)
        PROVE  Part(prog, p[n]) \in Components
    <3>1. p[n] \in 1..Len(prog) /\ prog[p[n]] \in Token
      BY <1>2
    <3>2. CASE prog[p[n]].op \in CallableOps
      BY <3>1, <3>2, TokenFields, NamedType DEF Part
    <3>3. CASE prog[p[n]].op \notin CallableOps
      <4>1. Part(prog, p[n]) = <<"^", p[n]>>
        BY <3>3 DEF Part, Block
      <4>2. p[n] \in 1..MaxTokens
        BY <1>3, <3>1
      <4> QED BY <4>1, <4>2 DEF Components
    <3> QED BY <3>2, <3>3
  <2> QED BY <2>1
<1>5. s = [n \in 1..Len(p) |-> Part(prog, p[n])]
  BY DEF Path
<1> HIDE DEF p
<1>6. s \in [1..Len(p) -> Components]
  BY <1>4, <1>5
<1>7. \A n \in 1..Len(p) : s[n] = Part(prog, p[n])
  BY <1>5
<1> HIDE DEF s
<1>8. s \in Seq(Components) /\ Len(s) = Len(p)
  BY <1>1, <1>6, SequenceOfValues
<1>9. s = <<>> <=> p = <<>>
  BY <1>1, <1>8, EmptySeq
<1> QED
  BY <1>4, <1>7, <1>8, <1>9 DEF p, s

\* And it grows and shrinks with them.
LEMMA PathStep ==
    ASSUME NEW prog, NEW places, Tree(prog, places), NEW i \in 1..Len(prog)
    PROVE  /\ prog[i].op = "end" => Path(prog, places[i]) = Front(Path(prog, places[i - 1]))
           /\ prog[i].op = "else" =>
                 Path(prog, places[i]) = Append(Front(Path(prog, places[i - 1])), Block(i))
           /\ Opens(prog[i].op) =>
                 Path(prog, places[i]) = Append(Path(prog, places[i - 1]), Part(prog, i))
<1> DEFINE s == Path(prog, places[i - 1])
           t == Path(prog, places[i])
           p == places[i - 1]
           q == places[i]
<1>1. i \in 0..Len(prog) /\ i - 1 \in 0..Len(prog) /\ prog[i] \in Token
  BY TreeStep
<1>2. /\ s \in Seq(Components) /\ Len(s) = Len(p)
      /\ \A n \in 1..Len(p) : s[n] = Part(prog, p[n])
      /\ s = <<>> <=> p = <<>>
  BY <1>1, PathType, SMTT(30)
<1>3. /\ t \in Seq(Components) /\ Len(t) = Len(q)
      /\ \A n \in 1..Len(q) : t[n] = Part(prog, q[n]) /\ Part(prog, q[n]) \in Components
  BY <1>1, PathType
<1>4. Len(p) \in Nat /\ Len(q) \in Nat
  BY <1>1, TreeFacts
<1> HIDE DEF s, t
<1>5. ASSUME prog[i].op = "end"
      PROVE  t = Front(s)
  <2>1. /\ p # <<>> /\ Len(q) = Len(p) - 1
        /\ \A n \in 1..Len(q) : n \in 1..Len(p) /\ q[n] = p[n]
    BY <1>5, TreeStep
  <2>2. /\ Front(s) \in Seq(Components) /\ Len(Front(s)) = Len(s) - 1
        /\ \A n \in 1..(Len(s) - 1) : Front(s)[n] = s[n]
    BY <1>2, <2>1, FrontProperties
  <2>3. \A n \in 1..Len(t) : t[n] = Front(s)[n]
    BY <1>2, <1>3, <1>4, <2>1, <2>2
  <2> QED BY <1>2, <1>3, <2>1, <2>2, <2>3, SeqEqual, SMTT(30)
<1>6. ASSUME prog[i].op = "else"
      PROVE  t = Append(Front(s), Block(i))
  <2>1. /\ p # <<>> /\ Len(q) = Len(p) /\ q[Len(q)] = i
        /\ \A n \in 1..(Len(q) - 1) : n \in 1..Len(p) /\ q[n] = p[n]
    BY <1>6, TreeStep
  <2>2. /\ Front(s) \in Seq(Components) /\ Len(Front(s)) = Len(s) - 1 /\ Len(s) \in Nat \ {0}
        /\ \A n \in 1..(Len(s) - 1) : Front(s)[n] = s[n]
    BY <1>2, <2>1, FrontProperties
  <2>3. Part(prog, i) = Block(i)
    BY <1>6 DEF Part, CallableOps
  <2>4. Len(q) \in 1..Len(q) /\ t[Len(q)] = Block(i) /\ Block(i) \in Components
    BY <1>2, <1>3, <1>4, <2>1, <2>2, <2>3
  <2>5. /\ Append(Front(s), Block(i)) \in Seq(Components)
        /\ Len(Append(Front(s), Block(i))) = Len(s)
        /\ Append(Front(s), Block(i))[Len(s)] = Block(i)
        /\ \A n \in 1..(Len(s) - 1) : Append(Front(s), Block(i))[n] = s[n]
    BY <2>2, <2>4, AppendProperties, SMTT(30)
  <2>6. \A n \in 1..Len(t) : t[n] = Append(Front(s), Block(i))[n]
    <3>1. \A n \in 1..Len(t) : n = Len(s) \/ n \in 1..(Len(s) - 1)
      BY <1>2, <1>3, <2>1, <2>2
    <3>2. \A n \in 1..(Len(s) - 1) : t[n] = s[n]
      BY <1>2, <1>3, <1>4, <2>1
    <3> QED BY <1>2, <2>1, <2>4, <2>5, <3>1, <3>2
  <2>7. Len(t) = Len(Append(Front(s), Block(i)))
    BY <1>2, <1>3, <2>1, <2>5
  <2> QED BY <1>3, <2>5, <2>6, <2>7, SeqEqual
<1>7. ASSUME Opens(prog[i].op)
      PROVE  t = Append(s, Part(prog, i))
  <2>1. /\ Len(q) = Len(p) + 1 /\ q[Len(q)] = i
        /\ \A n \in 1..Len(p) : q[n] = p[n]
    BY <1>7, TreeStep
  <2>2. Len(q) \in 1..Len(q) /\ t[Len(q)] = Part(prog, i) /\ Part(prog, i) \in Components
    BY <1>3, <1>4, <2>1, SMTT(30)
  <2>3. /\ Append(s, Part(prog, i)) \in Seq(Components)
        /\ Len(Append(s, Part(prog, i))) = Len(s) + 1
        /\ Append(s, Part(prog, i))[Len(s) + 1] = Part(prog, i)
        /\ \A n \in 1..Len(s) : Append(s, Part(prog, i))[n] = s[n]
    BY <1>2, <2>2, AppendProperties
  <2>4. \A n \in 1..Len(t) : t[n] = Append(s, Part(prog, i))[n]
    <3>1. \A n \in 1..Len(t) : n = Len(s) + 1 \/ n \in 1..Len(s)
      BY <1>2, <1>3, <1>4, <2>1
    <3>2. \A n \in 1..Len(s) : n \in 1..Len(q) /\ t[n] = s[n]
      BY <1>2, <1>3, <1>4, <2>1
    <3> QED BY <1>2, <2>1, <2>2, <2>3, <3>1, <3>2
  <2> QED BY <1>2, <1>3, <2>1, <2>3, <2>4, SeqEqual, SMTT(30)
<1> QED
  BY <1>5, <1>6, <1>7 DEF s, t

\* The beginning of a scope is the scope of a construct around.
LEMMA PathPrefix ==
    ASSUME NEW prog, NEW places, Tree(prog, places), NEW i \in 0..Len(prog),
           NEW n \in 0..Len(places[i]), NEW j, j = IF n = 0 THEN 0 ELSE places[i][n]
    PROVE  /\ j \in 0..Len(prog) /\ Len(places[j]) = n
           /\ SubSeq(Path(prog, places[i]), 1, n) = Path(prog, places[j])
<1> DEFINE s == Path(prog, places[i])
           t == Path(prog, places[j])
<1>1. Len(prog) \in Nat /\ Len(places[i]) \in Nat
  BY TreeFacts
<1>2. s \in Seq(Components) /\ Len(s) = Len(places[i])
      /\ \A m \in 1..Len(places[i]) : s[m] = Part(prog, places[i][m])
  BY PathType
<1>3. CASE n = 0
  <2>1. places[0] = <<>> /\ 0 \in 0..Len(prog)
    BY <1>1 DEF Tree
  <2>2. Path(prog, places[0]) = <<>> /\ Len(places[0]) = 0
    BY <2>1, PathType, EmptySeq
  <2>3. SubSeq(s, 1, 0) = <<>>
    BY SubSeqEmpty
  <2> QED BY <1>3, <2>1, <2>2, <2>3
<1>4. CASE n # 0
  <2>1. n \in 1..Len(places[i]) /\ j = places[i][n]
    BY <1>1, <1>4
  <2>2. /\ j \in 0..Len(prog) /\ Len(places[j]) = n
        /\ \A m \in 1..n : m \in 1..Len(places[i]) /\ places[j][m] = places[i][m]
    BY <2>1, TreePrefix
  <2>3. /\ t \in Seq(Components) /\ Len(t) = n
        /\ \A m \in 1..n : t[m] = Part(prog, places[j][m])
    <3>1. j \in 0..Len(prog) /\ Len(places[j]) = n
      BY <2>2
    <3>2. /\ t \in Seq(Components) /\ Len(t) = Len(places[j])
          /\ \A m \in 1..Len(places[j]) : t[m] = Part(prog, places[j][m])
      BY ONLY Tree(prog, places), <3>1, PathType
    <3> QED BY <3>1, <3>2
  <2> HIDE DEF s, t
  <2>4. \A m \in 1..n : s[m] \in Components
    BY <1>2, <2>2, ElementOfSeq
  <2>5. /\ SubSeq(s, 1, n) \in Seq(Components)
        /\ Len(SubSeq(s, 1, n)) = n
        /\ \A m \in 1..n : SubSeq(s, 1, n)[m] = s[m]
    <3>1. n \in Int /\ 1 <= n
      BY <2>1
    <3>2. /\ SubSeq(s, 1, n) \in Seq(Components)
          /\ Len(SubSeq(s, 1, n)) = IF 1 <= n THEN n - 1 + 1 ELSE 0
          /\ \A m \in 1..(n - 1 + 1) : SubSeq(s, 1, n)[m] = s[1 + m - 1]
      BY ONLY <3>1, <2>4, SubSeqProperties
    <3>3. \A m \in 1..n : m \in 1..(n - 1 + 1) /\ 1 + m - 1 = m
      BY <3>1
    <3> QED BY <3>1, <3>2, <3>3
  <2>6. \A m \in 1..n : SubSeq(s, 1, n)[m] = t[m]
    BY <1>2, <2>2, <2>3, <2>5
  <2>7. SubSeq(s, 1, n) = t
    BY <2>3, <2>5, <2>6, SeqEqual
  <2> QED BY <2>2, <2>7 DEF s, t
<1> QED
  BY <1>3, <1>4

\* There is at most one function around a place.
LEMMA FunFacts ==
    ASSUME NEW prog, NEW places, Tree(prog, places), NEW i \in 0..Len(prog)
    PROVE  /\ \A n \in 1..Len(places[i]) :
                 prog[places[i][n]].op = "function" => Fun(prog, places[i]) = places[i][n]
           /\ Fun(prog, places[i]) # 0 =>
                 \E n \in 1..Len(places[i]) :
                     /\ places[i][n] = Fun(prog, places[i])
                     /\ prog[places[i][n]].op = "function"
                     /\ n = 1 \/ (n = 2 /\ prog[places[i][1]].op = "class")
           /\ Fun(prog, places[i]) # 0 =>
                 /\ Fun(prog, places[i]) \in 1..i /\ prog[Fun(prog, places[i])].op = "function"
                 /\ Within(prog, places[i])
           /\ Within(prog, places[i]) <=>
                 (places[i] # <<>> /\ prog[places[i][1]].op \in CallableOps)
           /\ Within(prog, places[i]) /\ Fun(prog, places[i]) = 0 =>
                 Len(places[i]) = 1 /\ prog[places[i][1]].op = "class"
<1> DEFINE p == places[i]
           f == Fun(prog, p)
<1>1. /\ Len(p) \in Nat
      /\ p = <<>> <=> Len(p) = 0
  BY TreeFacts
<1>2. \A n \in 1..Len(p) : p[n] \in 1..i
  BY TreeFacts
<1>3. /\ \A n \in 1..Len(p) : prog[p[n]].op = "class" => n = 1
      /\ \A n \in 1..Len(p) : prog[p[n]].op = "function" =>
             n = 1 \/ (n = 2 /\ prog[p[1]].op = "class")
      /\ \A n \in 1..Len(p) :
             n >= 2 /\ prog[p[1]].op = "class" => prog[p[2]].op = "function"
  BY TreeKinds
<1>4. f = IF \E n \in 1..Len(p) : prog[p[n]].op = "function"
          THEN p[CHOOSE n \in 1..Len(p) : prog[p[n]].op = "function"] ELSE 0
  BY DEF Fun
<1>5. Within(prog, p) <=> \E n \in 1..Len(p) : prog[p[n]].op \in CallableOps
  BY DEF Within
<1> HIDE DEF p, f
<1>6. ASSUME NEW n \in 1..Len(p), prog[p[n]].op = "function"
      PROVE  f = p[n]
  <2> DEFINE c == CHOOSE m \in 1..Len(p) : prog[p[m]].op = "function"
  <2>1. c \in 1..Len(p) /\ prog[p[c]].op = "function"
    BY <1>6
  <2>2. f = p[c]
    BY <1>4, <1>6
  <2> HIDE DEF c
  <2>3. c = n
    <3>1. "function" # "class"
      OBVIOUS
    <3> QED BY <1>1, <1>3, <1>6, <2>1, <3>1
  <2> QED BY <2>2, <2>3
<1>7. f # 0 => \E n \in 1..Len(p) : /\ p[n] = f /\ prog[p[n]].op = "function"
                                    /\ n = 1 \/ (n = 2 /\ prog[p[1]].op = "class")
  BY <1>3, <1>4, <1>6
<1>8. f # 0 => f \in 1..i /\ prog[f].op = "function" /\ Within(prog, p)
  BY <1>2, <1>5, <1>7 DEF CallableOps
<1>9. Within(prog, p) <=> (p # <<>> /\ prog[p[1]].op \in CallableOps)
  BY <1>1, <1>3, <1>5 DEF CallableOps
<1>10. ASSUME Within(prog, p), f = 0
       PROVE  Len(p) = 1 /\ prog[p[1]].op = "class"
  <2>1. p # <<>> /\ prog[p[1]].op \in CallableOps /\ 1 \in 1..Len(p)
    BY <1>1, <1>9, <1>10
  <2>2. \A n \in 1..Len(p) : prog[p[n]].op # "function"
    <3>1. 0 \notin 1..i
      OBVIOUS
    <3> QED BY <1>2, <1>6, <1>10, <3>1
  <2>3. prog[p[1]].op = "class"
    BY <2>1, <2>2 DEF CallableOps
  <2>4. ~ (Len(p) >= 2)
    <3>1. ASSUME Len(p) >= 2
          PROVE  FALSE
      <4>1. Len(p) \in 1..Len(p) /\ 2 \in 1..Len(p)
        BY <1>1, <3>1
      <4> QED BY <1>3, <2>2, <2>3, <3>1, <4>1
    <3> QED BY <3>1
  <2>5. \A n \in Nat : ~ (n >= 2) /\ 1 \in 1..n => n = 1
    OBVIOUS
  <2> QED BY <1>1, <2>1, <2>3, <2>4, <2>5
<1> QED
  BY <1>6, <1>7, <1>8, <1>9, <1>10 DEF p, f

\* A construct that is around has the same function around it, unless it is the
\* class of that function.
LEMMA FunPrefix ==
    ASSUME NEW prog, NEW places, Tree(prog, places), NEW i \in 0..Len(prog),
           NEW n \in 1..Len(places[i]), NEW j, j = places[i][n]
    PROVE  /\ Within(prog, places[j]) <=> Within(prog, places[i])
           /\ prog[j].op # "class" => Fun(prog, places[j]) = Fun(prog, places[i])
           /\ prog[j].op = "class" => Fun(prog, places[j]) = 0 /\ Len(places[j]) = 1
<1>1. /\ j \in 0..Len(prog) /\ Len(places[j]) = n
      /\ \A m \in 1..n : m \in 1..Len(places[i]) /\ places[j][m] = places[i][m]
  BY TreePrefix, SMTT(30)
<1>2. /\ Len(places[i]) \in Nat
      /\ places[i] = <<>> <=> Len(places[i]) = 0
  BY TreeFacts
<1>3. places[j] = <<>> <=> Len(places[j]) = 0
  BY <1>1, TreeFacts
<1>4. 1 \in 1..n /\ n \in 1..n
  OBVIOUS
<1>9. /\ \A m \in 1..n : prog[places[j][m]].op = "function" => Fun(prog, places[j]) = places[j][m]
      /\ Fun(prog, places[j]) # 0 =>
            \E m \in 1..n :
                places[j][m] = Fun(prog, places[j]) /\ prog[places[j][m]].op = "function"
  <2>1. j \in 0..Len(prog)
    BY <1>1
  <2>2. /\ \A m \in 1..Len(places[j]) :
               prog[places[j][m]].op = "function" => Fun(prog, places[j]) = places[j][m]
        /\ Fun(prog, places[j]) # 0 =>
              \E m \in 1..Len(places[j]) :
                  places[j][m] = Fun(prog, places[j]) /\ prog[places[j][m]].op = "function"
    BY ONLY Tree(prog, places), <2>1, FunFacts
  <2> QED BY <1>1, <2>2
<1>5. Within(prog, places[j]) <=> Within(prog, places[i])
  <2>1. Within(prog, places[j]) <=> (places[j] # <<>> /\ prog[places[j][1]].op \in CallableOps)
    BY <1>1, FunFacts
  <2>2. Within(prog, places[i]) <=> (places[i] # <<>> /\ prog[places[i][1]].op \in CallableOps)
    BY FunFacts
  <2>3. places[j][1] = places[i][1]
    BY <1>1, <1>4
  <2>4. places[j] # <<>> /\ places[i] # <<>>
    BY <1>1, <1>2, <1>3
  <2> QED BY <2>1, <2>2, <2>3, <2>4
<1>6. ASSUME Fun(prog, places[j]) # 0
      PROVE  Fun(prog, places[j]) = Fun(prog, places[i]) /\ prog[j].op # "class"
  <2>1. PICK m \in 1..n : /\ places[j][m] = Fun(prog, places[j])
                          /\ prog[places[j][m]].op = "function"
    BY <1>6, <1>9
  <2>2. m \in 1..Len(places[i]) /\ prog[places[i][m]].op = "function"
    BY <1>1, <2>1
  <2>3. Fun(prog, places[i]) = places[i][m]
    BY <2>2, FunFacts
  <2>4. prog[j].op = "class" => n = 1
    BY TreeKinds
  <2>5. prog[j].op # "class"
    <3>1. ASSUME prog[j].op = "class"
          PROVE  FALSE
      <4>1. n = 1 /\ m = n
        BY <2>4, <3>1
      <4> QED BY <2>2, <3>1, <4>1
    <3> QED BY <3>1
  <2> QED BY <1>1, <2>1, <2>3, <2>5
<1>7. ASSUME Fun(prog, places[j]) = 0, Fun(prog, places[i]) # 0
      PROVE  prog[j].op = "class"
  <2>1. PICK m \in 1..Len(places[i]) : /\ places[i][m] = Fun(prog, places[i])
                                       /\ prog[places[i][m]].op = "function"
                                       /\ m = 1 \/ (m = 2 /\ prog[places[i][1]].op = "class")
    BY <1>7, FunFacts, SMTT(30)
  <2>2. ~ (m <= n)
    <3>1. ASSUME m <= n
          PROVE  FALSE
      <4>1. m \in 1..n /\ prog[places[j][m]].op = "function"
        BY <1>1, <2>1, <3>1
      <4>2. m \in 1..Len(places[j])
        BY <1>1, <4>1
      <4>3. Fun(prog, places[j]) = places[j][m]
        BY <1>9, <4>1
      <4>4. places[j][m] \in 1..j
        BY <1>1, <4>2, TreeFacts
      <4> QED BY <1>1, <1>7, <4>3, <4>4
    <3> QED BY <3>1
  <2>3. n = 1 /\ m = 2
    BY <2>1, <2>2
  <2> QED BY <2>1, <2>3
<1>8. prog[j].op = "class" => n = 1
  BY TreeKinds
<1> QED
  BY <1>1, <1>5, <1>6, <1>7, <1>8

\* A token enters or leaves a function only as its first or last.
LEMMA FunStep ==
    ASSUME NEW prog, NEW places, Tree(prog, places), NEW i \in 1..Len(prog)
    PROVE  /\ prog[i].op = "function" =>
                 /\ Fun(prog, places[i]) = i /\ Fun(prog, places[i - 1]) = 0
                 /\ Inner(places[i]) = i
           /\ prog[i].op = "end" /\ prog[Inner(places[i - 1])].op = "function" =>
                 Fun(prog, places[i]) = 0 /\ Fun(prog, places[i - 1]) = Inner(places[i - 1])
           /\ prog[i].op # "function"
              /\ ~ (prog[i].op = "end" /\ prog[Inner(places[i - 1])].op = "function") =>
                 Fun(prog, places[i]) = Fun(prog, places[i - 1])
<1> DEFINE p == places[i - 1]
           q == places[i]
<1>1. i \in 0..Len(prog) /\ i - 1 \in 0..Len(prog) /\ prog[i] \in Token
  BY TreeStep
<1>2. /\ Len(p) \in Nat /\ Len(q) \in Nat
      /\ p = <<>> <=> Len(p) = 0
      /\ q = <<>> <=> Len(q) = 0
  BY <1>1, TreeFacts
<1>3. /\ p # <<>> => Inner(p) = p[Len(p)] /\ Len(p) \in 1..Len(p) /\ Inner(p) \in 1..(i - 1)
      /\ q # <<>> => Inner(q) = q[Len(q)] /\ Len(q) \in 1..Len(q)
  BY <1>1, TreeInner
<1>4. \A n \in 1..Len(p) : prog[p[n]].op = "function" => Fun(prog, p) = p[n]
  BY <1>1, FunFacts, SMTT(30)
<1>5. \A n \in 1..Len(q) : prog[q[n]].op = "function" => Fun(prog, q) = q[n]
  BY <1>1, FunFacts, SMTT(30)
<1>6. Fun(prog, p) # 0 => \E n \in 1..Len(p) : p[n] = Fun(prog, p) /\ prog[p[n]].op = "function"
  BY <1>1, FunFacts
<1>7. Fun(prog, q) # 0 => \E n \in 1..Len(q) : q[n] = Fun(prog, q) /\ prog[q[n]].op = "function"
  BY <1>1, FunFacts, SMTT(30)
<1>8. /\ \A n \in 1..Len(p) : p[n] # 0
      /\ \A n \in 1..Len(q) : q[n] # 0
  <2>1. \A n \in 1..Len(p) : p[n] \in 1..(i - 1)
    BY <1>1, TreeFacts
  <2>2. \A n \in 1..Len(q) : q[n] \in 1..i
    BY <1>1, TreeFacts
  <2> QED BY <2>1, <2>2
<1>9. /\ \A n \in 1..Len(p) : prog[p[n]].op = "class" => n = 1
      /\ \A n \in 1..Len(p) : prog[p[n]].op = "function" =>
             n = 1 \/ (n = 2 /\ prog[p[1]].op = "class")
      /\ \A n \in 1..Len(p) :
             n >= 2 /\ prog[p[1]].op = "class" => prog[p[2]].op = "function"
  BY ONLY Tree(prog, places), <1>1, TreeKinds, SMTT(30)
<1> HIDE DEF p, q
<1>10. CASE prog[i].op = "function"
  <2>1. /\ p = <<>> \/ prog[Inner(p)].op = "class"
        /\ Len(q) = Len(p) + 1 /\ q[Len(q)] = i
    BY <1>10, TreeStep DEF Opens, p, q
  <2>2. Fun(prog, q) = i /\ Inner(q) = i
    BY <1>2, <1>3, <1>5, <1>10, <2>1
  <2>3. \A n \in 1..Len(p) : prog[p[n]].op # "function"
    <3>1. ASSUME p # <<>>
          PROVE  Len(p) = 1 /\ prog[p[1]].op = "class"
      <4>1. prog[p[Len(p)]].op = "class" /\ Len(p) \in 1..Len(p)
        BY <1>3, <2>1, <3>1
      <4> QED BY <1>9, <4>1
    <3>2. (\E n \in 1..Len(p) : TRUE) => p # <<>>
      BY <1>2
    <3>3. \A n \in 1..Len(p) : prog[p[n]].op = "class"
      <4>1. ASSUME NEW n \in 1..Len(p)
            PROVE  prog[p[n]].op = "class"
        <5>1. Len(p) = 1 /\ prog[p[1]].op = "class"
          BY <3>1, <3>2
        <5> QED BY <5>1
      <4> QED BY <4>1
    <3> QED BY <3>3
  <2>4. Fun(prog, p) = 0
    BY <1>6, <2>3
  <2> QED BY <1>10, <2>2, <2>4 DEF p, q
<1>11. CASE prog[i].op = "end" /\ prog[Inner(p)].op = "function"
  <2>1. /\ p # <<>> /\ Len(q) = Len(p) - 1
        /\ \A n \in 1..Len(q) : n \in 1..Len(p) /\ q[n] = p[n]
    BY <1>11, TreeStep DEF p, q
  <2>2. Len(p) \in 1..Len(p) /\ prog[p[Len(p)]].op = "function"
    BY <1>3, <1>11, <2>1
  <2>3. Fun(prog, p) = Inner(p)
    BY <1>3, <1>4, <2>1, <2>2
  <2>4. \A n \in 1..Len(q) : prog[q[n]].op # "function"
    <3>1. ASSUME NEW n \in 1..Len(q), prog[q[n]].op = "function"
          PROVE  FALSE
      <4>1. n \in 1..Len(p) /\ prog[p[n]].op = "function" /\ n < Len(p)
        BY <1>2, <2>1, <3>1, SMTT(30)
      <4> QED BY <1>9, <2>2, <4>1
    <3> QED BY <3>1
  <2>5. Fun(prog, q) = 0
    BY <1>7, <2>4
  <2> QED BY <1>11, <2>3, <2>5 DEF p, q
<1>12. CASE prog[i].op # "function" /\ ~ (prog[i].op = "end" /\ prog[Inner(p)].op = "function")
  <2>1. \A n \in 1..Len(q) : prog[q[n]].op = "function" => n \in 1..Len(p) /\ p[n] = q[n]
    <3>1. CASE prog[i].op \in {"use", "set", "var"}
      BY <3>1, TreeStep DEF p, q
    <3>2. CASE prog[i].op = "end"
      BY <3>2, TreeStep, SMTT(30) DEF p, q
    <3>3. CASE prog[i].op = "else"
      <4>1. /\ Len(q) = Len(p) /\ q[Len(q)] = i
            /\ \A n \in 1..(Len(q) - 1) : n \in 1..Len(p) /\ q[n] = p[n]
        <5>1. Len(q) = Len(p) /\ q[Len(q)] = i
          BY <3>3, TreeStep DEF p, q
        <5>2. \A n \in 1..(Len(q) - 1) : n \in 1..Len(p) /\ q[n] = p[n]
          BY <3>3, TreeStep DEF p, q
        <5> QED BY <5>1, <5>2
      <4>2. \A n \in 1..Len(q) : n = Len(q) \/ n \in 1..(Len(q) - 1)
        BY <1>2
      <4> QED BY <3>3, <4>1, <4>2
    <3>4. CASE Opens(prog[i].op)
      <4>1. /\ Len(q) = Len(p) + 1 /\ q[Len(q)] = i
            /\ \A n \in 1..Len(p) : q[n] = p[n]
        BY <3>4, TreeStep DEF p, q
      <4>2. \A n \in 1..Len(q) : n = Len(q) \/ n \in 1..Len(p)
        BY <1>2, <4>1
      <4> QED BY <1>12, <4>1, <4>2
    <3> QED
      BY <1>1, <3>1, <3>2, <3>3, <3>4, TokenFields DEF BlockOps, CallableOps, Opens
  <2>2. \A n \in 1..Len(p) : prog[p[n]].op = "function" => n \in 1..Len(q) /\ p[n] = q[n]
    <3>1. CASE prog[i].op \in {"use", "set", "var"}
      BY <3>1, TreeStep DEF p, q
    <3>2. CASE prog[i].op \in {"end", "else"}
      <4>1. p # <<>> /\ prog[p[Len(p)]].op # "function"
        <5>1. p # <<>>
          BY <3>2, TreeStep DEF p
        <5>2. prog[i].op = "else" => prog[Inner(p)].op = "if"
          BY TreeStep DEF p
        <5> QED BY <1>3, <1>12, <3>2, <5>1, <5>2
      <4>2. /\ Len(q) >= Len(p) - 1
            /\ \A n \in 1..(Len(p) - 1) : n \in 1..Len(q) /\ q[n] = p[n]
        <5>1. prog[i].op = "end" =>
                /\ Len(q) = Len(p) - 1
                /\ \A n \in 1..Len(q) : q[n] = p[n]
          BY TreeStep DEF p, q
        <5>2. prog[i].op = "else" =>
                /\ Len(q) = Len(p)
                /\ \A n \in 1..(Len(q) - 1) : q[n] = p[n]
          BY TreeStep DEF p, q
        <5> QED BY <1>2, <3>2, <5>1, <5>2
      <4>3. \A n \in 1..Len(p) : n = Len(p) \/ n \in 1..(Len(p) - 1)
        BY <1>2
      <4> QED BY <4>1, <4>2, <4>3
    <3>3. CASE Opens(prog[i].op)
      <4>1. /\ Len(q) = Len(p) + 1
            /\ \A n \in 1..Len(p) : q[n] = p[n]
        BY <3>3, TreeStep DEF p, q
      <4> QED BY <1>2, <4>1
    <3> QED
      BY <1>1, <3>1, <3>2, <3>3, TokenFields DEF BlockOps, CallableOps, Opens
  <2>3. ASSUME Fun(prog, q) # 0
        PROVE  Fun(prog, q) = Fun(prog, p)
    <3>1. PICK n \in 1..Len(q) : q[n] = Fun(prog, q) /\ prog[q[n]].op = "function"
      BY <1>7, <2>3
    <3>2. n \in 1..Len(p) /\ p[n] = q[n]
      BY <2>1, <3>1
    <3> QED BY <1>4, <3>1, <3>2
  <2>4. ASSUME Fun(prog, p) # 0
        PROVE  Fun(prog, q) = Fun(prog, p)
    <3>1. PICK n \in 1..Len(p) : p[n] = Fun(prog, p) /\ prog[p[n]].op = "function"
      BY <1>6, <2>4
    <3>2. n \in 1..Len(q) /\ p[n] = q[n]
      BY <2>2, <3>1
    <3> QED BY <1>5, <3>1, <3>2
  <2>5. Fun(prog, q) = Fun(prog, p)
    BY <2>3, <2>4
  <2> QED BY <1>12, <2>5 DEF p, q
<1> QED
  BY <1>10, <1>11, <1>12 DEF p

-----------------------------------------------------------------------------
(* Keys.                                                                    *)

LEMMA KeyFacts ==
    ASSUME NEW prog, NEW places, Tree(prog, places), NEW j \in 0..Len(prog), NEW name \in Names
    PROVE  /\ KeyIn(prog, places, j, name) \in Seq(Components)
           /\ KeyIn(prog, places, j, name) # <<>>
           /\ Len(KeyIn(prog, places, j, name)) = Len(places[j]) + 1
           /\ \A m \in 1..Len(places[j]) :
                 KeyIn(prog, places, j, name)[m] = Part(prog, places[j][m])
<1>1. /\ Path(prog, places[j]) \in Seq(Components)
      /\ Len(Path(prog, places[j])) = Len(places[j])
      /\ \A n \in 1..Len(places[j]) : Path(prog, places[j])[n] = Part(prog, places[j][n])
  BY PathType
<1>2. Named(name) \in Components
  BY NamedType
<1> QED
  BY <1>1, <1>2, AppendProperties, SMTT(30) DEF KeyIn

LEMMA KeyConcat ==
    ASSUME NEW prog, NEW places, Tree(prog, places), NEW j \in 0..Len(prog), NEW name \in Names
    PROVE  KeyIn(prog, places, j, name) = Path(prog, places[j]) \o <<Named(name)>>
<1>1. Path(prog, places[j]) \in Seq(Components) /\ Named(name) \in Components
  BY PathType, NamedType
<1> QED
  BY <1>1, AppendIsConcat DEF KeyIn

\* A function that is a construct around itself is the function around it.
LEMMA OwnFunction ==
    ASSUME NEW prog, NEW places, Tree(prog, places), NEW j \in 1..Len(prog),
           Inner(places[j]) = j, prog[j].op \in CallableOps, Fun(prog, places[j]) # 0
    PROVE  Fun(prog, places[j]) = j
<1>1. j \in 0..Len(prog) /\ j # 0
  OBVIOUS
<1>2. places[j] # <<>> /\ Len(places[j]) \in 1..Len(places[j]) /\ places[j][Len(places[j])] = j
  BY <1>1, TreeInner
<1>3. CASE prog[j].op = "function"
  <2>1. \A n \in 1..Len(places[j]) :
            prog[places[j][n]].op = "function" => Fun(prog, places[j]) = places[j][n]
    BY <1>1, FunFacts
  <2>2. prog[places[j][Len(places[j])]].op = "function"
    BY <1>2, <1>3
  <2>3. Fun(prog, places[j]) = places[j][Len(places[j])]
    BY <1>2, <2>1, <2>2
  <2> QED BY <1>2, <2>3
<1>4. CASE prog[j].op = "class"
  <2>1. Len(places[j]) = 1
    <3>1. \A n \in 1..Len(places[j]) : prog[places[j][n]].op = "class" => n = 1
      BY <1>1, TreeKinds
    <3> QED BY <1>2, <1>4, <3>1
  <2>2. PICK n \in 1..Len(places[j]) : prog[places[j][n]].op = "function"
    BY <1>1, FunFacts
  <2>3. n = Len(places[j])
    BY <2>1
  <2> QED BY <1>2, <1>4, <2>2, <2>3
<1> QED
  BY <1>3, <1>4 DEF CallableOps

\* What is declared in a construct has a construct, which is no class.
LEMMA DeclaresFacts ==
    ASSUME NEW prog, NEW places, Tree(prog, places), NEW j \in 0..Len(prog), NEW name,
           NEW d \in 1..Len(prog), Declares(prog, places, j, name, d)
    PROVE  /\ Inner(places[j]) = j /\ j <= d
           /\ j # 0 => prog[j].op # "class"
           /\ name \in Names
           /\ prog[d].op \in {"var", "for"} \cup CallableOps
           /\ IsVar(prog, d) =>
                 /\ prog[d].name = name
                 /\ j = IF prog[d].op = "for" THEN d ELSE Inner(places[d - 1])
                 /\ Fun(prog, places[j]) = Fun(prog, places[d - 1])
                 /\ Within(prog, places[j]) <=> Within(prog, places[d - 1])
           /\ ~ IsVar(prog, d) /\ j # 0 =>
                 j = d /\ prog[d].op = "function" /\ Contains(prog[d].params, name)
           /\ ~ IsVar(prog, d) /\ j = 0 =>
                 prog[d].op \in CallableOps /\ prog[d].name = name /\ places[d - 1] = <<>>
<1>1. d \in 0..Len(prog) /\ d - 1 \in 0..Len(prog) /\ prog[d] \in Token /\ d # 0
  BY TreeStep
<1>2. CASE prog[d].op = "var" /\ prog[d].name = name /\ Inner(places[d - 1]) = j
  <2>1. places[j] = places[d - 1] /\ j <= d - 1
    BY <1>1, <1>2, TreeInner
  <2>2. j # 0 => prog[j].op # "class"
    <3>1. places[d - 1] = <<>> \/ prog[Inner(places[d - 1])].op # "class"
      BY <1>2, TreeStep
    <3>2. places[d - 1] = <<>> => Inner(places[d - 1]) = 0
      BY DEF Inner
    <3> QED BY <1>2, <3>1, <3>2
  <2>3. name \in Names
    BY <1>1, <1>2, TokenFields
  <2>4. j <= d
    BY <1>1, <2>1
  <2> QED BY <1>2, <2>1, <2>2, <2>3, <2>4 DEF IsVar
<1>3. CASE prog[d].op = "for" /\ prog[d].name = name /\ d = j
  <2>1. /\ places[d] = Append(places[d - 1], d)
        /\ Len(places[d]) = Len(places[d - 1]) + 1
        /\ places[d][Len(places[d])] = d
        /\ \A n \in 1..Len(places[d - 1]) : places[d][n] = places[d - 1][n]
    BY <1>3, TreeStep DEF Opens
  <2>2. /\ Len(places[d - 1]) \in Nat
        /\ places[d - 1] = <<>> <=> Len(places[d - 1]) = 0
    BY <1>1, TreeFacts
  <2>3. places[d] # <<>>
    <3>1. places[d] = <<>> <=> Len(places[d]) = 0
      BY <1>1, TreeFacts
    <3> QED BY <2>1, <2>2, <3>1
  <2>4. Inner(places[d]) = d
    BY <2>1, <2>3 DEF Inner
  <2>5. Fun(prog, places[d]) = Fun(prog, places[d - 1])
    BY <1>3, FunStep
  <2>6. Within(prog, places[d]) <=> Within(prog, places[d - 1])
    <3>1. Within(prog, places[d]) <=> prog[places[d][1]].op \in CallableOps
      BY <1>1, <2>3, FunFacts
    <3>2. Within(prog, places[d - 1]) <=>
              (places[d - 1] # <<>> /\ prog[places[d - 1][1]].op \in CallableOps)
      BY <1>1, FunFacts
    <3>3. CASE places[d - 1] = <<>>
      <4>1. places[d][1] = d
        BY <2>1, <2>2, <3>3
      <4> QED BY <1>3, <3>1, <3>2, <3>3, <4>1 DEF CallableOps
    <3>4. CASE places[d - 1] # <<>>
      <4>1. places[d][1] = places[d - 1][1]
        BY <2>1, <2>2, <3>4
      <4> QED BY <3>1, <3>2, <3>4, <4>1
    <3> QED BY <3>3, <3>4
  <2>7. name \in Names
    BY <1>1, <1>3, TokenFields
  <2> QED BY <1>3, <2>4, <2>5, <2>6, <2>7 DEF IsVar
<1>4. CASE prog[d].op = "function" /\ Contains(prog[d].params, name) /\ d = j
  <2>1. Inner(places[d]) = d
    BY <1>4, FunStep
  <2>2. name \in Names
    <3>1. prog[d].params \in Seq(Variables)
      BY <1>1, <1>4, TokenFields, ParamsAssumption
    <3>2. PICK n \in 1..Len(prog[d].params) : prog[d].params[n] = name
      BY <1>4 DEF Contains
    <3>3. prog[d].params[n] \in Variables
      BY <3>1, ElementOfSeq
    <3> QED BY <3>2, <3>3 DEF Names
  <2> QED BY <1>1, <1>4, <2>1, <2>2 DEF IsVar, CallableOps
<1>5. CASE /\ prog[d].op \in CallableOps /\ prog[d].name = name
           /\ places[d - 1] = <<>> /\ j = 0
  <2>1. places[0] = <<>>
    BY DEF Tree
  <2>2. Inner(places[j]) = j
    BY <1>5, <2>1 DEF Inner
  <2>3. name \in Names
    BY <1>1, <1>5, TokenFields
  <2> QED BY <1>1, <1>5, <2>2, <2>3 DEF IsVar, CallableOps
<1> QED
  BY <1>2, <1>3, <1>4, <1>5 DEF Declares

\* Constructs that are alive together have different scopes, so that a key says
\* where it belongs.
LEMMA KeyInjective ==
    ASSUME NEW prog, NEW places, Tree(prog, places), NEW f,
           NEW j1 \in 0..Len(prog), NEW j2 \in 0..Len(prog), NEW n1 \in Names, NEW n2 \in Names,
           Live(prog, places, f, j1), Live(prog, places, f, j2),
           Inner(places[j1]) = j1, Inner(places[j2]) = j2,
           KeyIn(prog, places, j1, n1) = KeyIn(prog, places, j2, n2)
    PROVE  j1 = j2 /\ n1 = n2
<1> DEFINE s1 == Path(prog, places[j1])
           s2 == Path(prog, places[j2])
<1>1. /\ s1 \in Seq(Components) /\ Len(s1) = Len(places[j1])
      /\ \A n \in 1..Len(places[j1]) : s1[n] = Part(prog, places[j1][n])
  BY PathType
<1>2. /\ s2 \in Seq(Components) /\ Len(s2) = Len(places[j2])
      /\ \A n \in 1..Len(places[j2]) : s2[n] = Part(prog, places[j2][n])
  BY PathType
<1> HIDE DEF s1, s2
<1>3. s1 = s2 /\ Named(n1) = Named(n2)
  <2>1. Named(n1) \in Components /\ Named(n2) \in Components
    BY NamedType
  <2>2. Append(s1, Named(n1)) = Append(s2, Named(n2))
    BY DEF KeyIn, s1, s2
  <2> QED BY <1>1, <1>2, <2>1, <2>2, AppendInjective
<1>4. n1 = n2
  BY <1>3 DEF Named
<1>5. /\ Len(places[j1]) \in Nat /\ Len(places[j2]) \in Nat
      /\ places[j1] = <<>> <=> Len(places[j1]) = 0
      /\ places[j2] = <<>> <=> Len(places[j2]) = 0
  BY TreeFacts
<1>6. CASE places[j1] = <<>>
  <2>1. places[j2] = <<>>
    BY <1>1, <1>2, <1>3, <1>5, <1>6
  <2> QED BY <1>4, <1>6, <2>1
<1>7. CASE places[j1] # <<>>
  <2>1. places[j2] # <<>>
    BY <1>1, <1>2, <1>3, <1>5, <1>7
  <2> DEFINE L == Len(places[j1])
  <2>2. L \in 1..L /\ places[j1][L] = j1 /\ j1 \in 1..Len(prog)
    BY <1>5, <1>7, TreeInner DEF Inner
  <2>3. L = Len(places[j2]) /\ places[j2][L] = j2 /\ j2 \in 1..Len(prog)
    BY <1>1, <1>2, <1>3, <2>1, TreeInner DEF Inner
  <2> HIDE DEF L
  <2>4. Part(prog, j1) = Part(prog, j2)
    BY <1>1, <1>2, <1>3, <2>2, <2>3 DEF L
  <2>5. CASE prog[j1].op \notin CallableOps \/ prog[j2].op \notin CallableOps
    BY <1>4, <2>4, <2>5 DEF Part, Block, Named
  <2>6. CASE prog[j1].op \in CallableOps /\ prog[j2].op \in CallableOps
    <3>1. Within(prog, places[j1]) /\ Within(prog, places[j2])
      BY <2>2, <2>3, <2>6 DEF Within, L
    <3>2. f # 0 /\ Fun(prog, places[j1]) = f /\ Fun(prog, places[j2]) = f
      BY <3>1 DEF Live
    <3>3. f = j1 /\ f = j2
      BY <2>2, <2>3, <2>6, <3>2, OwnFunction
    <3> QED BY <1>4, <3>3
  <2> QED BY <2>5, <2>6
<1> QED
  BY <1>6, <1>7

-----------------------------------------------------------------------------
(* Lookups.                                                                 *)

\* A construct around a place declares a name if the table has its key.
LEMMA KeyIsDeclared ==
    ASSUME NEW prog, NEW places, Tree(prog, places), NEW tab, NEW f,
           Holds(prog, places, tab, f, 1..Len(prog)),
           NEW i \in 0..Len(prog), f = Fun(prog, places[i]),
           NEW n \in 0..Len(places[i]), NEW j, j = IF n = 0 THEN 0 ELSE places[i][n],
           NEW name \in Names
    PROVE  /\ KeyIn(prog, places, j, name) \in DOMAIN tab <=>
                 Declarers(prog, places, j, name) # {}
           /\ Declarers(prog, places, j, name) # {} => Live(prog, places, f, j)
<1>1. j \in 0..Len(prog) /\ Len(places[j]) = n
  BY PathPrefix
<1>2. Len(prog) \in Nat /\ Len(places[i]) \in Nat /\ places[0] = <<>>
  BY TreeFacts DEF Tree
<1>3. n = 0 => j = 0 /\ ~ Within(prog, places[j])
  <2>1. ~ Within(prog, places[0])
    <3>1. 0 \in 0..Len(prog)
      BY <1>2
    <3> QED BY <1>2, <3>1, FunFacts
  <2> QED BY <2>1
<1>4. n # 0 => n \in 1..Len(places[i]) /\ j = places[i][n]
  BY <1>2
<1>5. Inner(places[j]) = j
  <2>1. CASE n = 0
    BY <1>2, <1>3, <2>1 DEF Inner
  <2>2. CASE n # 0
    <3>1. n \in 1..n /\ places[j][n] = places[i][n]
      <4>1. /\ Len(places[places[i][n]]) = n
            /\ \A m \in 1..n : places[places[i][n]][m] = places[i][m]
        BY <1>4, <2>2, TreePrefix
      <4>2. n \in 1..n
        BY <1>4, <2>2
      <4> QED BY <1>4, <2>2, <4>1, <4>2
    <3>2. places[j] # <<>>
      <4>1. places[j] = <<>> <=> Len(places[j]) = 0
        BY <1>1, TreeFacts
      <4> QED BY <1>1, <2>2, <4>1
    <3> QED BY <1>1, <1>4, <2>2, <3>1, <3>2 DEF Inner
  <2> QED BY <2>1, <2>2
<1>6. n # 0 => /\ prog[j].op # "class" => Fun(prog, places[j]) = Fun(prog, places[i])
               /\ prog[j].op = "class" => Len(places[j]) = 1
  BY <1>4, FunPrefix
<1>7. Within(prog, places[j]) /\ Fun(prog, places[j]) = 0 => n # 0 /\ prog[j].op = "class"
  <2>1. ASSUME Within(prog, places[j]), Fun(prog, places[j]) = 0
        PROVE  n # 0 /\ prog[j].op = "class"
    <3>1. Len(places[j]) = 1 /\ prog[places[j][1]].op = "class" /\ places[j] # <<>>
      BY <1>1, <2>1, FunFacts, SMTT(30)
    <3> QED BY <1>1, <1>5, <3>1 DEF Inner
  <2> QED BY <2>1
<1>8. (n = 0 \/ prog[j].op # "class") => Live(prog, places, f, j)
  BY <1>3, <1>6, <1>7 DEF Live
<1>9. ASSUME Declarers(prog, places, j, name) # {}
      PROVE  /\ Live(prog, places, f, j)
             /\ KeyIn(prog, places, j, name) \in DOMAIN tab
  <2>1. PICK d \in 1..Len(prog) : Declares(prog, places, j, name, d)
    BY <1>9 DEF Declarers
  <2>2. j # 0 => prog[j].op # "class"
    BY <1>1, <2>1, DeclaresFacts
  <2>3. j = 0 => n = 0
    <3>1. Len(places[0]) = 0
      BY <1>2, EmptySeq
    <3> QED BY <1>1, <3>1
  <2>4. Live(prog, places, f, j)
    BY <1>8, <2>2, <2>3
  <2> QED BY <1>1, <2>1, <2>4 DEF Holds
<1>10. ASSUME KeyIn(prog, places, j, name) \in DOMAIN tab
       PROVE  Declarers(prog, places, j, name) # {}
  <2>1. PICK j2 \in 0..Len(prog), n2 \in Names, d \in 1..Len(prog) :
              /\ Live(prog, places, f, j2) /\ Declares(prog, places, j2, n2, d)
              /\ KeyIn(prog, places, j, name) = KeyIn(prog, places, j2, n2)
    BY <1>10 DEF Holds
  <2>2. Inner(places[j2]) = j2
    BY <2>1, DeclaresFacts
  <2>3. CASE Live(prog, places, f, j)
    <3>1. j = j2 /\ name = n2
      BY <1>1, <1>5, <2>1, <2>2, <2>3, KeyInjective
    <3> QED BY <2>1, <3>1 DEF Declarers
  <2>4. CASE ~ Live(prog, places, f, j)
    <3>1. n # 0 /\ prog[j].op = "class"
      BY <1>8, <2>4
    <3>2. n = 1 /\ j \in 1..Len(prog)
      BY <1>1, <1>4, <1>6, <3>1, TreeFacts
    <3>3. /\ Len(KeyIn(prog, places, j, name)) = Len(places[j]) + 1
          /\ \A m \in 1..Len(places[j]) :
                KeyIn(prog, places, j, name)[m] = Part(prog, places[j][m])
      <4>1. j \in 0..Len(prog) /\ name \in Names
        BY <1>1
      <4> QED BY ONLY Tree(prog, places), <4>1, KeyFacts
    <3>4. /\ Len(KeyIn(prog, places, j2, n2)) = Len(places[j2]) + 1
          /\ \A m \in 1..Len(places[j2]) :
                KeyIn(prog, places, j2, n2)[m] = Part(prog, places[j2][m])
      <4>1. j2 \in 0..Len(prog) /\ n2 \in Names
        OBVIOUS
      <4> QED BY ONLY Tree(prog, places), <4>1, KeyFacts
    <3>5. Len(places[j]) \in Nat /\ Len(places[j2]) \in Nat
      BY <1>1, TreeFacts
    <3>6. Len(places[j2]) = 1 /\ Part(prog, places[j2][1]) = Part(prog, places[j][1])
      <4>1. Len(places[j]) = 1 /\ 1 \in 1..Len(places[j])
        BY <1>1, <3>2
      <4>2. Len(places[j2]) + 1 = Len(places[j]) + 1
        BY <2>1, <3>3, <3>4
      <4>3. Len(places[j2]) = 1 /\ 1 \in 1..Len(places[j2])
        <5>1. \A a, b \in Nat : a + 1 = b + 1 => a = b
          OBVIOUS
        <5>2. Len(places[j2]) = Len(places[j])
          BY <3>5, <4>2, <5>1
        <5> QED BY <4>1, <5>2
      <4>4. KeyIn(prog, places, j, name)[1] = Part(prog, places[j][1])
        BY <3>3, <4>1
      <4>5. KeyIn(prog, places, j2, n2)[1] = Part(prog, places[j2][1])
        BY <3>4, <4>3
      <4> QED BY <2>1, <4>3, <4>4, <4>5
    <3>7. places[j][1] = j
      <4>1. places[j] = <<>> <=> Len(places[j]) = 0
        BY <1>1, TreeFacts, SMTT(30)
      <4>2. places[j] # <<>> /\ Len(places[j]) = 1
        BY <1>1, <3>2, <4>1
      <4> QED BY <1>5, <4>2 DEF Inner
    <3>8. places[j2] # <<>> /\ places[j2][1] = j2 /\ j2 \in 1..Len(prog)
      <4>1. places[j2] # <<>>
        BY <3>6, EmptySeq
      <4>2. Inner(places[j2]) = places[j2][1] /\ j2 # 0
        BY <1>2, <3>6, <4>1 DEF Inner
      <4> QED BY <1>2, <2>2, <4>1, <4>2
    <3>9. prog[j2].op \in CallableOps
      <4>1. Part(prog, j) = Named(prog[j].name)
        BY <3>1 DEF Part, CallableOps
      <4> QED BY <3>6, <3>7, <3>8, <4>1 DEF Part, Named, Block
    <3>10. Within(prog, places[j2])
      BY <3>8, <3>9, FunFacts
    <3>11. f # 0 /\ Fun(prog, places[j2]) = f
      BY <2>1, <3>10 DEF Live
    <3>12. f = j2
      BY <2>2, <3>8, <3>9, <3>11, OwnFunction
    <3>13. PICK m \in 1..Len(places[i]) : places[i][m] = f /\ prog[f].op = "function"
      <4>1. Fun(prog, places[i]) # 0 =>
                \E m \in 1..Len(places[i]) : /\ places[i][m] = Fun(prog, places[i])
                                             /\ prog[places[i][m]].op = "function"
        BY ONLY Tree(prog, places), i \in 0..Len(prog), FunFacts
      <4> QED BY <3>11, <4>1
    <3>14. m = 1
      <4>1. Len(places[places[i][m]]) = m
        BY TreePrefix, SMTT(30)
      <4> QED BY <3>6, <3>12, <3>13, <4>1
    <3>15. f = j
      BY <1>4, <3>2, <3>13, <3>14
    <3> QED BY <3>1, <3>13, <3>15
  <2> QED BY <2>3, <2>4
<1> QED
  BY <1>9, <1>10

\* A lookup finds the innermost construct around a place that declares the name.
LEMMA LookupFinding ==
    ASSUME NEW places, Tree(program, places), NEW i \in 0..Len(program),
           NEW f, f = Fun(program, places[i]),
           Holds(program, places, table, f, 1..Len(program)), NEW name \in Names
    PROVE  /\ Finding(program, places, places[i], name) = {} =>
                 Lookup(Path(program, places[i]), name) = <<>>
           /\ Finding(program, places, places[i], name) # {} =>
                 /\ Max(Finding(program, places, places[i], name)) \in 0..Len(places[i])
                 /\ Lookup(Path(program, places[i]), name) =
                       KeyIn(program, places, Found(program, places, places[i], name), name)
<1> DEFINE s == Path(program, places[i])
           F == Finding(program, places, places[i], name)
           con(n) == IF n = 0 THEN 0 ELSE places[i][n]
           found == {n \in 0..Len(s) : SubSeq(s, 1, n) \o <<Named(name)>> \in DOMAIN table}
<1>1. Len(s) = Len(places[i])
  BY PathType
<1>2. ASSUME NEW n \in 0..Len(places[i])
      PROVE  /\ SubSeq(s, 1, n) \o <<Named(name)>> = KeyIn(program, places, con(n), name)
             /\ KeyIn(program, places, con(n), name) \in DOMAIN table <=>
                   Declarers(program, places, con(n), name) # {}
  <2> DEFINE j == con(n)
  <2>1. j = IF n = 0 THEN 0 ELSE places[i][n]
    OBVIOUS
  <2> HIDE DEF j
  <2>2. /\ j \in 0..Len(program)
        /\ SubSeq(s, 1, n) = Path(program, places[j])
    BY <2>1, PathPrefix
  <2>3. KeyIn(program, places, j, name) = Path(program, places[j]) \o <<Named(name)>>
    BY <2>2, KeyConcat
  <2>4. KeyIn(program, places, j, name) \in DOMAIN table <=>
            Declarers(program, places, j, name) # {}
    BY <2>1, KeyIsDeclared
  <2> QED BY <2>2, <2>3, <2>4 DEF j
<1>3. F = {n \in 0..Len(places[i]) : Declarers(program, places, con(n), name) # {}}
  BY DEF Finding
<1>4. found = F
  BY <1>1, <1>2, <1>3
<1>5. Lookup(s, name) = IF found = {} THEN <<>> ELSE SubSeq(s, 1, Max(found)) \o <<Named(name)>>
  BY DEF Lookup
<1>6. Len(places[i]) \in Nat
  BY TreeFacts
<1>7. Found(program, places, places[i], name) = con(Max(F))
  BY DEF Found
<1>8. F \subseteq 0..Len(places[i])
  BY <1>3
<1> HIDE DEF s, F, found, con
<1>9. ASSUME F # {}
      PROVE  /\ Max(F) \in 0..Len(places[i])
             /\ Lookup(s, name) = KeyIn(program, places, con(Max(F)), name)
  <2>1. Max(F) \in F
    BY <1>6, <1>8, <1>9, MaxIn
  <2> QED BY <1>2, <1>4, <1>5, <1>8, <1>9, <2>1
<1> QED
  BY <1>4, <1>5, <1>7, <1>9 DEF s, F

\* Some constructs, the innermost that declares a name, and its declarations.
LEMMA FoundFacts ==
    ASSUME NEW prog, NEW places, Tree(prog, places)
    PROVE  \A i \in 0..Len(prog) : \A name \in Names :
               Finding(prog, places, places[i], name) # {} =>
                   /\ Found(prog, places, places[i], name) \in 0..Len(prog)
                   /\ Declarers(prog, places, Found(prog, places, places[i], name), name) # {}
                   /\ \E n \in 0..Len(places[i]) :
                         Found(prog, places, places[i], name) = IF n = 0 THEN 0 ELSE places[i][n]
<1> SUFFICES ASSUME NEW i \in 0..Len(prog), NEW name \in Names,
                    Finding(prog, places, places[i], name) # {}
             PROVE  /\ Found(prog, places, places[i], name) \in 0..Len(prog)
                    /\ Declarers(prog, places, Found(prog, places, places[i], name), name) # {}
                    /\ \E n \in 0..Len(places[i]) :
                          Found(prog, places, places[i], name) = IF n = 0 THEN 0 ELSE places[i][n]
  OBVIOUS
<1> DEFINE F == Finding(prog, places, places[i], name)
           con(n) == IF n = 0 THEN 0 ELSE places[i][n]
<1>1. F = {n \in 0..Len(places[i]) : Declarers(prog, places, con(n), name) # {}}
  BY DEF Finding
<1>2. Len(places[i]) \in Nat
  BY TreeFacts
<1>3. Found(prog, places, places[i], name) = con(Max(F))
  BY DEF Found
<1>4. F \subseteq 0..Len(places[i]) /\ F # {}
  BY <1>1
<1> HIDE DEF F
<1>5. Max(F) \in F
  BY <1>2, <1>4, MaxIn
<1>6. con(Max(F)) \in 0..Len(prog)
  <2> DEFINE n == Max(F)
             j == con(n)
  <2>1. n \in 0..Len(places[i]) /\ j = IF n = 0 THEN 0 ELSE places[i][n]
    BY <1>4, <1>5
  <2> HIDE DEF n, j
  <2>2. j \in 0..Len(prog)
    BY <2>1, PathPrefix
  <2> QED BY <2>2 DEF n, j
<1> QED
  BY <1>1, <1>3, <1>5, <1>6

\* And its entry is that of its declaration.
LEMMA LookupEntry ==
    ASSUME NEW places, Tree(program, places), NEW i \in 0..Len(program),
           Holds(program, places, table, Fun(program, places[i]), 1..Len(program)),
           NEW name \in Names, Finding(program, places, places[i], name) # {}
    PROVE  /\ Lookup(Path(program, places[i]), name) # <<>>
           /\ table[Lookup(Path(program, places[i]), name)] =
                 EntryFor(program, places, Found(program, places, places[i], name), name,
                          CHOOSE k \in Declarers(program, places,
                                     Found(program, places, places[i], name), name) : TRUE)
<1> DEFINE j == Found(program, places, places[i], name)
           d == CHOOSE k \in Declarers(program, places, j, name) : TRUE
           f == Fun(program, places[i])
<1>0. /\ i \in 0..Len(program) /\ name \in Names /\ Finding(program, places, places[i], name) # {}
      /\ f = Fun(program, places[i])
  OBVIOUS
<1>1. j \in 0..Len(program) /\ Declarers(program, places, j, name) # {}
  BY ONLY Tree(program, places), <1>0, FoundFacts, SMTT(30)
<1>2. PICK n \in 0..Len(places[i]) : j = IF n = 0 THEN 0 ELSE places[i][n]
  BY ONLY Tree(program, places), <1>0, FoundFacts, SMTT(30)
<1>3. d \in 1..Len(program) /\ Declares(program, places, j, name, d)
  <2>1. d \in Declarers(program, places, j, name)
    BY <1>1
  <2> QED BY <2>1 DEF Declarers
<1>4. Lookup(Path(program, places[i]), name) = KeyIn(program, places, j, name)
  BY <1>0, LookupFinding
<1>5. Holds(program, places, table, f, 1..Len(program))
  OBVIOUS
<1> HIDE DEF d, j, f
<1>6. Live(program, places, f, j)
  BY <1>0, <1>1, <1>2, <1>5, KeyIsDeclared
<1>7. KeyIn(program, places, j, name) # <<>>
  BY <1>1, KeyFacts
<1>8. table[KeyIn(program, places, j, name)] = EntryFor(program, places, j, name, d)
  BY <1>1, <1>3, <1>5, <1>6 DEF Holds
<1> QED
  BY <1>4, <1>7, <1>8 DEF d, j

-----------------------------------------------------------------------------
(* What the steps do to the table, stated for any table.                    *)

\* The constructs around a place, as the pass sees them.
LEMMA KindsFacts ==
    ASSUME NEW prog, NEW places, Tree(prog, places), NEW i \in 0..Len(prog)
    PROVE  /\ Kinds(prog, places[i]) = <<>> <=> places[i] = <<>>
           /\ InCallable(Kinds(prog, places[i])) <=> Within(prog, places[i])
           /\ InClass(Kinds(prog, places[i])) <=>
                 (places[i] # <<>> /\ prog[places[i][1]].op = "class")
           /\ places[i] # <<>> => Last(Kinds(prog, places[i])) = prog[Inner(places[i])].op
<1> DEFINE p == places[i]
           k == Kinds(prog, p)
<1>1. /\ Len(p) \in Nat
      /\ p = <<>> <=> Len(p) = 0
  BY TreeFacts
<1>2. k = [n \in 1..Len(p) |-> prog[p[n]].op]
  BY DEF Kinds
<1>3. WellNested(Kinds(prog, p))
  BY DEF Tree
<1> HIDE DEF p
<1>4. k \in Seq(BlockOps \cup CallableOps)
  BY <1>3 DEF WellNested
<1>5. Len(k) \in Nat /\ DOMAIN k = 1..Len(k) /\ k \in [1..Len(k) -> BlockOps \cup CallableOps]
  BY <1>4, LenProperties
<1>6. DOMAIN k = 1..Len(p) /\ \A n \in 1..Len(p) : k[n] = prog[p[n]].op
  BY <1>2
<1> HIDE DEF k
<1>7. Len(k) = Len(p)
  <2>1. k \in [1..Len(p) -> BlockOps \cup CallableOps]
    BY <1>5, <1>6
  <2> QED BY <1>1, <2>1, SequenceOfValues
<1>8. k = <<>> <=> Len(k) = 0
  BY <1>4, EmptySeq
<1>9. InCallable(k) <=> Within(prog, p)
  BY <1>6 DEF InCallable, Within
<1>10. InClass(k) <=> (p # <<>> /\ prog[p[1]].op = "class")
  <2>1. p # <<>> => 1 \in 1..Len(p)
    BY <1>1
  <2> QED BY <1>1, <1>6, <1>7, <1>8, <2>1 DEF InClass
<1>11. p # <<>> => Last(k) = prog[Inner(p)].op
  <2>1. p # <<>> => Len(p) \in 1..Len(p)
    BY <1>1
  <2> QED BY <1>6, <1>7, <2>1 DEF Last, Inner
<1> QED
  BY <1>1, <1>7, <1>8, <1>9, <1>10, <1>11 DEF p, k

\* The same declarations are live.
LEMMA HoldsSame ==
    ASSUME NEW prog, NEW places, NEW tab, NEW f, NEW R, Holds(prog, places, tab, f, R),
           NEW g, NEW S,
           \A j \in 0..Len(prog), name \in Names, d \in 1..Len(prog) :
               Declares(prog, places, j, name, d) =>
                   ((d \in R /\ Live(prog, places, f, j)) <=> (d \in S /\ Live(prog, places, g, j))),
           R \subseteq 1..Len(prog), S \subseteq 1..Len(prog)
    PROVE  Holds(prog, places, tab, g, S)
<1>1. ASSUME NEW k \in DOMAIN tab
      PROVE  \E j \in 0..Len(prog), name \in Names, d \in S :
                 /\ Live(prog, places, g, j) /\ Declares(prog, places, j, name, d)
                 /\ k = KeyIn(prog, places, j, name)
  <2>1. PICK j \in 0..Len(prog), name \in Names, d \in R :
              /\ Live(prog, places, f, j) /\ Declares(prog, places, j, name, d)
              /\ k = KeyIn(prog, places, j, name)
    BY <1>1 DEF Holds
  <2>2. d \in S /\ Live(prog, places, g, j)
    BY <2>1
  <2> QED BY <2>1, <2>2
<1>2. ASSUME NEW j \in 0..Len(prog), NEW name \in Names, NEW d \in S,
             Live(prog, places, g, j), Declares(prog, places, j, name, d)
      PROVE  /\ KeyIn(prog, places, j, name) \in DOMAIN tab
             /\ tab[KeyIn(prog, places, j, name)] = EntryFor(prog, places, j, name, d)
             /\ \A c \in S : Declares(prog, places, j, name, c) => c = d
  <2>1. d \in R /\ Live(prog, places, f, j)
    BY <1>2
  <2>2. \A c \in S : Declares(prog, places, j, name, c) => c \in R
    BY <1>2
  <2> QED BY <1>2, <2>1, <2>2 DEF Holds
<1> QED
  BY <1>1, <1>2 DEF Holds

\* One declaration more.
LEMMA HoldsAdd ==
    ASSUME NEW prog, NEW places, NEW tab, NEW f, NEW R, Holds(prog, places, tab, f, R),
           NEW d0 \in 1..Len(prog), NEW j0 \in 0..Len(prog), NEW name0 \in Names,
           \A j \in 0..Len(prog), name \in Names :
               Live(prog, places, f, j) /\ Declares(prog, places, j, name, d0) <=>
                   j = j0 /\ name = name0,
           NEW tab2, KeyIn(prog, places, j0, name0) \notin DOMAIN tab,
           DOMAIN tab2 = {KeyIn(prog, places, j0, name0)} \cup DOMAIN tab,
           tab2[KeyIn(prog, places, j0, name0)] = EntryFor(prog, places, j0, name0, d0),
           \A k \in DOMAIN tab : tab2[k] = tab[k]
    PROVE  Holds(prog, places, tab2, f, R \cup {d0})
<1>1. ASSUME NEW k \in DOMAIN tab2
      PROVE  \E j \in 0..Len(prog), name \in Names, d \in R \cup {d0} :
                 /\ Live(prog, places, f, j) /\ Declares(prog, places, j, name, d)
                 /\ k = KeyIn(prog, places, j, name)
  <2>1. CASE k \in DOMAIN tab
    BY <2>1 DEF Holds
  <2>2. CASE k = KeyIn(prog, places, j0, name0)
    BY <2>2
  <2> QED BY <1>1, <2>1, <2>2
<1>2. ASSUME NEW j \in 0..Len(prog), NEW name \in Names, NEW d \in R \cup {d0},
             Live(prog, places, f, j), Declares(prog, places, j, name, d)
      PROVE  /\ KeyIn(prog, places, j, name) \in DOMAIN tab2
             /\ tab2[KeyIn(prog, places, j, name)] = EntryFor(prog, places, j, name, d)
             /\ \A c \in R \cup {d0} : Declares(prog, places, j, name, c) => c = d
  <2>1. CASE j = j0 /\ name = name0
    <3>1. \A c \in R : ~ Declares(prog, places, j, name, c)
      BY <1>2, <2>1 DEF Holds
    <3>2. d = d0
      BY <1>2, <3>1
    <3> QED BY <2>1, <3>1, <3>2
  <2>2. CASE ~ (j = j0 /\ name = name0)
    <3>1. ~ Declares(prog, places, j, name, d0)
      BY <1>2, <2>2
    <3>2. d \in R
      BY <1>2, <3>1
    <3>3. /\ KeyIn(prog, places, j, name) \in DOMAIN tab
          /\ tab[KeyIn(prog, places, j, name)] = EntryFor(prog, places, j, name, d)
          /\ \A c \in R : Declares(prog, places, j, name, c) => c = d
      BY <1>2, <3>2 DEF Holds
    <3> QED BY <3>1, <3>3
  <2> QED BY <2>1, <2>2
<1> QED
  BY <1>1, <1>2 DEF Holds

\* A second declaration.
LEMMA HoldsClash ==
    ASSUME NEW prog, NEW places, Tree(prog, places), NEW tab, NEW f, NEW R,
           Holds(prog, places, tab, f, R), R \subseteq 1..Len(prog),
           NEW d0 \in 1..Len(prog), NEW j0 \in 0..Len(prog), NEW name0 \in Names,
           Live(prog, places, f, j0), Declares(prog, places, j0, name0, d0), d0 \notin R,
           KeyIn(prog, places, j0, name0) \in DOMAIN tab
    PROVE  ~ GoodProgram(prog, places)
<1>1. PICK j \in 0..Len(prog), name \in Names, d \in R :
              /\ Live(prog, places, f, j) /\ Declares(prog, places, j, name, d)
              /\ KeyIn(prog, places, j0, name0) = KeyIn(prog, places, j, name)
  BY DEF Holds
<1>2. d \in 1..Len(prog)
  BY <1>1
<1>3. Inner(places[j]) = j
  BY <1>1, <1>2, DeclaresFacts
<1>4. Inner(places[j0]) = j0
  BY DeclaresFacts
<1>5. j = j0 /\ name = name0
  BY <1>1, <1>3, <1>4, KeyInjective
<1>6. ~ Unique(prog, places, j0)
  BY <1>1, <1>2, <1>5 DEF Unique
<1> QED
  BY <1>6 DEF GoodProgram

\* Counting variables.
LEMMA VarsStep ==
    ASSUME NEW prog, NEW places, NEW f, NEW d \in Nat \ {0}
    PROVE  /\ Cardinality(VarsOf(prog, places, f, d)) \in Nat
           /\ IsVar(prog, d) /\ Fun(prog, places[d - 1]) = f =>
                 Cardinality(VarsOf(prog, places, f, d + 1)) =
                     Cardinality(VarsOf(prog, places, f, d)) + 1
           /\ ~ (IsVar(prog, d) /\ Fun(prog, places[d - 1]) = f) =>
                 VarsOf(prog, places, f, d + 1) = VarsOf(prog, places, f, d)
<1> DEFINE P(k) == IsVar(prog, k) /\ Fun(prog, places[k - 1]) = f
           V == VarsOf(prog, places, f, d)
           W == VarsOf(prog, places, f, d + 1)
<1>1. V = {k \in 1..(d - 1) : P(k)} /\ W = {k \in 1..(d + 1 - 1) : P(k)}
  BY DEF VarsOf
<1> HIDE DEF P, V, W
<1>2. /\ d \in 1..(d + 1 - 1) /\ d \notin 1..(d - 1)
      /\ \A k : k \in 1..(d + 1 - 1) <=> k = d \/ k \in 1..(d - 1)
  OBVIOUS
<1>3. V \subseteq 1..(d - 1) /\ d \notin V
  BY <1>1, <1>2
<1>4. IsFiniteSet(V) /\ Cardinality(V) \in Nat
  <2>1. IsFiniteSet(1..(d - 1))
    BY FS_Interval
  <2>2. IsFiniteSet(V)
    BY <1>3, <2>1, FS_Subset
  <2> QED BY <2>2, FS_CardinalityType
<1>5. P(d) => W = V \cup {d}
  BY <1>1, <1>2
<1>6. ~ P(d) => W = V
  BY <1>1, <1>2
<1>7. P(d) => Cardinality(W) = Cardinality(V) + 1
  BY <1>3, <1>4, <1>5, FS_AddElement
<1> QED
  BY <1>4, <1>6, <1>7 DEF P, V, W

\* The tokens of classes.
LEMMA ClassStep ==
    ASSUME NEW prog, NEW places, Tree(prog, places), NEW i \in 1..Len(prog)
    PROVE  /\ ~ OfClass(prog, places, i) /\ places[i] # <<>> =>
                 prog[places[i][1]].op # "class"
           /\ OfClass(prog, places, i) /\ places[i] # <<>> =>
                 prog[places[i][1]].op = "class"
<1> DEFINE p == places[i - 1]
           q == places[i]
<1>1. i \in 0..Len(prog) /\ i - 1 \in 0..Len(prog) /\ prog[i] \in Token
  BY TreeStep
<1>2. /\ Len(p) \in Nat /\ Len(q) \in Nat
      /\ p = <<>> <=> Len(p) = 0
      /\ q = <<>> <=> Len(q) = 0
  BY <1>1, TreeFacts
<1>3. CASE prog[i].op \in {"use", "set", "var"}
  <2>1. q = p
    BY <1>3, TreeStep
  <2> QED BY <1>3, <2>1 DEF OfClass
<1>4. CASE prog[i].op = "end"
  <2>1. p # <<>> /\ \A n \in 1..Len(q) : n \in 1..Len(p) /\ q[n] = p[n]
    BY <1>4, TreeStep
  <2>2. q # <<>> => q[1] = p[1]
    BY <1>2, <2>1
  <2> QED BY <1>4, <2>1, <2>2 DEF OfClass
<1>5. CASE prog[i].op = "else"
  <2>1. /\ p # <<>> /\ Len(q) = Len(p) /\ q[Len(q)] = i
        /\ \A n \in 1..(Len(q) - 1) : n \in 1..Len(p) /\ q[n] = p[n]
        /\ prog[Inner(p)].op = "if"
    BY <1>5, TreeStep
  <2>2. CASE Len(p) = 1
    <3>1. q[1] = i /\ Inner(p) = p[1]
      BY <2>1, <2>2 DEF Inner
    <3> QED BY <1>5, <2>1, <3>1 DEF OfClass
  <2>3. CASE Len(p) # 1
    <3>1. 1 \in 1..(Len(q) - 1)
      <4>1. \A n \in Nat : n # 0 /\ n # 1 => 1 \in 1..(n - 1)
        OBVIOUS
      <4>2. Len(p) # 0
        BY <1>2, <2>1
      <4> QED BY <1>2, <2>1, <2>3, <4>1, <4>2
    <3>2. q[1] = p[1]
      BY <2>1, <3>1
    <3> QED BY <1>5, <2>1, <3>2 DEF OfClass
  <2> QED BY <2>2, <2>3
<1>6. CASE Opens(prog[i].op)
  <2>1. /\ Len(q) = Len(p) + 1 /\ q[Len(q)] = i
        /\ \A n \in 1..Len(p) : q[n] = p[n]
    BY <1>6, TreeStep
  <2>2. CASE p = <<>>
    <3>1. q[1] = i
      BY <1>2, <2>1, <2>2
    <3> QED BY <2>2, <3>1 DEF OfClass
  <2>3. CASE p # <<>>
    <3>1. q[1] = p[1] /\ prog[i].op # "class"
      <4>1. 1 \in 1..Len(p)
        BY <1>2, <2>3
      <4>2. prog[i].op # "class"
        BY <2>3, TreeStep
      <4> QED BY <2>1, <4>1, <4>2
    <3> QED BY <2>3, <3>1 DEF OfClass
  <2> QED BY <2>2, <2>3
<1> QED
  BY <1>1, <1>3, <1>4, <1>5, <1>6, TokenFields DEF BlockOps, CallableOps, Opens

-----------------------------------------------------------------------------
(* Steps between two tokens.                                                *)

\* What the invariant says of the token that the pass has reached.
LEMMA Here ==
    ASSUME NEW opens, NEW places, SymbolsInv(opens), MeansInv(opens, places), Running
    PROVE  /\ Tree(program, places)
           /\ at \in 1..Len(program) /\ at - 1 \in 0..Len(program) /\ at \in 0..Len(program)
           /\ at \in Nat \ {0} /\ Len(program) \in Nat /\ at + 1 - 1 = at
           /\ tok \in Token
           /\ open = Kinds(program, places[at - 1])
           /\ OpenAfter(open, tok) = Kinds(program, places[at])
           /\ PathInv(places) /\ StartInv(places) /\ NumbersInv(places)
           /\ Holds(program, places, table, Current(places), Declared(places))
           /\ GeneratedInv(places)
<1>1. Len(program) \in Nat /\ at \in 1..Len(program)
  BY Context
<1>2. tok \in Token /\ open = opens[at - 1] /\ OpenAfter(open, tok) = opens[at]
  BY Context
<1>3. at - 1 \in 0..Len(program) /\ at \in 0..Len(program) /\ at \in Nat \ {0} /\ at + 1 - 1 = at
  BY <1>1
<1>4. \A i \in 0..Len(program) : opens[i] = Kinds(program, places[i])
  BY DEF MeansInv
<1>5. phase \notin {"parse", "failed"}
  BY DEF Running
<1>6. /\ PathInv(places) /\ StartInv(places) /\ NumbersInv(places)
      /\ Holds(program, places, table, Current(places), Declared(places))
      /\ GeneratedInv(places) /\ Tree(program, places)
  BY <1>5 DEF MeansInv
<1> QED
  BY <1>1, <1>2, <1>3, <1>4, <1>6

\* A step keeps the invariant if it keeps what speaks of the state.
LEMMA StepMeans ==
    ASSUME NEW opens, NEW places, MeansInv(opens, places), UNCHANGED program,
           phase' \notin {"parse", "failed"},
           PathInv(places)', StartInv(places)', NumbersInv(places)',
           Holds(program, places, table, Current(places), Declared(places))',
           GeneratedInv(places)',
           \A r \in refs' : r.at \in 1..Len(program) /\ r.entry = MeaningAt(program, places, r.at)
    PROVE  MeansInv(opens, places)'
<1>1. RefersInv(places)'
  <2>1. ASSUME NEW r \in refs'
        PROVE  /\ program'[r.at].op \in {"use", "set", "var", "for"}
               /\ program'[r.at].op \in {"use", "set"} =>
                     Finding(program', places, places[r.at - 1], program'[r.at].name) # {}
    <3>1. /\ r.at \in Generated(places)'
          /\ program'[r.at].op \in {"use", "set", "var", "for"}
      BY <2>1 DEF GeneratedInv
    <3>2. GoodToken(program', places, r.at)
      BY <3>1 DEF GeneratedInv
    <3> QED BY <3>1, <3>2 DEF GoodToken
  <2> QED BY <2>1 DEF RefersInv
<1> QED
  BY <1>1 DEF MeansInv, RefersInv

\* An error is one of the program.
LEMMA FailMeans ==
    ASSUME NEW opens, NEW places, MeansInv(opens, places), Fail,
           ~ GoodProgram(program, places)
    PROVE  MeansInv(opens, places)'
<1>1. phase' = "failed" /\ UNCHANGED <<program, refs>>
  BY DEF Fail
<1> QED
  BY <1>1 DEF MeansInv, RefersInv

\* The constructs around the next place.
LEMMA NextPlace ==
    ASSUME NEW opens, NEW places, SymbolsInv(opens), MeansInv(opens, places), Running,
           at' = at + 1, open' = OpenAfter(open, tok), UNCHANGED program
    PROVE  /\ at' - 1 = at
           /\ InCallable(open) <=> Within(program, places[at - 1])
           /\ InCallable(open') <=> Within(program, places[at])
           /\ InClass(open) <=> (places[at - 1] # <<>> /\ program[places[at - 1][1]].op = "class")
           /\ InClass(open') <=> (places[at] # <<>> /\ program[places[at][1]].op = "class")
           /\ InClass(open') => OfClass(program, places, at)
           /\ OfClass(program, places, at) <=> InClass(open) \/ tok.op = "class"
           /\ AtFunctionEnd => places[at - 1] # <<>> /\ program[Inner(places[at - 1])].op = "function"
           /\ tok.op = "end" /\ program[Inner(places[at - 1])].op = "function" /\ places[at - 1] # <<>>
                 => AtFunctionEnd
<1>1. /\ Tree(program, places)
      /\ at \in 1..Len(program) /\ at - 1 \in 0..Len(program) /\ at \in 0..Len(program)
      /\ open = Kinds(program, places[at - 1]) /\ open' = Kinds(program, places[at])
      /\ at' - 1 = at /\ tok = program[at]
  <2>1. /\ Tree(program, places)
        /\ at \in 1..Len(program) /\ at - 1 \in 0..Len(program) /\ at \in 0..Len(program)
        /\ open = Kinds(program, places[at - 1]) /\ open' = Kinds(program, places[at])
        /\ at' - 1 = at
    BY Here
  <2>2. tok = program[at]
    BY DEF tok
  <2> QED BY <2>1, <2>2
<1>2. /\ InCallable(open) <=> Within(program, places[at - 1])
      /\ InClass(open) <=> (places[at - 1] # <<>> /\ program[places[at - 1][1]].op = "class")
      /\ places[at - 1] # <<>> => Last(open) = program[Inner(places[at - 1])].op
  BY <1>1, KindsFacts
<1>3. /\ InCallable(open') <=> Within(program, places[at])
      /\ InClass(open') <=> (places[at] # <<>> /\ program[places[at][1]].op = "class")
  BY <1>1, KindsFacts
<1>4. /\ ~ OfClass(program, places, at) /\ places[at] # <<>> =>
             program[places[at][1]].op # "class"
  BY <1>1, ClassStep
<1>5. tok.op = "end" => places[at - 1] # <<>>
  BY <1>1, TreeStep
<1> QED
  BY <1>1, <1>2, <1>3, <1>4, <1>5 DEF AtFunctionEnd, OfClass

\* The first token decides whether a place is in a function or class.
LEMMA WithinStep ==
    ASSUME NEW prog, NEW places, Tree(prog, places), NEW i \in 1..Len(prog)
    PROVE  /\ Within(prog, places[i - 1]) => Within(prog, places[i]) \/ places[i] = <<>>
           /\ ~ Within(prog, places[i - 1]) /\ prog[i].op \notin CallableOps =>
                 ~ Within(prog, places[i])
           /\ prog[i].op \in CallableOps => Within(prog, places[i])
<1> DEFINE p == places[i - 1]
           q == places[i]
<1>1. i \in 0..Len(prog) /\ i - 1 \in 0..Len(prog) /\ prog[i] \in Token
  BY TreeStep
<1>2. /\ Len(p) \in Nat /\ Len(q) \in Nat
      /\ p = <<>> <=> Len(p) = 0
      /\ q = <<>> <=> Len(q) = 0
  BY <1>1, TreeFacts
<1>3. /\ Within(prog, p) <=> (p # <<>> /\ prog[p[1]].op \in CallableOps)
      /\ Within(prog, q) <=> (q # <<>> /\ prog[q[1]].op \in CallableOps)
  BY <1>1, FunFacts
<1>4. CASE prog[i].op \in {"use", "set", "var"}
  <2>1. q = p
    BY <1>4, TreeStep
  <2> QED BY <1>4, <2>1 DEF CallableOps
<1>5. CASE prog[i].op = "end"
  <2>1. p # <<>> /\ \A n \in 1..Len(q) : n \in 1..Len(p) /\ q[n] = p[n]
    BY <1>5, TreeStep
  <2>2. q # <<>> => q[1] = p[1]
    BY <1>2, <2>1
  <2> QED BY <1>3, <1>5, <2>1, <2>2 DEF CallableOps
<1>6. CASE prog[i].op = "else"
  <2>1. /\ p # <<>> /\ Len(q) = Len(p) /\ q[Len(q)] = i
        /\ \A n \in 1..(Len(q) - 1) : n \in 1..Len(p) /\ q[n] = p[n]
        /\ prog[Inner(p)].op = "if"
    BY <1>6, TreeStep
  <2>2. CASE Len(p) = 1
    <3>1. q[1] = i /\ Inner(p) = p[1]
      BY <2>1, <2>2 DEF Inner
    <3> QED BY <1>3, <1>6, <2>1, <3>1 DEF CallableOps
  <2>3. CASE Len(p) # 1
    <3>1. 1 \in 1..(Len(q) - 1)
      <4>1. \A n \in Nat : n # 0 /\ n # 1 => 1 \in 1..(n - 1)
        OBVIOUS
      <4>2. Len(p) # 0
        BY <1>2, <2>1
      <4> QED BY <1>2, <2>1, <2>3, <4>1, <4>2
    <3>2. q[1] = p[1] /\ q # <<>>
      BY <1>2, <2>1, <3>1
    <3> QED BY <1>3, <1>6, <2>1, <3>2 DEF CallableOps
  <2> QED BY <2>2, <2>3
<1>7. CASE Opens(prog[i].op)
  <2>1. /\ Len(q) = Len(p) + 1 /\ q[Len(q)] = i
        /\ \A n \in 1..Len(p) : q[n] = p[n]
    BY <1>7, TreeStep
  <2>2. q # <<>>
    BY <1>2, <2>1
  <2>3. CASE p = <<>>
    <3>1. q[1] = i
      BY <1>2, <2>1, <2>3
    <3> QED BY <1>3, <2>2, <2>3, <3>1
  <2>4. CASE p # <<>>
    <3>1. q[1] = p[1]
      <4>1. 1 \in 1..Len(p)
        BY <1>2, <2>4
      <4> QED BY <2>1, <4>1
    <3>2. ASSUME prog[i].op \in CallableOps
          PROVE  prog[p[1]].op \in CallableOps
      <4>1. prog[i].op = "function" /\ prog[Inner(p)].op = "class"
        BY <2>4, <3>2, TreeStep DEF CallableOps
      <4>2. Len(p) \in 1..Len(p) /\ Inner(p) = p[Len(p)]
        BY <1>2, <2>4 DEF Inner
      <4>3. Len(p) = 1
        <5>1. \A n \in 1..Len(p) : prog[p[n]].op = "class" => n = 1
          BY <1>1, TreeKinds, SMTT(30)
        <5> QED BY <4>1, <4>2, <5>1
      <4> QED BY <4>1, <4>2, <4>3 DEF CallableOps
    <3> QED BY <1>3, <2>2, <2>4, <3>1, <3>2
  <2> QED BY <2>3, <2>4
<1> QED
  BY <1>1, <1>4, <1>5, <1>6, <1>7, TokenFields DEF BlockOps, CallableOps, Opens

\* What a step of the pass over the globals has to do.
LEMMA GlobalsStep ==
    ASSUME NEW opens, NEW places, SymbolsInv(opens), MeansInv(opens, places), Running,
           phase = "globals", Step, UNCHANGED refs,
           subscope' = IF InCallable(open') THEN <<>> ELSE Path(program, places[at]),
           num_globals' = IF IsVar(program, at) /\ Fun(program, places[at - 1]) = 0
                          THEN num_globals + 1 ELSE num_globals,
           Holds(program, places, table', 0, 1..at)
    PROVE  MeansInv(opens, places)'
<1>1. /\ at' = at + 1 /\ open' = OpenAfter(open, tok) /\ UNCHANGED <<program, phase>>
      /\ phase' = "globals"
  BY DEF Step
<1>2. at \in Nat \ {0} /\ at' - 1 = at /\ NumbersInv(places) /\ GeneratedInv(places)
  BY <1>1, Here
<1>3. PathInv(places)'
  BY <1>1, <1>2 DEF PathInv
<1>4. StartInv(places)'
  BY <1>1 DEF StartInv
<1>5. NumbersInv(places)'
  <2>1. num_globals = Cardinality(VarsOf(program, places, 0, at))
    BY <1>2 DEF NumbersInv
  <2>2. /\ IsVar(program, at) /\ Fun(program, places[at - 1]) = 0 =>
              Cardinality(VarsOf(program, places, 0, at + 1)) =
                  Cardinality(VarsOf(program, places, 0, at)) + 1
        /\ ~ (IsVar(program, at) /\ Fun(program, places[at - 1]) = 0) =>
              VarsOf(program, places, 0, at + 1) = VarsOf(program, places, 0, at)
    BY <1>2, VarsStep
  <2>3. num_globals' = Cardinality(VarsOf(program, places, 0, at'))
    BY <1>1, <2>1, <2>2
  <2> QED BY <1>1, <2>3 DEF NumbersInv
<1>6. Holds(program, places, table, Current(places), Declared(places))'
  <2>1. Current(places)' = 0 /\ Declared(places)' = 1..at
    BY <1>1, <1>2 DEF Current, OwnPass, Declared
  <2> QED BY <1>1, <2>1
<1>7. refs = {} /\ GeneratedInv(places)'
  <2>1. Generated(places) = {} /\ Generated(places)' = {}
    BY <1>1 DEF Generated
  <2>2. {r.at : r \in refs} = {}
    BY <1>2, <2>1 DEF GeneratedInv
  <2>3. refs = {}
    BY <2>2
  <2> QED BY <1>1, <2>1, <2>3 DEF GeneratedInv
<1> QED
  BY <1>1, <1>3, <1>4, <1>5, <1>6, <1>7, StepMeans

LEMMA GlobalsHere ==
    ASSUME NEW opens, NEW places, SymbolsInv(opens), MeansInv(opens, places), Running,
           phase = "globals"
    PROVE  /\ Holds(program, places, table, 0, 1..(at - 1))
           /\ subscope = IF InCallable(open) THEN <<>> ELSE Path(program, places[at - 1])
           /\ scope = <<>>
           /\ 1..at = (1..(at - 1)) \cup {at} /\ at \notin 1..(at - 1)
           /\ 1..at \subseteq 1..Len(program) /\ 1..(at - 1) \subseteq 1..Len(program)
<1>1. at \in 1..Len(program) /\ Len(program) \in Nat
  BY Here
<1>2. Holds(program, places, table, 0, 1..(at - 1))
  <2>1. Current(places) = 0 /\ Declared(places) = 1..(at - 1)
    BY DEF Current, OwnPass, Declared
  <2>2. Holds(program, places, table, Current(places), Declared(places))
    BY Here
  <2> QED BY <2>1, <2>2
<1>3. subscope = IF InCallable(open) THEN <<>> ELSE Path(program, places[at - 1])
  <2>1. PathInv(places)
    BY Here
  <2> QED BY <2>1 DEF PathInv
<1>4. scope = <<>>
  BY DEF SymbolsInv, ScopeInv
<1>5. 1..at = (1..(at - 1)) \cup {at} /\ at \notin 1..(at - 1)
  BY <1>1
<1>6. 1..at \subseteq 1..Len(program) /\ 1..(at - 1) \subseteq 1..Len(program)
  BY <1>1
<1> QED
  BY <1>2, <1>3, <1>4, <1>5, <1>6

-----------------------------------------------------------------------------
(* Declarations.                                                            *)

\* Where a variable is declared.
DeclaredIn(prog, places, d) == IF prog[d].op = "for" THEN d ELSE Inner(places[d - 1])

LEMMA VarDeclares ==
    ASSUME NEW prog, NEW places, Tree(prog, places), NEW d \in 1..Len(prog), IsVar(prog, d),
           NEW j0, j0 = DeclaredIn(prog, places, d)
    PROVE  /\ j0 \in 0..Len(prog) /\ prog[d].name \in Names
           /\ \A j \in 0..Len(prog), name \in Names :
                 Declares(prog, places, j, name, d) <=> j = j0 /\ name = prog[d].name
           /\ Fun(prog, places[j0]) = Fun(prog, places[d - 1])
           /\ Within(prog, places[j0]) <=> Within(prog, places[d - 1])
           /\ Path(prog, places[j0]) =
                 IF prog[d].op = "for" THEN Append(Path(prog, places[d - 1]), Block(d))
                 ELSE Path(prog, places[d - 1])
           /\ Within(prog, places[d - 1]) => Fun(prog, places[d - 1]) # 0
<1>1. d \in 0..Len(prog) /\ d - 1 \in 0..Len(prog) /\ prog[d] \in Token
  BY TreeStep
<1>2. prog[d].op \in {"var", "for"} /\ prog[d].op \notin CallableOps
  BY DEF IsVar, CallableOps
<1>3. /\ Inner(places[d - 1]) \in 0..Len(prog)
      /\ places[Inner(places[d - 1])] = places[d - 1]
  BY <1>1, TreeInner
<1>4. j0 \in 0..Len(prog) /\ prog[d].name \in Names
  BY <1>1, <1>2, <1>3, TokenFields DEF DeclaredIn
<1>5. ASSUME NEW j \in 0..Len(prog), NEW name \in Names
      PROVE  Declares(prog, places, j, name, d) <=> j = j0 /\ name = prog[d].name
  BY <1>2 DEF Declares, DeclaredIn
<1>6. Declares(prog, places, j0, prog[d].name, d)
  BY <1>4, <1>5
<1>7. /\ Fun(prog, places[j0]) = Fun(prog, places[d - 1])
      /\ Within(prog, places[j0]) <=> Within(prog, places[d - 1])
  <2>1. j0 \in 0..Len(prog) /\ d \in 1..Len(prog) /\ IsVar(prog, d)
    BY <1>4
  <2> QED BY ONLY Tree(prog, places), <1>6, <2>1, DeclaresFacts
<1>8. Path(prog, places[j0]) =
          IF prog[d].op = "for" THEN Append(Path(prog, places[d - 1]), Block(d))
          ELSE Path(prog, places[d - 1])
  <2>1. CASE prog[d].op = "for"
    <3>1. Path(prog, places[d]) = Append(Path(prog, places[d - 1]), Part(prog, d))
      BY <2>1, PathStep DEF Opens
    <3>2. Part(prog, d) = Block(d)
      BY <1>2 DEF Part
    <3> QED BY <2>1, <3>1, <3>2 DEF DeclaredIn
  <2>2. CASE prog[d].op # "for"
    BY <1>3, <2>2 DEF DeclaredIn
  <2> QED BY <2>1, <2>2
<1>9. ASSUME Within(prog, places[d - 1]), Fun(prog, places[d - 1]) = 0
      PROVE  FALSE
  <2>1. Len(places[d - 1]) = 1 /\ prog[places[d - 1][1]].op = "class" /\ places[d - 1] # <<>>
    BY <1>1, <1>9, FunFacts
  <2>2. prog[Inner(places[d - 1])].op = "class"
    BY <2>1 DEF Inner
  <2> QED BY <1>2, <2>1, <2>2, TreeStep
<1> QED
  BY <1>4, <1>5, <1>7, <1>8, <1>9

LEMMA VarKey ==
    ASSUME NEW prog, NEW places, Tree(prog, places), NEW d \in 1..Len(prog), IsVar(prog, d),
           NEW j0, j0 = DeclaredIn(prog, places, d)
    PROVE  KeyIn(prog, places, j0, prog[d].name) =
              (IF prog[d].op = "for" THEN Append(Path(prog, places[d - 1]), Block(d))
               ELSE Path(prog, places[d - 1])) \o <<Named(prog[d].name)>>
<1>1. j0 \in 0..Len(prog) /\ prog[d].name \in Names
  BY VarDeclares
<1>2. KeyIn(prog, places, j0, prog[d].name) = Path(prog, places[j0]) \o <<Named(prog[d].name)>>
  BY <1>1, KeyConcat
<1>3. Path(prog, places[j0]) =
          IF prog[d].op = "for" THEN Append(Path(prog, places[d - 1]), Block(d))
          ELSE Path(prog, places[d - 1])
  BY VarDeclares
<1> QED
  BY <1>2, <1>3

\* Nothing global is declared in a function or class.
LEMMA NoGlobalWithin ==
    ASSUME NEW prog, NEW places, Tree(prog, places), NEW d \in 1..Len(prog),
           Within(prog, places[d - 1]), NEW j \in 0..Len(prog), NEW name \in Names,
           Declares(prog, places, j, name, d)
    PROVE  Within(prog, places[j])
<1>1. d - 1 \in 0..Len(prog) /\ d \in 0..Len(prog)
  BY TreeStep
<1>2. CASE IsVar(prog, d)
  BY <1>2, DeclaresFacts
<1>3. CASE ~ IsVar(prog, d) /\ j # 0
  <2>1. j = d /\ prog[d].op = "function"
    BY <1>3, DeclaresFacts
  <2> QED BY <2>1, WithinStep DEF CallableOps
<1>4. CASE ~ IsVar(prog, d) /\ j = 0
  <2>1. places[d - 1] = <<>>
    BY <1>4, DeclaresFacts
  <2> QED BY <1>1, <2>1, FunFacts
<1> QED
  BY <1>2, <1>3, <1>4

\* What a function or class at the top level declares among the globals.
LEMMA CallableDeclares ==
    ASSUME NEW prog, NEW places, Tree(prog, places), NEW d \in 1..Len(prog),
           prog[d].op \in CallableOps
    PROVE  /\ prog[d].name \in Names
           /\ ~ Within(prog, places[d - 1]) => places[d - 1] = <<>>
           /\ places[d - 1] = <<>> =>
                 \A j \in 0..Len(prog), name \in Names :
                     Live(prog, places, 0, j) /\ Declares(prog, places, j, name, d) <=>
                         j = 0 /\ name = prog[d].name
<1>1. d \in 0..Len(prog) /\ d - 1 \in 0..Len(prog) /\ prog[d] \in Token
  BY TreeStep
<1>2. prog[d].name \in Names
  BY <1>1, TokenFields
<1>3. ASSUME ~ Within(prog, places[d - 1]), places[d - 1] # <<>>
      PROVE  FALSE
  <2>1. prog[Inner(places[d - 1])].op = "class"
    BY <1>3, TreeStep DEF CallableOps
  <2>2. Len(places[d - 1]) \in 1..Len(places[d - 1])
    BY <1>1, <1>3, TreeInner
  <2> QED BY <1>3, <2>1, <2>2 DEF Inner, Within, CallableOps
<1>4. ASSUME places[d - 1] = <<>>, NEW j \in 0..Len(prog), NEW name \in Names
      PROVE  Live(prog, places, 0, j) /\ Declares(prog, places, j, name, d) <=>
                 j = 0 /\ name = prog[d].name
  <2>1. ASSUME Live(prog, places, 0, j), Declares(prog, places, j, name, d)
        PROVE  j = 0 /\ name = prog[d].name
    <3>1. ~ IsVar(prog, d)
      BY DEF IsVar, CallableOps
    <3>2. Within(prog, places[d])
      BY WithinStep
    <3>3. ~ Within(prog, places[j])
      BY <2>1 DEF Live
    <3> QED BY <2>1, <3>1, <3>2, <3>3, DeclaresFacts
  <2>2. ASSUME j = 0, name = prog[d].name
        PROVE  Live(prog, places, 0, j) /\ Declares(prog, places, j, name, d)
    <3>1. places[0] = <<>> /\ 0 \in 0..Len(prog)
      BY <2>2 DEF Tree
    <3>2. ~ Within(prog, places[0])
      BY <3>1, FunFacts
    <3> QED BY <1>4, <2>2, <3>2 DEF Live, Declares
  <2> QED BY <2>1, <2>2
<1> QED
  BY <1>2, <1>3, <1>4

\* Other tokens declare nothing.
LEMMA OtherDeclares ==
    ASSUME NEW prog, NEW places, Tree(prog, places), NEW d \in 1..Len(prog),
           prog[d].op \notin {"var", "for"} \cup CallableOps
    PROVE  \A j \in 0..Len(prog), name \in Names : ~ Declares(prog, places, j, name, d)
BY DEF Declares, CallableOps

-----------------------------------------------------------------------------
(* The pass over the globals.                                               *)

LEMMA SkipBodyMeans ==
    ASSUME NEW opens, NEW places, SymbolsInv(opens), MeansInv(opens, places), SkipBody
    PROVE  MeansInv(opens, places)'
<1>1. /\ phase = "globals" /\ Running /\ InCallable(open) /\ Step
      /\ UNCHANGED <<scope, subscope, table, num_globals, num_locals, start, refs>>
  BY DEF SkipBody
<1>2. at' = at + 1 /\ open' = OpenAfter(open, tok) /\ UNCHANGED <<program, phase>>
  BY <1>1 DEF Step
<1>3. /\ Tree(program, places)
      /\ at \in 1..Len(program) /\ at - 1 \in 0..Len(program) /\ at \in 0..Len(program)
  BY <1>1, Here
<1>4. /\ Within(program, places[at - 1])
      /\ InCallable(open') <=> Within(program, places[at])
  BY <1>1, <1>2, NextPlace
<1>5. /\ Holds(program, places, table, 0, 1..(at - 1))
      /\ subscope = <<>>
      /\ 1..at = (1..(at - 1)) \cup {at} /\ at \notin 1..(at - 1)
      /\ 1..at \subseteq 1..Len(program) /\ 1..(at - 1) \subseteq 1..Len(program)
  BY <1>1, GlobalsHere
<1>6. subscope' = IF InCallable(open') THEN <<>> ELSE Path(program, places[at])
  <2>1. Within(program, places[at]) \/ places[at] = <<>>
    BY <1>3, <1>4, WithinStep
  <2>2. places[at] = <<>> => Path(program, places[at]) = <<>>
    BY <1>3, PathType
  <2> QED BY <1>1, <1>4, <1>5, <2>1, <2>2
<1>7. ~ (IsVar(program, at) /\ Fun(program, places[at - 1]) = 0)
  <2>1. DeclaredIn(program, places, at) = DeclaredIn(program, places, at)
    OBVIOUS
  <2> QED BY <1>3, <1>4, <2>1, VarDeclares
<1>8. Holds(program, places, table, 0, 1..at)
  <2>1. ASSUME NEW j \in 0..Len(program), NEW name \in Names, NEW d \in 1..Len(program),
               Declares(program, places, j, name, d)
        PROVE  (d \in 1..(at - 1) /\ Live(program, places, 0, j)) <=>
                   (d \in 1..at /\ Live(program, places, 0, j))
    <3>1. CASE d = at
      <4>1. Within(program, places[j])
        BY <1>3, <1>4, <2>1, <3>1, NoGlobalWithin
      <4> QED BY <4>1 DEF Live
    <3>2. CASE d # at
      BY <1>5, <3>2
    <3> QED BY <3>1, <3>2
  <2> QED BY <1>5, <2>1, HoldsSame
<1>9. Holds(program, places, table', 0, 1..at)
  BY <1>1, <1>8
<1>10. num_globals' = IF IsVar(program, at) /\ Fun(program, places[at - 1]) = 0
                      THEN num_globals + 1 ELSE num_globals
  BY <1>1, <1>7
<1> QED
  BY <1>1, <1>6, <1>9, <1>10, GlobalsStep

LEMMA DeclareCallableMeans ==
    ASSUME NEW opens, NEW places, SymbolsInv(opens), MeansInv(opens, places), DeclareCallable
    PROVE  MeansInv(opens, places)'
<1> DEFINE key == <<Named(tok.name)>>
<1>1. /\ phase = "globals" /\ Running /\ ~ InCallable(open) /\ tok.op \in CallableOps
      /\ IF key \in DOMAIN table THEN Fail
         ELSE /\ table' = With([k \in {key} |-> [type |-> tok.op, index |-> 0]])
              /\ Step
              /\ UNCHANGED <<scope, subscope, num_globals, num_locals, start, refs>>
  BY DEF DeclareCallable
<1>2. /\ Tree(program, places)
      /\ at \in 1..Len(program) /\ at - 1 \in 0..Len(program) /\ at \in 0..Len(program)
      /\ open = Kinds(program, places[at - 1]) /\ 0 \in 0..Len(program)
  BY <1>1, Here
<1>3. tok = program[at]
  BY DEF tok
<1>4. places[at - 1] = <<>> /\ tok.name \in Names
  <2>1. ~ Within(program, places[at - 1])
    BY <1>1, <1>2, KindsFacts
  <2> QED BY <1>1, <1>2, <1>3, <2>1, CallableDeclares
<1>5. \A j \in 0..Len(program), name \in Names :
          Live(program, places, 0, j) /\ Declares(program, places, j, name, at) <=>
              j = 0 /\ name = tok.name
  BY <1>1, <1>2, <1>3, <1>4, CallableDeclares
<1>6. key = KeyIn(program, places, 0, tok.name)
  <2>1. places[0] = <<>> /\ Path(program, places[0]) = <<>>
    <3>1. places[0] = <<>>
      BY <1>2 DEF Tree
    <3> QED BY <1>2, <3>1, PathType
  <2> QED BY <2>1 DEF KeyIn
<1>7. /\ Holds(program, places, table, 0, 1..(at - 1))
      /\ subscope = Path(program, places[at - 1])
      /\ 1..at = (1..(at - 1)) \cup {at} /\ at \notin 1..(at - 1)
      /\ 1..at \subseteq 1..Len(program) /\ 1..(at - 1) \subseteq 1..Len(program)
  BY <1>1, GlobalsHere
<1> HIDE DEF key
<1>8. CASE key \in DOMAIN table
  <2>1. Live(program, places, 0, 0) /\ Declares(program, places, 0, tok.name, at)
    BY <1>2, <1>4, <1>5
  <2>2. ~ GoodProgram(program, places)
    BY <1>2, <1>4, <1>6, <1>7, <1>8, <2>1, HoldsClash
  <2> QED BY <1>1, <1>8, <2>2, FailMeans
<1>9. CASE key \notin DOMAIN table
  <2>1. /\ table' = With([k \in {key} |-> [type |-> tok.op, index |-> 0]])
        /\ Step /\ UNCHANGED <<subscope, num_globals, refs>>
    BY <1>1, <1>9
  <2>2. at' = at + 1 /\ open' = OpenAfter(open, tok) /\ UNCHANGED <<program, phase>>
    BY <2>1 DEF Step
  <2>3. subscope' = IF InCallable(open') THEN <<>> ELSE Path(program, places[at])
    <3>1. InCallable(open') <=> Within(program, places[at])
      BY <1>1, <2>2, NextPlace
    <3>2. Within(program, places[at])
      BY <1>1, <1>2, <1>3, WithinStep
    <3>3. Path(program, places[at - 1]) = <<>>
      BY <1>2, <1>4, PathType
    <3> QED BY <1>7, <2>1, <3>1, <3>2, <3>3
  <2>4. ~ IsVar(program, at)
    BY <1>1, <1>3 DEF IsVar, CallableOps
  <2>5. Adds(key, [type |-> tok.op, index |-> 0])
    BY <1>9, <2>1 DEF Adds
  <2>6. /\ DOMAIN table' = {key} \cup DOMAIN table
        /\ table'[key] = [type |-> tok.op, index |-> 0]
        /\ \A k \in DOMAIN table : table'[k] = table[k]
    BY <2>5, AddEntry
  <2>7. EntryFor(program, places, 0, tok.name, at) = [type |-> tok.op, index |-> 0]
    BY <1>3, <2>4 DEF EntryFor
  <2>8. Holds(program, places, table', 0, (1..(at - 1)) \cup {at})
    BY <1>2, <1>4, <1>5, <1>6, <1>7, <1>9, <2>6, <2>7, HoldsAdd
  <2>9. Holds(program, places, table', 0, 1..at)
    BY <1>7, <2>8
  <2>10. num_globals' = IF IsVar(program, at) /\ Fun(program, places[at - 1]) = 0
                        THEN num_globals + 1 ELSE num_globals
    BY <2>1, <2>4
  <2> QED BY <1>1, <2>1, <2>3, <2>9, <2>10, GlobalsStep
<1> QED
  BY <1>8, <1>9

\* The key that a variable gets.
LEMMA VariableKeyMeans ==
    ASSUME NEW places, Tree(program, places), at \in 1..Len(program), tok.op \in {"var", "for"},
           scope \o subscope = Path(program, places[at - 1])
    PROVE  VariableKey = KeyIn(program, places, DeclaredIn(program, places, at), tok.name)
<1>1. tok = program[at] /\ IsVar(program, at)
  BY DEF tok, IsVar
<1>2. VariableKey = (IF tok.op = "for" THEN Append(scope \o subscope, Block(at))
                     ELSE scope \o subscope) \o <<Named(tok.name)>>
  BY DEF VariableKey
<1>3. DeclaredIn(program, places, at) = DeclaredIn(program, places, at)
  OBVIOUS
<1>4. KeyIn(program, places, DeclaredIn(program, places, at), program[at].name) =
          (IF program[at].op = "for" THEN Append(Path(program, places[at - 1]), Block(at))
           ELSE Path(program, places[at - 1])) \o <<Named(program[at].name)>>
  BY <1>1, <1>3, VarKey
<1> QED
  BY <1>1, <1>2, <1>4

\* The scope after a token that is none of a function or class.
LEMMA ScopeAfterPath ==
    ASSUME NEW places, Tree(program, places), at \in 1..Len(program), tok.op \notin CallableOps
    PROVE  ScopeAfter(Path(program, places[at - 1]), tok) = Path(program, places[at])
<1>1. tok = program[at] /\ tok \in Token
  BY TreeStep DEF tok
<1>2. CASE tok.op \in {"use", "set", "var"}
  <2>1. places[at] = places[at - 1]
    BY <1>1, <1>2, TreeStep
  <2> QED BY <1>1, <1>2, <2>1, ScopeAfterCases
<1>3. CASE tok.op = "end"
  <2>1. Path(program, places[at]) = Front(Path(program, places[at - 1]))
    BY <1>1, <1>3, PathStep
  <2> QED BY <1>1, <1>3, <2>1, ScopeAfterCases
<1>4. CASE tok.op = "else"
  <2>1. Path(program, places[at]) = Append(Front(Path(program, places[at - 1])), Block(at))
    BY <1>1, <1>4, PathStep
  <2> QED BY <1>1, <1>4, <2>1, ScopeAfterCases
<1>5. CASE tok.op \in {"block", "for", "if"}
  <2>1. Path(program, places[at]) = Append(Path(program, places[at - 1]), Part(program, at))
    BY <1>1, <1>5, PathStep DEF Opens
  <2>2. Part(program, at) = Block(at)
    BY <1>1, <1>5 DEF Part, CallableOps
  <2> QED BY <1>1, <1>5, <2>1, <2>2, ScopeAfterCases
<1> QED
  BY <1>1, <1>2, <1>3, <1>4, <1>5, TokenFields DEF BlockOps, CallableOps

LEMMA DeclareGlobalMeans ==
    ASSUME NEW opens, NEW places, SymbolsInv(opens), MeansInv(opens, places), DeclareGlobal
    PROVE  MeansInv(opens, places)'
<1> DEFINE j0 == DeclaredIn(program, places, at)
           e == [type |-> "global", index |-> num_globals]
<1>1. /\ phase = "globals" /\ Running /\ ~ InCallable(open) /\ tok.op \in {"var", "for"}
      /\ IF VariableKey \in DOMAIN table THEN Fail
         ELSE /\ table' = With([k \in {VariableKey} |-> [type |-> "global", index |-> num_globals]])
              /\ num_globals' = num_globals + 1
              /\ subscope' = ScopeAfter(subscope, tok)
              /\ Step
              /\ UNCHANGED <<scope, num_locals, start, refs>>
  BY DEF DeclareGlobal
<1>2. /\ Tree(program, places)
      /\ at \in 1..Len(program) /\ at - 1 \in 0..Len(program) /\ at \in 0..Len(program)
      /\ open = Kinds(program, places[at - 1]) /\ NumbersInv(places) /\ at \in Nat \ {0}
  BY <1>1, Here
<1>3. tok = program[at] /\ IsVar(program, at)
  BY <1>1 DEF tok, IsVar
<1>4. /\ Holds(program, places, table, 0, 1..(at - 1))
      /\ subscope = Path(program, places[at - 1]) /\ scope = <<>>
      /\ 1..at = (1..(at - 1)) \cup {at} /\ at \notin 1..(at - 1)
      /\ 1..at \subseteq 1..Len(program) /\ 1..(at - 1) \subseteq 1..Len(program)
  BY <1>1, GlobalsHere
<1>5. ~ Within(program, places[at - 1])
  BY <1>1, <1>2, KindsFacts
<1>6. j0 = DeclaredIn(program, places, at)
  OBVIOUS
<1> HIDE DEF j0, e
<1>7. /\ j0 \in 0..Len(program) /\ tok.name \in Names
      /\ \A j \in 0..Len(program), name \in Names :
            Declares(program, places, j, name, at) <=> j = j0 /\ name = tok.name
      /\ Within(program, places[j0]) <=> Within(program, places[at - 1])
  BY <1>2, <1>3, <1>6, VarDeclares
<1>8. Live(program, places, 0, j0)
  BY <1>5, <1>7 DEF Live
<1>9. VariableKey = KeyIn(program, places, j0, tok.name)
  <2>1. scope \o subscope = Path(program, places[at - 1])
    <3>1. Path(program, places[at - 1]) \in Seq(Components)
      BY <1>2, PathType
    <3> QED BY <1>4, <3>1, ConcatEmptySeq
  <2> QED BY <1>1, <1>2, <1>6, <2>1, VariableKeyMeans
<1>10. Fun(program, places[at - 1]) = 0
  BY <1>2, <1>5, FunFacts
<1>11. CASE VariableKey \in DOMAIN table
  <2>1. Declares(program, places, j0, tok.name, at)
    BY <1>7
  <2>2. ~ GoodProgram(program, places)
    BY <1>2, <1>4, <1>7, <1>8, <1>9, <1>11, <2>1, HoldsClash
  <2> QED BY <1>1, <1>11, <2>2, FailMeans
<1>12. CASE VariableKey \notin DOMAIN table
  <2>1. /\ table' = With([k \in {VariableKey} |-> e])
        /\ num_globals' = num_globals + 1
        /\ subscope' = ScopeAfter(subscope, tok)
        /\ Step /\ UNCHANGED <<scope, num_locals, start, refs>>
    BY <1>1, <1>12 DEF e
  <2>2. at' = at + 1 /\ open' = OpenAfter(open, tok) /\ UNCHANGED <<program, phase>>
    BY <2>1 DEF Step
  <2>3. subscope' = IF InCallable(open') THEN <<>> ELSE Path(program, places[at])
    <3>1. InCallable(open') <=> Within(program, places[at])
      BY <1>1, <2>2, NextPlace
    <3>2. tok.op \notin CallableOps
      BY <1>1 DEF CallableOps
    <3>3. ~ Within(program, places[at])
      BY <1>2, <1>3, <1>5, <3>2, WithinStep
    <3>4. ScopeAfter(Path(program, places[at - 1]), tok) = Path(program, places[at])
      BY <1>2, <3>2, ScopeAfterPath
    <3> QED BY <1>4, <2>1, <3>1, <3>3, <3>4
  <2>4. /\ DOMAIN table' = {VariableKey} \cup DOMAIN table
        /\ table'[VariableKey] = e
        /\ \A k \in DOMAIN table : table'[k] = table[k]
    <3>1. Adds(VariableKey, e)
      BY <1>12, <2>1 DEF Adds
    <3> QED BY <3>1, AddEntry
  <2>5. EntryFor(program, places, j0, tok.name, at) = e
    <3>1. num_globals = Cardinality(VarsOf(program, places, 0, at))
      BY <1>1, <1>2 DEF NumbersInv
    <3>2. Cardinality(VarsOf(program, places, 0, at)) \in Nat
      BY <1>2, VarsStep
    <3>3. EntryFor(program, places, j0, tok.name, at) =
              [type |-> "global", index |-> 0 + Cardinality(VarsOf(program, places, 0, at))]
      BY <1>3, <1>10 DEF EntryFor, VarEntry, First
    <3> QED BY <3>1, <3>2, <3>3 DEF e
  <2>6. Holds(program, places, table', 0, (1..(at - 1)) \cup {at})
    <3>1. \A j \in 0..Len(program), name \in Names :
              Live(program, places, 0, j) /\ Declares(program, places, j, name, at) <=>
                  j = j0 /\ name = tok.name
      BY <1>7, <1>8
    <3> QED BY <1>2, <1>4, <1>7, <1>9, <1>12, <2>4, <2>5, <3>1, HoldsAdd
  <2>7. Holds(program, places, table', 0, 1..at)
    BY <1>4, <2>6
  <2>8. num_globals' = IF IsVar(program, at) /\ Fun(program, places[at - 1]) = 0
                       THEN num_globals + 1 ELSE num_globals
    BY <1>3, <1>10, <2>1
  <2> QED BY <1>1, <2>1, <2>3, <2>7, <2>8, GlobalsStep
<1> QED
  BY <1>11, <1>12

LEMMA PopulateOtherGlobals ==
    ASSUME NEW opens, NEW places, SymbolsInv(opens), MeansInv(opens, places), PopulateOther,
           phase = "globals"
    PROVE  MeansInv(opens, places)'
<1>1. /\ Running /\ ~ InCallable(open) /\ tok.op \notin {"var", "for"} \cup CallableOps
      /\ subscope' = ScopeAfter(subscope, tok)
      /\ Step /\ UNCHANGED <<scope, table, num_globals, num_locals, start, refs>>
  BY DEF PopulateOther
<1>2. at' = at + 1 /\ open' = OpenAfter(open, tok) /\ UNCHANGED <<program, phase>>
  BY <1>1 DEF Step
<1>3. /\ Tree(program, places)
      /\ at \in 1..Len(program) /\ at - 1 \in 0..Len(program) /\ at \in 0..Len(program)
      /\ open = Kinds(program, places[at - 1])
  BY <1>1, Here
<1>4. tok = program[at]
  BY DEF tok
<1>5. /\ Holds(program, places, table, 0, 1..(at - 1))
      /\ subscope = Path(program, places[at - 1])
      /\ 1..at = (1..(at - 1)) \cup {at} /\ at \notin 1..(at - 1)
      /\ 1..at \subseteq 1..Len(program) /\ 1..(at - 1) \subseteq 1..Len(program)
  BY <1>1, GlobalsHere
<1>6. subscope' = IF InCallable(open') THEN <<>> ELSE Path(program, places[at])
  <2>1. ~ Within(program, places[at - 1])
    BY <1>1, <1>3, KindsFacts
  <2>2. InCallable(open') <=> Within(program, places[at])
    BY <1>1, <1>2, NextPlace
  <2>3. ~ Within(program, places[at])
    BY <1>1, <1>3, <1>4, <2>1, WithinStep
  <2>4. ScopeAfter(Path(program, places[at - 1]), tok) = Path(program, places[at])
    BY <1>1, <1>3, ScopeAfterPath
  <2> QED BY <1>1, <1>5, <2>2, <2>3, <2>4
<1>7. Holds(program, places, table, 0, 1..at)
  <2>1. \A j \in 0..Len(program), name \in Names : ~ Declares(program, places, j, name, at)
    BY <1>1, <1>3, <1>4, OtherDeclares
  <2>2. \A j \in 0..Len(program), name \in Names, d \in 1..Len(program) :
            Declares(program, places, j, name, d) =>
                ((d \in 1..(at - 1) /\ Live(program, places, 0, j)) <=>
                    (d \in 1..at /\ Live(program, places, 0, j)))
    BY <1>5, <2>1
  <2> QED BY <1>5, <2>2, HoldsSame
<1>8. Holds(program, places, table', 0, 1..at)
  BY <1>1, <1>7
<1>9. num_globals' = IF IsVar(program, at) /\ Fun(program, places[at - 1]) = 0
                     THEN num_globals + 1 ELSE num_globals
  BY <1>1, <1>4 DEF IsVar
<1> QED
  BY <1>1, <1>6, <1>8, <1>9, GlobalsStep

-----------------------------------------------------------------------------
(* The pass over the locals of a function.                                  *)

LEMMA KindsElements ==
    ASSUME NEW prog, NEW places, Tree(prog, places), NEW i \in 0..Len(prog)
    PROVE  /\ Len(Kinds(prog, places[i])) = Len(places[i])
           /\ \A n \in 1..Len(places[i]) : Kinds(prog, places[i])[n] = prog[places[i][n]].op
<1> DEFINE p == places[i]
           k == Kinds(prog, p)
<1>1. Len(p) \in Nat
  BY TreeFacts
<1>2. k = [n \in 1..Len(p) |-> prog[p[n]].op]
  BY DEF Kinds
<1>3. WellNested(Kinds(prog, p))
  BY DEF Tree
<1> HIDE DEF p
<1>4. k \in Seq(BlockOps \cup CallableOps)
  BY <1>3 DEF WellNested
<1>5. Len(k) \in Nat /\ DOMAIN k = 1..Len(k) /\ k \in [1..Len(k) -> BlockOps \cup CallableOps]
  BY <1>4, LenProperties
<1>6. DOMAIN k = 1..Len(p) /\ \A n \in 1..Len(p) : k[n] = prog[p[n]].op
  BY <1>2
<1> HIDE DEF k
<1>7. Len(k) = Len(p)
  <2>1. k \in [1..Len(p) -> BlockOps \cup CallableOps]
    BY <1>5, <1>6
  <2> QED BY <1>1, <2>1, SequenceOfValues
<1> QED
  BY <1>6, <1>7 DEF p, k

\* What is declared when the pass has come to token n of the function f.
LocalTokens(prog, places, f, n) == {d \in 1..Len(prog) : d < n \/ Fun(prog, places[d - 1]) # f}

LEMMA LocalsHere ==
    ASSUME NEW opens, NEW places, SymbolsInv(opens), MeansInv(opens, places), Running,
           phase = "locals"
    PROVE  /\ start \in 1..(at - 1) /\ start \in 1..Len(program)
           /\ Fun(program, places[at - 1]) = start /\ program[start].op = "function"
           /\ scope = Path(program, places[start]) /\ Inner(places[start]) = start
           /\ scope \o subscope = Path(program, places[at - 1])
           /\ IsInjective(program[start].params)
           /\ num_locals = First(program, start)
                           + Cardinality(VarsOf(program, places, start, at))
           /\ Holds(program, places, table, start, LocalTokens(program, places, start, at))
<1>1. /\ Tree(program, places)
      /\ at \in 1..Len(program) /\ at - 1 \in 0..Len(program)
      /\ open = Kinds(program, places[at - 1])
      /\ PathInv(places) /\ StartInv(places) /\ NumbersInv(places)
      /\ Holds(program, places, table, Current(places), Declared(places))
  BY Here
<1>2. WellNested(open)
  BY Context
<1>3. start \in 1..(at - 1) /\ open[Len(scope)] = "function" /\ Len(scope) \in 1..Len(open)
  <2>1. /\ start \in 1..(at - 1) /\ open[Len(scope)] = "function"
        /\ Len(scope) \in Nat /\ Len(scope) >= 1
        /\ Len(open) = Len(scope) + Len(subscope) /\ subscope \in Seq(Components)
    BY <1>2, InFunction
  <2>2. Len(subscope) \in Nat
    BY <2>1, LenProperties
  <2>3. \A a, b \in Nat : a >= 1 => a \in 1..(a + b)
    OBVIOUS
  <2>4. Len(scope) \in 1..(Len(scope) + Len(subscope))
    BY <2>1, <2>2, <2>3
  <2> QED BY <2>1, <2>4
<1>4. start \in 1..Len(program)
  BY <1>1, <1>3
<1> DEFINE n == Len(scope)
           p == places[at - 1]
<1>5. n \in 1..Len(p) /\ program[p[n]].op = "function"
  <2>1. /\ Len(Kinds(program, places[at - 1])) = Len(places[at - 1])
        /\ \A m \in 1..Len(places[at - 1]) :
              Kinds(program, places[at - 1])[m] = program[places[at - 1][m]].op
    BY <1>1, KindsElements
  <2> QED BY <1>1, <1>3, <2>1
<1> HIDE DEF n
<1>6. Fun(program, p) # 0
  <2>1. \A m \in 1..Len(p) : program[p[m]].op = "function" => Fun(program, p) = p[m]
    BY <1>1, FunFacts
  <2>2. p[n] \in 1..(at - 1)
    BY <1>1, <1>5, TreeFacts
  <2>3. 0 \notin 1..(at - 1)
    OBVIOUS
  <2> QED BY <1>5, <2>1, <2>2, <2>3
<1>7. Current(places) = Fun(program, p)
  BY DEF Current, OwnPass
<1>8. start = Fun(program, p) /\ IsInjective(program[start].params)
  BY <1>1, <1>6, <1>7 DEF StartInv
<1>9. program[start].op = "function"
  BY <1>1, <1>6, <1>8, FunFacts
<1>10. Declared(places) = LocalTokens(program, places, start, at)
  BY DEF Declared, LocalTokens
<1> QED
  BY <1>1, <1>3, <1>4, <1>7, <1>8, <1>9, <1>10 DEF PathInv, NumbersInv

LEMMA LocalsStep ==
    ASSUME NEW opens, NEW places, SymbolsInv(opens), MeansInv(opens, places), Running,
           phase = "locals", ~ AtFunctionEnd, tok.op \notin CallableOps,
           Step, UNCHANGED <<scope, start, refs>>,
           subscope' = ScopeAfter(subscope, tok),
           num_locals' = IF IsVar(program, at) THEN num_locals + 1 ELSE num_locals,
           Holds(program, places, table', start, LocalTokens(program, places, start, at + 1))
    PROVE  MeansInv(opens, places)'
<1>1. /\ at' = at + 1 /\ open' = OpenAfter(open, tok) /\ UNCHANGED <<program, phase>>
      /\ phase' = "locals"
  BY DEF Step
<1>2. /\ Tree(program, places)
      /\ at \in 1..Len(program) /\ at - 1 \in 0..Len(program) /\ at \in 0..Len(program)
      /\ at \in Nat \ {0} /\ at' - 1 = at /\ GeneratedInv(places)
  BY <1>1, Here
<1>3. tok = program[at]
  BY DEF tok
<1>4. /\ start \in 1..(at - 1) /\ start \in 1..Len(program)
      /\ Fun(program, places[at - 1]) = start /\ program[start].op = "function"
      /\ scope = Path(program, places[start]) /\ Inner(places[start]) = start
      /\ scope \o subscope = Path(program, places[at - 1])
      /\ IsInjective(program[start].params)
      /\ num_locals = First(program, start) + Cardinality(VarsOf(program, places, start, at))
  BY LocalsHere
<1>5. Fun(program, places[at]) = start
  <2>1. program[at].op # "function"
    BY <1>3 DEF CallableOps
  <2>2. ~ (program[at].op = "end" /\ program[Inner(places[at - 1])].op = "function")
    <3>1. tok.op = "end" => places[at - 1] # <<>>
      BY <1>2, <1>3, TreeStep
    <3> QED BY <1>1, <1>3, <3>1, NextPlace
  <2> QED BY <1>2, <1>4, <2>1, <2>2, FunStep
<1>6. scope \o subscope' = Path(program, places[at])
  <2>1. /\ WellNested(open) /\ MayFollow(open, tok) /\ tok \in Token /\ at \in 1..MaxTokens
    BY Context
  <2>2. /\ scope \in Seq(Components) /\ subscope \in Seq(Components)
        /\ subscope = <<>> => Last(open) = "function"
    BY <2>1, InFunction
  <2>3. tok.op \in {"end", "else"} => subscope # <<>>
    BY <2>1, <2>2 DEF AtFunctionEnd, MayFollow
  <2>4. scope \o ScopeAfter(subscope, tok) = ScopeAfter(scope \o subscope, tok)
    BY <2>1, <2>2, <2>3, ScopeAfterConcat
  <2>5. ScopeAfter(Path(program, places[at - 1]), tok) = Path(program, places[at])
    BY <1>2, ScopeAfterPath
  <2> QED BY <1>4, <2>4, <2>5
<1>7. PathInv(places)'
  BY <1>1, <1>2, <1>4, <1>6 DEF PathInv
<1>8. Current(places)' = start
  BY <1>1, <1>2, <1>5 DEF Current, OwnPass
<1>9. StartInv(places)'
  BY <1>1, <1>4, <1>8 DEF StartInv
<1>10. NumbersInv(places)'
  <2> DEFINE c == Cardinality(VarsOf(program, places, start, at))
             c2 == Cardinality(VarsOf(program, places, start, at + 1))
  <2>1. /\ c \in Nat
        /\ IsVar(program, at) => c2 = c + 1
        /\ ~ IsVar(program, at) => c2 = c
    BY <1>2, <1>4, VarsStep
  <2>2. First(program, start) \in Nat
    BY DEF First
  <2> HIDE DEF c, c2
  <2>3. num_locals = First(program, start) + c
    BY <1>4 DEF c
  <2>4. num_locals' = First(program, start) + c2
    BY <2>1, <2>2, <2>3
  <2>5. num_locals' = First(program, start)
                      + Cardinality(VarsOf(program, places, start, at'))
    BY <1>1, <2>4 DEF c2
  <2> QED BY <1>1, <2>5 DEF NumbersInv
<1>11. Holds(program, places, table, Current(places), Declared(places))'
  <2>1. Declared(places)' = LocalTokens(program, places, start, at + 1)
    BY <1>1 DEF Declared, LocalTokens
  <2> QED BY <1>1, <1>8, <2>1
<1>12. GeneratedInv(places)'
  <2>1. InClass(open') <=> InClass(open)
    <3>1. /\ InClass(open') <=> (places[at] # <<>> /\ program[places[at][1]].op = "class")
          /\ OfClass(program, places, at) <=> InClass(open) \/ tok.op = "class"
      BY <1>1, NextPlace
    <3>2. tok.op # "class"
      BY DEF CallableOps
    <3>3. places[at] # <<>>
      <4>1. start # 0
        BY <1>4
      <4> QED BY <1>2, <1>5, <4>1, FunFacts
    <3>4. /\ ~ OfClass(program, places, at) /\ places[at] # <<>> =>
                program[places[at][1]].op # "class"
          /\ OfClass(program, places, at) /\ places[at] # <<>> =>
                program[places[at][1]].op = "class"
      BY <1>2, ClassStep
    <3> QED BY <3>1, <3>2, <3>3, <3>4
  <2>2. Generated(places)' = Generated(places)
    BY <1>1, <2>1 DEF Generated
  <2> QED BY <1>1, <1>2, <2>2 DEF GeneratedInv
<1>13. \A r \in refs' : r.at \in 1..Len(program) /\ r.entry = MeaningAt(program, places, r.at)
  BY DEF MeansInv
<1> QED
  BY <1>1, <1>7, <1>9, <1>10, <1>11, <1>12, <1>13, StepMeans

LEMMA DeclareLocalMeans ==
    ASSUME NEW opens, NEW places, SymbolsInv(opens), MeansInv(opens, places), DeclareLocal
    PROVE  MeansInv(opens, places)'
<1> DEFINE j0 == DeclaredIn(program, places, at)
           e == [type |-> "local", index |-> num_locals]
           R == LocalTokens(program, places, start, at)
<1>1. /\ phase = "locals" /\ Running /\ tok.op \in {"var", "for"}
      /\ IF VariableKey \in DOMAIN table THEN Fail
         ELSE /\ table' = With([k \in {VariableKey} |-> [type |-> "local", index |-> num_locals]])
              /\ num_locals' = num_locals + 1
              /\ subscope' = ScopeAfter(subscope, tok)
              /\ Step
              /\ UNCHANGED <<scope, num_globals, start, refs>>
  BY DEF DeclareLocal
<1>2. /\ Tree(program, places)
      /\ at \in 1..Len(program) /\ at - 1 \in 0..Len(program) /\ at \in 0..Len(program)
      /\ at \in Nat \ {0}
  BY <1>1, Here
<1>3. tok = program[at] /\ IsVar(program, at)
  BY <1>1 DEF tok, IsVar
<1>4. /\ start \in 1..Len(program) /\ Fun(program, places[at - 1]) = start
      /\ scope \o subscope = Path(program, places[at - 1])
      /\ num_locals = First(program, start) + Cardinality(VarsOf(program, places, start, at))
      /\ Holds(program, places, table, start, R)
  BY <1>1, LocalsHere
<1>5. R \subseteq 1..Len(program) /\ at \notin R
      /\ LocalTokens(program, places, start, at + 1) = R \cup {at}
  <2>1. \A d \in 1..Len(program) : d < at + 1 <=> d < at \/ d = at
    BY <1>2
  <2>2. ~ (at < at)
    BY <1>2
  <2> QED BY <1>2, <1>4, <2>1, <2>2 DEF LocalTokens
<1>6. j0 = DeclaredIn(program, places, at)
  OBVIOUS
<1> HIDE DEF j0, e, R
<1>7. /\ j0 \in 0..Len(program) /\ tok.name \in Names
      /\ \A j \in 0..Len(program), name \in Names :
            Declares(program, places, j, name, at) <=> j = j0 /\ name = tok.name
      /\ Fun(program, places[j0]) = Fun(program, places[at - 1])
  BY <1>2, <1>3, <1>6, VarDeclares
<1>8. start # 0 /\ Live(program, places, start, j0)
  BY <1>4, <1>7 DEF Live
<1>9. VariableKey = KeyIn(program, places, j0, tok.name)
  BY <1>1, <1>2, <1>4, <1>6, VariableKeyMeans
<1>10. CASE VariableKey \in DOMAIN table
  <2>1. Declares(program, places, j0, tok.name, at)
    BY <1>7
  <2>2. ~ GoodProgram(program, places)
    BY <1>2, <1>4, <1>5, <1>7, <1>8, <1>9, <1>10, <2>1, HoldsClash
  <2> QED BY <1>1, <1>10, <2>2, FailMeans
<1>11. CASE VariableKey \notin DOMAIN table
  <2>1. /\ table' = With([k \in {VariableKey} |-> e])
        /\ num_locals' = num_locals + 1
        /\ subscope' = ScopeAfter(subscope, tok)
        /\ Step /\ UNCHANGED <<scope, num_globals, start, refs>>
    BY <1>1, <1>11 DEF e
  <2>2. /\ DOMAIN table' = {VariableKey} \cup DOMAIN table
        /\ table'[VariableKey] = e
        /\ \A k \in DOMAIN table : table'[k] = table[k]
    <3>1. Adds(VariableKey, e)
      BY <1>11, <2>1 DEF Adds
    <3> QED BY <3>1, AddEntry
  <2>3. EntryFor(program, places, j0, tok.name, at) = e
    BY <1>3, <1>4, <1>8 DEF EntryFor, VarEntry, e
  <2>4. Holds(program, places, table', start, R \cup {at})
    <3>1. \A j \in 0..Len(program), name \in Names :
              Live(program, places, start, j) /\ Declares(program, places, j, name, at) <=>
                  j = j0 /\ name = tok.name
      BY <1>7, <1>8
    <3> QED BY <1>2, <1>4, <1>7, <1>9, <1>11, <2>2, <2>3, <3>1, HoldsAdd
  <2>5. Holds(program, places, table', start, LocalTokens(program, places, start, at + 1))
    BY <1>5, <2>4
  <2>6. num_locals' = IF IsVar(program, at) THEN num_locals + 1 ELSE num_locals
    BY <1>3, <2>1
  <2>7. ~ AtFunctionEnd /\ tok.op \notin CallableOps
    BY <1>1 DEF AtFunctionEnd, CallableOps
  <2> QED BY <1>1, <2>1, <2>5, <2>6, <2>7, LocalsStep
<1> QED
  BY <1>10, <1>11

LEMMA PopulateOtherMeans ==
    ASSUME NEW opens, NEW places, SymbolsInv(opens), MeansInv(opens, places), PopulateOther
    PROVE  MeansInv(opens, places)'
<1>1. CASE phase = "globals"
  BY <1>1, PopulateOtherGlobals
<1>2. CASE phase = "locals"
  <2>1. /\ Running /\ ~ AtFunctionEnd /\ tok.op \notin {"var", "for"} \cup CallableOps
        /\ subscope' = ScopeAfter(subscope, tok)
        /\ Step /\ UNCHANGED <<scope, table, num_globals, num_locals, start, refs>>
    BY <1>2 DEF PopulateOther
  <2>2. /\ Tree(program, places)
        /\ at \in 1..Len(program) /\ at \in Nat \ {0}
    BY <2>1, Here
  <2>3. tok = program[at]
    BY DEF tok
  <2>4. \A j \in 0..Len(program), name \in Names : ~ Declares(program, places, j, name, at)
    BY <2>1, <2>2, <2>3, OtherDeclares
  <2> DEFINE R == LocalTokens(program, places, start, at)
             S == LocalTokens(program, places, start, at + 1)
  <2>5. /\ R \subseteq 1..Len(program) /\ S \subseteq 1..Len(program)
        /\ \A d \in 1..Len(program) : d # at => (d \in R <=> d \in S)
    <3>1. \A d \in 1..Len(program) : d # at => (d < at + 1 <=> d < at)
      BY <2>2
    <3> QED BY <3>1 DEF LocalTokens
  <2>6. Holds(program, places, table, start, R)
    BY <1>2, <2>1, LocalsHere
  <2> HIDE DEF R, S
  <2>7. Holds(program, places, table, start, S)
    <3>1. \A j \in 0..Len(program), name \in Names, d \in 1..Len(program) :
              Declares(program, places, j, name, d) =>
                  ((d \in R /\ Live(program, places, start, j)) <=>
                      (d \in S /\ Live(program, places, start, j)))
      BY <2>4, <2>5
    <3> QED BY <2>5, <2>6, <3>1, HoldsSame
  <2>8. Holds(program, places, table', start, LocalTokens(program, places, start, at + 1))
    BY <2>1, <2>7 DEF S
  <2>9. num_locals' = IF IsVar(program, at) THEN num_locals + 1 ELSE num_locals
    BY <2>1, <2>3 DEF IsVar
  <2> QED BY <1>2, <2>1, <2>8, <2>9, LocalsStep
<1> QED
  BY <1>1, <1>2 DEF PopulateOther

-----------------------------------------------------------------------------
(* The passes that generate code.                                           *)

LEMMA GeneratingHere ==
    ASSUME NEW opens, NEW places, SymbolsInv(opens), MeansInv(opens, places), Generating
    PROVE  /\ Running /\ phase \in {"classes", "code"}
           /\ scope = Path(program, places[at - 1])
           /\ Current(places) = Fun(program, places[at - 1])
           /\ Declared(places) = 1..Len(program)
           /\ Holds(program, places, table, Fun(program, places[at - 1]), 1..Len(program))
           /\ phase = "classes" <=> OfClass(program, places, at)
<1>1. /\ scope \in Seq(Components) /\ Len(scope) = Len(open)
      /\ phase \in {"classes", "code"} /\ Running
      /\ phase = "classes" <=> (InClass(open) \/ tok.op = "class")
  BY GeneratingScope
<1>2. /\ Tree(program, places)
      /\ at \in 1..Len(program) /\ at - 1 \in 0..Len(program)
      /\ open = Kinds(program, places[at - 1]) /\ PathInv(places)
      /\ Holds(program, places, table, Current(places), Declared(places))
  BY <1>1, Here
<1>3. tok = program[at]
  BY DEF tok
<1>4. /\ open = <<>> <=> places[at - 1] = <<>>
      /\ InClass(open) <=> (places[at - 1] # <<>> /\ program[places[at - 1][1]].op = "class")
  BY <1>2, KindsFacts
<1>5. phase = "classes" <=> OfClass(program, places, at)
  BY <1>1, <1>3, <1>4 DEF OfClass
<1>6. Declared(places) = 1..Len(program)
  BY <1>1 DEF Declared
<1>7. CASE tok.op # "class"
  <2>1. OwnPass
    BY <1>1, <1>7 DEF OwnPass, InClass
  <2>2. scope = Path(program, places[at - 1]) /\ Current(places) = Fun(program, places[at - 1])
    BY <1>1, <1>2, <2>1 DEF PathInv, Current
  <2> QED BY <1>1, <1>2, <1>5, <1>6, <2>2
<1>8. CASE tok.op = "class"
  <2>1. places[at - 1] = <<>>
    BY <1>2, <1>3, <1>8, TreeStep
  <2>2. scope = <<>>
    <3>1. open = <<>>
      BY <1>4, <2>1
    <3>2. Len(scope) = 0
      BY <1>1, <3>1
    <3> QED BY <1>1, <3>2, EmptySeq
  <2>3. Path(program, places[at - 1]) = <<>> /\ Fun(program, places[at - 1]) = 0
    <3>1. /\ Within(program, places[at - 1]) <=>
                (places[at - 1] # <<>> /\ program[places[at - 1][1]].op \in CallableOps)
          /\ Fun(program, places[at - 1]) # 0 => Within(program, places[at - 1])
      BY <1>2, FunFacts
    <3>2. Path(program, places[at - 1]) = <<>>
      BY <1>2, <2>1, PathType
    <3> QED BY <2>1, <3>1, <3>2
  <2>4. Current(places) = 0
    BY <2>3 DEF Current
  <2> QED BY <1>1, <1>2, <1>5, <1>6, <2>2, <2>3, <2>4
<1> QED
  BY <1>7, <1>8

\* The variables, and the function that is open, after a token of this pass.
LEMMA GenerateStep ==
    ASSUME NEW opens, NEW places, SymbolsInv(opens), MeansInv(opens, places), Generating,
           tok.op # "function", Step, UNCHANGED start,
           scope' = Path(program, places[at]),
           Holds(program, places, table', Fun(program, places[at]), 1..Len(program)),
           GoodToken(program, places, at),
           \A i : (\E r \in refs' : r.at = i) <=>
                      \/ \E r \in refs : r.at = i
                      \/ i = at /\ tok.op \in {"use", "set", "var", "for"},
           \A r \in refs' : r.at \in 1..Len(program) /\ r.entry = MeaningAt(program, places, r.at)
    PROVE  MeansInv(opens, places)'
<1>1. /\ Running /\ phase \in {"classes", "code"}
      /\ Current(places) = Fun(program, places[at - 1])
      /\ phase = "classes" <=> OfClass(program, places, at)
  BY GeneratingHere
<1>2. at' = at + 1 /\ open' = OpenAfter(open, tok) /\ UNCHANGED <<program, phase>>
  BY DEF Step
<1>3. /\ Tree(program, places)
      /\ at \in 1..Len(program) /\ at - 1 \in 0..Len(program) /\ at \in 0..Len(program)
      /\ at \in Nat \ {0} /\ at' - 1 = at /\ StartInv(places) /\ GeneratedInv(places)
  BY <1>1, <1>2, Here
<1>4. tok = program[at]
  BY DEF tok
<1>5. phase' \in {"classes", "code"} /\ phase' # "globals" /\ phase' # "locals"
      /\ phase # "globals" /\ phase # "locals" /\ phase # "done"
  BY <1>1, <1>2
<1>6. /\ InClass(open') <=> (places[at] # <<>> /\ program[places[at][1]].op = "class")
      /\ ~ OfClass(program, places, at) /\ places[at] # <<>> =>
            program[places[at][1]].op # "class"
      /\ OfClass(program, places, at) /\ places[at] # <<>> =>
            program[places[at][1]].op = "class"
  <2>1. InClass(open') <=> (places[at] # <<>> /\ program[places[at][1]].op = "class")
    BY <1>1, <1>2, NextPlace
  <2> QED BY <1>3, <2>1, ClassStep
<1>7. Current(places)' = Fun(program, places[at])
  <2>1. CASE places[at] # <<>>
    <3>1. OwnPass'
      BY <1>1, <1>2, <1>5, <1>6, <2>1 DEF OwnPass, InClass
    <3> QED BY <1>2, <1>3, <3>1 DEF Current
  <2>2. CASE places[at] = <<>>
    <3>1. Fun(program, places[at]) = 0
      BY <1>3, <2>2, FunFacts
    <3> QED BY <1>2, <1>3, <3>1 DEF Current
  <2> QED BY <2>1, <2>2
<1>8. PathInv(places)'
  BY <1>2, <1>3, <1>5 DEF PathInv
<1>9. StartInv(places)'
  <2>1. Fun(program, places[at]) = 0 \/ Fun(program, places[at]) = Fun(program, places[at - 1])
    BY <1>3, <1>4, FunStep
  <2>2. Fun(program, places[at]) # 0 => start = Fun(program, places[at])
    BY <1>1, <1>3, <1>5, <2>1 DEF StartInv
  <2> QED BY <1>5, <1>7, <2>2 DEF StartInv
<1>10. NumbersInv(places)'
  BY <1>5 DEF NumbersInv
<1>11. Holds(program, places, table, Current(places), Declared(places))'
  <2>1. Declared(places)' = 1..Len(program)
    BY <1>2, <1>5 DEF Declared
  <2> QED BY <1>2, <1>7, <2>1
<1>12. Generated(places)' = Generated(places) \cup {at}
  <2>1. \A i \in 1..Len(program) : i < at + 1 <=> i < at \/ i = at
    BY <1>3
  <2>2. CASE phase = "classes"
    <3>1. Generated(places) = {i \in 1..Len(program) : OfClass(program, places, i) /\ i < at}
      BY <2>2 DEF Generated
    <3>2. Generated(places)' =
              {i \in 1..Len(program) : OfClass(program, places, i) /\ i < at + 1}
      BY <1>2, <2>2 DEF Generated
    <3> QED BY <1>1, <1>3, <2>1, <2>2, <3>1, <3>2
  <2>3. CASE phase = "code"
    <3>1. Generated(places) = {i \in 1..Len(program) : OfClass(program, places, i) \/ i < at}
      BY <2>3 DEF Generated
    <3>2. Generated(places)' =
              {i \in 1..Len(program) : OfClass(program, places, i) \/ i < at + 1}
      BY <1>2, <2>3 DEF Generated
    <3> QED BY <1>1, <1>3, <2>1, <2>3, <3>1, <3>2
  <2> QED BY <1>1, <2>2, <2>3
<1>13. GeneratedInv(places)'
  <2> DEFINE G == Generated(places)
             Named2 == {"use", "set", "var", "for"}
  <2>1. /\ {r.at : r \in refs} = {i \in G : program[i].op \in Named2}
        /\ \A i \in G :
              /\ GoodToken(program, places, i)
              /\ program[i].op = "function" =>
                    \A j \in 1..Len(program) : Fun(program, places[j]) = i => Unique(program, places, j)
    BY <1>3 DEF GeneratedInv
  <2> HIDE DEF G
  <2>2. {r.at : r \in refs'} = {i \in G \cup {at} : program[i].op \in Named2}
    <3>1. \A i : i \in {r.at : r \in refs} <=> \E r \in refs : r.at = i
      OBVIOUS
    <3>2. \A i : i \in {r.at : r \in refs'} <=> \E r \in refs' : r.at = i
      OBVIOUS
    <3>3. \A i : i \in {r.at : r \in refs'} <=>
                     i \in {r.at : r \in refs} \/ (i = at /\ program[at].op \in Named2)
      BY <1>4, <3>1, <3>2
    <3> QED BY <2>1, <3>3
  <2>3. \A i \in G \cup {at} :
            /\ GoodToken(program, places, i)
            /\ program[i].op = "function" =>
                  \A j \in 1..Len(program) : Fun(program, places[j]) = i => Unique(program, places, j)
    BY <1>4, <2>1
  <2> QED BY <1>2, <1>12, <2>2, <2>3 DEF GeneratedInv, G
<1> QED
  BY <1>2, <1>5, <1>8, <1>9, <1>10, <1>11, <1>13, StepMeans

\* Where a name is looked up: a loop has its variable in its body.
LEMMA LookupMeans ==
    ASSUME NEW opens, NEW places, SymbolsInv(opens), MeansInv(opens, places), Generating,
           tok.op \in {"use", "set", "var", "for"},
           NEW s, s = Path(program, Looked(program, places, at))
    PROVE  /\ Lookup(s, tok.name) = <<>> =>
                 Finding(program, places, Looked(program, places, at), tok.name) = {}
           /\ Lookup(s, tok.name) # <<>> =>
                 /\ Finding(program, places, Looked(program, places, at), tok.name) # {}
                 /\ table[Lookup(s, tok.name)] = MeaningAt(program, places, at)
           /\ Fun(program, places[at]) = Fun(program, places[at - 1])
<1> DEFINE L == IF tok.op = "for" THEN at ELSE at - 1
<1>1. Running /\ Holds(program, places, table, Fun(program, places[at - 1]), 1..Len(program))
  BY GeneratingHere
<1>2. /\ Tree(program, places) /\ tok \in Token
      /\ at \in 1..Len(program) /\ at - 1 \in 0..Len(program) /\ at \in 0..Len(program)
  BY <1>1, Here
<1>3. tok = program[at]
  BY DEF tok
<1>4. L \in 0..Len(program) /\ Looked(program, places, at) = places[L]
  BY <1>2, <1>3 DEF Looked
<1>5. Fun(program, places[at]) = Fun(program, places[at - 1])
  BY <1>2, <1>3, FunStep
<1>6. Fun(program, places[L]) = Fun(program, places[at - 1])
  BY <1>5
<1>7. tok.name \in Names
  BY <1>2, TokenFields
<1> HIDE DEF L
<1>8. Holds(program, places, table, Fun(program, places[L]), 1..Len(program))
  BY <1>1, <1>6
<1> DEFINE F == Finding(program, places, places[L], tok.name)
           j == Found(program, places, places[L], tok.name)
<1>10. F = {} => Lookup(Path(program, places[L]), tok.name) = <<>>
  BY <1>2, <1>4, <1>7, <1>8, LookupFinding
<1>11. ASSUME F # {}
       PROVE  /\ Lookup(Path(program, places[L]), tok.name) # <<>>
              /\ table[Lookup(Path(program, places[L]), tok.name)] = MeaningAt(program, places, at)
  <2>1. /\ Lookup(Path(program, places[L]), tok.name) # <<>>
        /\ table[Lookup(Path(program, places[L]), tok.name)] =
              EntryFor(program, places, j, tok.name,
                       CHOOSE k \in Declarers(program, places, j, tok.name) : TRUE)
    BY <1>2, <1>4, <1>7, <1>8, <1>11, LookupEntry
  <2>2. MeaningAt(program, places, at) =
            EntryFor(program, places, j, tok.name,
                     CHOOSE k \in Declarers(program, places, j, tok.name) : TRUE)
    BY <1>3, <1>4 DEF MeaningAt
  <2> QED BY <2>1, <2>2
<1> QED
  BY <1>4, <1>5, <1>10, <1>11

LEMMA ReferStep ==
    ASSUME NEW opens, NEW places, SymbolsInv(opens), MeansInv(opens, places), Generating,
           tok.op \in {"use", "set", "var", "for"},
           NEW key, Refer(key), table[key] = MeaningAt(program, places, at),
           Step, UNCHANGED <<start, table>>, scope' = Path(program, places[at]),
           Fun(program, places[at]) = Fun(program, places[at - 1]),
           GoodToken(program, places, at)
    PROVE  MeansInv(opens, places)'
<1>1. Running /\ Holds(program, places, table, Fun(program, places[at - 1]), 1..Len(program))
  BY GeneratingHere
<1>2. at \in 1..Len(program)
  BY <1>1, Here
<1>3. refs' = refs \cup {[at |-> at, entry |-> MeaningAt(program, places, at)]}
  BY DEF Refer
<1>4. \A i : (\E r \in refs' : r.at = i) <=>
                 \/ \E r \in refs : r.at = i
                 \/ i = at /\ tok.op \in {"use", "set", "var", "for"}
  <2> DEFINE new == [at |-> at, entry |-> MeaningAt(program, places, at)]
  <2>1. new.at = at /\ \A r : r \in refs' <=> r \in refs \/ r = new
    BY <1>3
  <2> HIDE DEF new
  <2> QED BY <2>1
<1>5. \A r \in refs' : r.at \in 1..Len(program) /\ r.entry = MeaningAt(program, places, r.at)
  <2>1. \A r \in refs : r.at \in 1..Len(program) /\ r.entry = MeaningAt(program, places, r.at)
    BY DEF MeansInv
  <2> QED BY <1>2, <1>3, <2>1
<1>6. Holds(program, places, table', Fun(program, places[at]), 1..Len(program))
  BY <1>1
<1>7. tok.op # "function"
  OBVIOUS
<1> QED
  BY <1>4, <1>5, <1>6, <1>7, GenerateStep

LEMMA UseNameMeans ==
    ASSUME NEW opens, NEW places, SymbolsInv(opens), MeansInv(opens, places), UseName
    PROVE  MeansInv(opens, places)'
<1> DEFINE key == Lookup(scope, tok.name)
<1>1. /\ Generating /\ tok.op = "use"
      /\ IF key = <<>> THEN Fail
         ELSE Refer(key) /\ Step
              /\ UNCHANGED <<scope, subscope, table, num_globals, num_locals, start>>
  BY DEF UseName
<1>2. Running /\ scope = Path(program, places[at - 1])
  BY <1>1, GeneratingHere
<1>3. Tree(program, places) /\ at \in 1..Len(program)
  BY <1>2, Here
<1>4. tok = program[at]
  BY DEF tok
<1>5. Looked(program, places, at) = places[at - 1]
  BY <1>1, <1>4 DEF Looked
<1>6. /\ key = <<>> => Finding(program, places, places[at - 1], tok.name) = {}
      /\ key # <<>> => /\ Finding(program, places, places[at - 1], tok.name) # {}
                       /\ table[key] = MeaningAt(program, places, at)
      /\ Fun(program, places[at]) = Fun(program, places[at - 1])
  <2>1. scope = Path(program, Looked(program, places, at))
    BY <1>2, <1>5
  <2> QED BY <1>1, <1>5, <2>1, LookupMeans
<1> HIDE DEF key
<1>7. CASE key = <<>>
  <2>1. ~ GoodToken(program, places, at)
    BY <1>1, <1>4, <1>6, <1>7 DEF GoodToken
  <2>2. ~ GoodProgram(program, places)
    BY <1>3, <2>1 DEF GoodProgram
  <2> QED BY <1>1, <1>7, <2>2, FailMeans
<1>8. CASE key # <<>>
  <2>1. Refer(key) /\ Step
        /\ UNCHANGED <<scope, subscope, table, num_globals, num_locals, start>>
    BY <1>1, <1>8
  <2>2. scope' = Path(program, places[at])
    <3>1. places[at] = places[at - 1]
      BY <1>1, <1>3, <1>4, TreeStep
    <3> QED BY <1>2, <2>1, <3>1
  <2>3. GoodToken(program, places, at)
    BY <1>1, <1>4, <1>6, <1>8 DEF GoodToken
  <2> QED BY <1>1, <1>6, <1>8, <2>1, <2>2, <2>3, ReferStep
<1> QED
  BY <1>7, <1>8

LEMMA SetNameMeans ==
    ASSUME NEW opens, NEW places, SymbolsInv(opens), MeansInv(opens, places), SetName
    PROVE  MeansInv(opens, places)'
<1> DEFINE key == Lookup(scope, tok.name)
<1>1. /\ Generating /\ tok.op = "set"
      /\ IF key = <<>> THEN Fail
         ELSE IF table[key].type \in CallableOps THEN Fail
         ELSE Refer(key) /\ Step
              /\ UNCHANGED <<scope, subscope, table, num_globals, num_locals, start>>
  BY DEF SetName
<1>2. Running /\ scope = Path(program, places[at - 1])
  BY <1>1, GeneratingHere
<1>3. Tree(program, places) /\ at \in 1..Len(program)
  BY <1>2, Here
<1>4. tok = program[at]
  BY DEF tok
<1>5. Looked(program, places, at) = places[at - 1]
  BY <1>1, <1>4 DEF Looked
<1>6. /\ key = <<>> => Finding(program, places, places[at - 1], tok.name) = {}
      /\ key # <<>> => /\ Finding(program, places, places[at - 1], tok.name) # {}
                       /\ table[key] = MeaningAt(program, places, at)
      /\ Fun(program, places[at]) = Fun(program, places[at - 1])
  <2>1. scope = Path(program, Looked(program, places, at))
    BY <1>2, <1>5
  <2> QED BY <1>1, <1>5, <2>1, LookupMeans
<1> HIDE DEF key
<1>7. CASE key = <<>> \/ table[key].type \in CallableOps
  <2>1. ~ GoodToken(program, places, at)
    BY <1>1, <1>4, <1>6, <1>7 DEF GoodToken
  <2>2. ~ GoodProgram(program, places)
    BY <1>3, <2>1 DEF GoodProgram
  <2>3. Fail
    BY <1>1, <1>7
  <2> QED BY <2>2, <2>3, FailMeans
<1>8. CASE key # <<>> /\ table[key].type \notin CallableOps
  <2>1. Refer(key) /\ Step
        /\ UNCHANGED <<scope, subscope, table, num_globals, num_locals, start>>
    BY <1>1, <1>8
  <2>2. scope' = Path(program, places[at])
    <3>1. places[at] = places[at - 1]
      BY <1>1, <1>3, <1>4, TreeStep
    <3> QED BY <1>2, <2>1, <3>1
  <2>3. GoodToken(program, places, at)
    BY <1>1, <1>4, <1>6, <1>8 DEF GoodToken
  <2> QED BY <1>1, <1>6, <1>8, <2>1, <2>2, <2>3, ReferStep
<1> QED
  BY <1>7, <1>8

LEMMA InnerFinds ==
    ASSUME NEW prog, NEW places, Tree(prog, places), NEW i \in 0..Len(prog), NEW name \in Names,
           NEW d \in 1..Len(prog), Declares(prog, places, Inner(places[i]), name, d)
    PROVE  Finding(prog, places, places[i], name) # {}
<1> DEFINE n == Len(places[i])
<1>1. /\ n \in Nat
      /\ places[i] = <<>> <=> n = 0
  BY TreeFacts
<1>2. Inner(places[i]) = IF n = 0 THEN 0 ELSE places[i][n]
  BY <1>1 DEF Inner
<1>3. n \in 0..Len(places[i])
  BY <1>1
<1> HIDE DEF n
<1>4. Declarers(prog, places, IF n = 0 THEN 0 ELSE places[i][n], name) # {}
  BY <1>2 DEF Declarers
<1> QED
  BY <1>3, <1>4 DEF Finding

LEMMA BindVariableMeans ==
    ASSUME NEW opens, NEW places, SymbolsInv(opens), MeansInv(opens, places), BindVariable
    PROVE  MeansInv(opens, places)'
<1> DEFINE inner == ScopeAfter(scope, tok)
           key == Lookup(inner, tok.name)
<1>1. /\ Generating /\ tok.op \in {"var", "for"}
      /\ IF key = <<>> THEN Fail
         ELSE Refer(key) /\ scope' = inner /\ Step
              /\ UNCHANGED <<subscope, table, num_globals, num_locals, start>>
  BY DEF BindVariable
<1>2. Running /\ scope = Path(program, places[at - 1])
  BY <1>1, GeneratingHere
<1>3. /\ Tree(program, places)
      /\ at \in 1..Len(program) /\ at - 1 \in 0..Len(program) /\ at \in 0..Len(program)
      /\ tok \in Token
  BY <1>2, Here
<1>4. tok = program[at] /\ IsVar(program, at)
  BY <1>1 DEF tok, IsVar
<1>5. tok.name \in Names
  BY <1>1, <1>3, TokenFields
<1>6. inner = Path(program, places[at])
  <2>1. tok.op \notin CallableOps
    BY <1>1 DEF CallableOps
  <2> QED BY <1>2, <1>3, <2>1, ScopeAfterPath
<1>7. inner = Path(program, Looked(program, places, at))
  <2>1. tok.op # "for" => places[at] = places[at - 1]
    BY <1>1, <1>3, <1>4, TreeStep
  <2> QED BY <1>4, <1>6, <2>1 DEF Looked
<1> HIDE DEF inner, key
<1>8. /\ key = <<>> => Finding(program, places, Looked(program, places, at), tok.name) = {}
      /\ key # <<>> => table[key] = MeaningAt(program, places, at)
      /\ Fun(program, places[at]) = Fun(program, places[at - 1])
  <2>1. tok.op \in {"use", "set", "var", "for"}
    BY <1>1
  <2> QED BY <1>1, <1>7, <2>1, LookupMeans DEF key
<1>9. Finding(program, places, Looked(program, places, at), tok.name) # {}
  <2> DEFINE L == IF tok.op = "for" THEN at ELSE at - 1
  <2>1. L \in 0..Len(program) /\ Looked(program, places, at) = places[L]
    BY <1>3, <1>4 DEF Looked
  <2>2. Inner(places[L]) = DeclaredIn(program, places, at)
    <3>1. tok.op = "for" => Inner(places[at]) = at
      <4>1. ASSUME tok.op = "for"
            PROVE  Inner(places[at]) = at
        <5>1. /\ Len(places[at]) = Len(places[at - 1]) + 1
              /\ places[at][Len(places[at])] = at
          BY <1>3, <1>4, <4>1, TreeStep DEF Opens
        <5>2. Len(places[at - 1]) \in Nat
          BY <1>3, TreeFacts
        <5>3. places[at] = <<>> <=> Len(places[at]) = 0
          BY <1>3, TreeFacts
        <5> QED BY <5>1, <5>2, <5>3 DEF Inner
      <4> QED BY <4>1
    <3> QED BY <1>4, <3>1 DEF DeclaredIn
  <2>3. DeclaredIn(program, places, at) \in 0..Len(program)
        /\ Declares(program, places, DeclaredIn(program, places, at), tok.name, at)
    <3>1. DeclaredIn(program, places, at) = DeclaredIn(program, places, at)
      OBVIOUS
    <3>2. DeclaredIn(program, places, at) \in 0..Len(program)
          /\ \A j \in 0..Len(program), name \in Names :
                Declares(program, places, j, name, at) <=>
                    j = DeclaredIn(program, places, at) /\ name = program[at].name
      BY <1>3, <1>4, <3>1, VarDeclares
    <3> QED BY <1>4, <1>5, <3>2
  <2> HIDE DEF L
  <2> QED BY <1>3, <1>5, <2>1, <2>2, <2>3, InnerFinds
<1>10. key # <<>>
  BY <1>8, <1>9
<1>11. Refer(key) /\ scope' = inner /\ Step
       /\ UNCHANGED <<subscope, table, num_globals, num_locals, start>>
  BY <1>1, <1>10
<1>12. GoodToken(program, places, at)
  BY <1>1, <1>4 DEF GoodToken
<1>13. tok.op \in {"use", "set", "var", "for"}
  BY <1>1
<1> QED
  BY <1>1, <1>6, <1>8, <1>10, <1>11, <1>12, <1>13, ReferStep

\* Tokens that name nothing.
LEMMA PlainStep ==
    ASSUME NEW opens, NEW places, SymbolsInv(opens), MeansInv(opens, places), Generating,
           tok.op \notin {"use", "set", "var", "for", "function"},
           Step, UNCHANGED <<start, refs>>, scope' = Path(program, places[at]),
           Holds(program, places, table', Fun(program, places[at]), 1..Len(program))
    PROVE  MeansInv(opens, places)'
<1>1. tok = program[at]
  BY DEF tok
<1>2. GoodToken(program, places, at)
  BY <1>1 DEF GoodToken
<1>3. \A i : (\E r \in refs' : r.at = i) <=>
                 \/ \E r \in refs : r.at = i
                 \/ i = at /\ tok.op \in {"use", "set", "var", "for"}
  OBVIOUS
<1>4. \A r \in refs' : r.at \in 1..Len(program) /\ r.entry = MeaningAt(program, places, r.at)
  BY DEF MeansInv
<1> QED
  BY <1>2, <1>3, <1>4, GenerateStep

LEMMA ScopeStmtMeans ==
    ASSUME NEW opens, NEW places, SymbolsInv(opens), MeansInv(opens, places), ScopeStmt
    PROVE  MeansInv(opens, places)'
<1>1. /\ Generating
      /\ tok.op \in {"block", "if", "else"} \/ (tok.op = "end" /\ ~ AtFunctionEnd)
      /\ scope' = ScopeAfter(scope, tok) /\ Step
      /\ UNCHANGED <<subscope, table, num_globals, num_locals, start, refs>>
  BY DEF ScopeStmt
<1>2. /\ Running /\ scope = Path(program, places[at - 1])
      /\ Holds(program, places, table, Fun(program, places[at - 1]), 1..Len(program))
  BY <1>1, GeneratingHere
<1>3. Tree(program, places) /\ at \in 1..Len(program)
  BY <1>2, Here
<1>4. tok = program[at]
  BY DEF tok
<1>5. scope' = Path(program, places[at])
  <2>1. tok.op \notin CallableOps
    BY <1>1 DEF CallableOps
  <2> QED BY <1>1, <1>2, <1>3, <2>1, ScopeAfterPath
<1>6. Fun(program, places[at]) = Fun(program, places[at - 1])
  <2>1. tok.op # "function"
    BY <1>1
  <2>2. ~ (tok.op = "end" /\ program[Inner(places[at - 1])].op = "function")
    <3>1. tok.op = "end" => places[at - 1] # <<>>
      BY <1>3, <1>4, TreeStep
    <3>2. at' = at + 1 /\ open' = OpenAfter(open, tok) /\ UNCHANGED program
      BY <1>1 DEF Step
    <3> QED BY <1>1, <1>2, <3>1, <3>2, NextPlace
  <2> QED BY <1>3, <1>4, <2>1, <2>2, FunStep
<1>7. Holds(program, places, table', Fun(program, places[at]), 1..Len(program))
  BY <1>1, <1>2, <1>6
<1>8. tok.op \notin {"use", "set", "var", "for", "function"}
  BY <1>1
<1> QED
  BY <1>1, <1>5, <1>7, <1>8, PlainStep

LEMMA EnterClassMeans ==
    ASSUME NEW opens, NEW places, SymbolsInv(opens), MeansInv(opens, places), EnterClass
    PROVE  MeansInv(opens, places)'
<1>1. /\ Generating /\ tok.op = "class" /\ scope' = Append(scope, Named(tok.name)) /\ Step
      /\ UNCHANGED <<subscope, table, num_globals, num_locals, start, refs>>
  BY DEF EnterClass
<1>2. /\ Running /\ scope = Path(program, places[at - 1])
      /\ Holds(program, places, table, Fun(program, places[at - 1]), 1..Len(program))
  BY <1>1, GeneratingHere
<1>3. Tree(program, places) /\ at \in 1..Len(program)
  BY <1>2, Here
<1>4. tok = program[at]
  BY DEF tok
<1>5. scope' = Path(program, places[at])
  <2>1. Path(program, places[at]) = Append(Path(program, places[at - 1]), Part(program, at))
    BY <1>1, <1>3, <1>4, PathStep DEF Opens
  <2>2. Part(program, at) = Named(tok.name)
    BY <1>1, <1>4 DEF Part, CallableOps
  <2> QED BY <1>1, <1>2, <2>1, <2>2
<1>6. Fun(program, places[at]) = Fun(program, places[at - 1])
  BY <1>1, <1>3, <1>4, FunStep
<1>7. Holds(program, places, table', Fun(program, places[at]), 1..Len(program))
  BY <1>1, <1>2, <1>6
<1>8. tok.op \notin {"use", "set", "var", "for", "function"}
  BY <1>1
<1> QED
  BY <1>1, <1>5, <1>7, <1>8, PlainStep

\* No function is around the places at the top level.
LEMMA TopLevel ==
    ASSUME NEW prog, NEW places, Tree(prog, places), NEW i \in 0..Len(prog), places[i] = <<>>
    PROVE  Fun(prog, places[i]) = 0 /\ Path(prog, places[i]) = <<>> /\ ~ Within(prog, places[i])
<1>1. /\ Within(prog, places[i]) <=>
            (places[i] # <<>> /\ prog[places[i][1]].op \in CallableOps)
      /\ Fun(prog, places[i]) # 0 => Within(prog, places[i])
  BY FunFacts
<1>2. Path(prog, places[i]) = <<>>
  BY PathType
<1> QED
  BY <1>1, <1>2

LEMMA SkipTokenMeans ==
    ASSUME NEW opens, NEW places, SymbolsInv(opens), MeansInv(opens, places), SkipToken
    PROVE  MeansInv(opens, places)'
<1>1. /\ phase \in {"classes", "code"} /\ Running /\ ~ Generating /\ Step
      /\ UNCHANGED <<scope, subscope, table, num_globals, num_locals, start, refs>>
  BY DEF SkipToken
<1>2. /\ at' = at + 1 /\ open' = OpenAfter(open, tok) /\ UNCHANGED <<program, phase>>
      /\ phase' \in {"classes", "code"} /\ phase' \notin {"globals", "locals", "parse", "failed", "done"}
      /\ phase \notin {"globals", "locals", "parse", "failed", "done"}
  BY <1>1 DEF Step
<1>3. /\ Tree(program, places)
      /\ at \in 1..Len(program) /\ at - 1 \in 0..Len(program) /\ at \in 0..Len(program)
      /\ at \in Nat \ {0} /\ at' - 1 = at /\ GeneratedInv(places)
      /\ Holds(program, places, table, Current(places), Declared(places))
  BY <1>1, <1>2, Here
<1>4. tok = program[at]
  BY DEF tok
<1>5. /\ InClass(open) <=> (places[at - 1] # <<>> /\ program[places[at - 1][1]].op = "class")
      /\ InClass(open') <=> (places[at] # <<>> /\ program[places[at][1]].op = "class")
      /\ InClass(open') => OfClass(program, places, at)
      /\ OfClass(program, places, at) <=> InClass(open) \/ tok.op = "class"
  BY <1>1, <1>2, NextPlace
<1>6. phase = "code" <=> OfClass(program, places, at)
  BY <1>1, <1>5 DEF Generating, InClass
<1>7. Current(places) = 0
  <2>1. CASE OwnPass
    <3>1. tok.op = "class"
      BY <1>1, <1>2, <1>5, <1>6, <2>1 DEF OwnPass, InClass
    <3>2. places[at - 1] = <<>>
      BY <1>3, <1>4, <3>1, TreeStep
    <3>3. Fun(program, places[at - 1]) = 0
      BY <1>3, <3>2, TopLevel
    <3> QED BY <3>3 DEF Current
  <2>2. CASE ~ OwnPass
    BY <2>2 DEF Current
  <2> QED BY <2>1, <2>2
<1>8. OwnPass' => places[at] = <<>>
  <2>1. ASSUME OwnPass', places[at] # <<>>
        PROVE  FALSE
    <3>1. (phase = "classes") = InClass(open')
      BY <1>2, <2>1 DEF OwnPass
    <3>2. InClass(open') <=> OfClass(program, places, at)
      BY <1>3, <1>5, <2>1, ClassStep
    <3> QED BY <1>1, <1>2, <1>6, <3>1, <3>2 DEF InClass
  <2> QED BY <2>1
<1>9. Current(places)' = 0
  <2>1. OwnPass' => Fun(program, places[at]) = 0
    BY <1>3, <1>8, TopLevel
  <2> QED BY <1>2, <1>3, <2>1 DEF Current
<1>10. PathInv(places)'
  <2>1. ASSUME OwnPass'
        PROVE  scope' = Path(program, places[at])
    <3>1. Path(program, places[at]) = <<>>
      BY <1>3, <1>8, <2>1, TopLevel
    <3>2. scope = <<>>
      <4>1. SymbolsInv(opens)'
        BY SkipTokenKeeps
      <4>2. open' = <<>> /\ ~ InClass(open')
        <5>1. open' = Kinds(program, places[at])
          BY <1>1, <1>2, Here
        <5> QED BY <1>3, <1>5, <1>8, <2>1, <5>1, KindsFacts
      <4>3. scope' = <<>> \/ Mirrors(scope', open')
        BY <1>2, <4>1, <4>2 DEF SymbolsInv, ScopeInv
      <4>4. scope \in Seq(Components)
        BY DEF SymbolsInv, TypeOK
      <4>5. Mirrors(scope', open') => Len(scope) = 0
        BY <1>1, <4>2, EmptySeq DEF Mirrors
      <4> QED BY <1>1, <4>3, <4>4, <4>5, EmptySeq
    <3> QED BY <1>1, <3>1, <3>2
  <2> QED BY <1>2, <1>3, <2>1 DEF PathInv
<1>11. StartInv(places)'
  BY <1>2, <1>9 DEF StartInv
<1>12. NumbersInv(places)'
  BY <1>2 DEF NumbersInv
<1>13. Holds(program, places, table, Current(places), Declared(places))'
  <2>1. Declared(places)' = 1..Len(program) /\ Declared(places) = 1..Len(program)
    BY <1>2 DEF Declared
  <2> QED BY <1>1, <1>2, <1>3, <1>7, <1>9, <2>1
<1>14. Generated(places)' = Generated(places)
  <2>1. \A i \in 1..Len(program) : i < at + 1 <=> i < at \/ i = at
    BY <1>3
  <2>2. CASE phase = "classes"
    <3>1. Generated(places) = {i \in 1..Len(program) : OfClass(program, places, i) /\ i < at}
      BY <2>2 DEF Generated
    <3>2. Generated(places)' =
              {i \in 1..Len(program) : OfClass(program, places, i) /\ i < at + 1}
      BY <1>2, <2>2 DEF Generated
    <3> QED BY <1>6, <2>1, <2>2, <3>1, <3>2
  <2>3. CASE phase = "code"
    <3>1. Generated(places) = {i \in 1..Len(program) : OfClass(program, places, i) \/ i < at}
      BY <2>3 DEF Generated
    <3>2. Generated(places)' =
              {i \in 1..Len(program) : OfClass(program, places, i) \/ i < at + 1}
      BY <1>2, <2>3 DEF Generated
    <3> QED BY <1>6, <2>1, <2>3, <3>1, <3>2
  <2> QED BY <1>1, <2>2, <2>3
<1>15. GeneratedInv(places)'
  BY <1>1, <1>2, <1>3, <1>14 DEF GeneratedInv
<1>16. \A r \in refs' : r.at \in 1..Len(program) /\ r.entry = MeaningAt(program, places, r.at)
  BY <1>1 DEF MeansInv
<1> QED
  BY <1>2, <1>10, <1>11, <1>12, <1>13, <1>15, <1>16, StepMeans

LEMMA NextPassMeans ==
    ASSUME NEW opens, NEW places, SymbolsInv(opens), MeansInv(opens, places), NextPass
    PROVE  MeansInv(opens, places)'
<1>1. /\ phase \in {"globals", "classes", "code"} /\ at > Len(program) /\ at' = 1
      /\ phase' = CASE phase = "globals" -> "classes"
                    [] phase = "classes" -> "code"
                    [] phase = "code"    -> "done"
      /\ UNCHANGED <<program, open, scope, subscope, table, num_globals, num_locals, start, refs>>
  BY DEF NextPass
<1>2. /\ phase = "globals" => phase' = "classes"
      /\ phase = "classes" => phase' = "code"
      /\ phase = "code" => phase' = "done"
  BY <1>1
<1>3. /\ Len(program) \in Nat /\ at = Len(program) + 1 /\ at - 1 = Len(program) /\ open = <<>>
      /\ 0 \in 0..Len(program) /\ at - 1 \in 0..Len(program)
  <2>1. /\ program \in Seq(Token)
        /\ opens[Len(program)] = <<>> /\ at \in 1..(Len(program) + 1) /\ open = opens[at - 1]
    BY <1>1 DEF SymbolsInv, TypeOK, PassInv
  <2>2. Len(program) \in Nat
    BY <2>1, LenProperties
  <2>3. \A n \in Nat : \A m \in 1..(n + 1) : m > n => m = n + 1 /\ m - 1 = n
    OBVIOUS
  <2>4. at = Len(program) + 1 /\ at - 1 = Len(program)
    BY <1>1, <2>1, <2>2, <2>3
  <2> QED BY <2>1, <2>2, <2>4
<1>4. /\ Tree(program, places) /\ \A i \in 0..Len(program) : opens[i] = Kinds(program, places[i])
      /\ Holds(program, places, table, Current(places), Declared(places)) /\ GeneratedInv(places)
  BY <1>1 DEF MeansInv
<1>5. places[0] = <<>> /\ places[at - 1] = <<>> /\ 1 - 1 = 0
  <2>1. places[0] = <<>>
    BY <1>4 DEF Tree
  <2>2. opens[at - 1] = <<>>
    BY <1>1, <1>3 DEF SymbolsInv, PassInv
  <2>3. Kinds(program, places[at - 1]) = <<>>
    BY <1>3, <1>4, <2>2
  <2> QED BY <1>3, <1>4, <2>1, <2>3, KindsFacts
<1>6. /\ Fun(program, places[0]) = 0 /\ Path(program, places[0]) = <<>>
      /\ Fun(program, places[at - 1]) = 0
  BY <1>3, <1>4, <1>5, TopLevel
<1>7. Current(places) = 0 /\ Current(places)' = 0
  BY <1>1, <1>5, <1>6 DEF Current
<1>8. Declared(places) = 1..Len(program) /\ Declared(places)' = 1..Len(program)
  BY <1>1, <1>2, <1>3 DEF Declared
<1>9. PathInv(places)'
  <2>1. ~ InClass(open) /\ ~ InClass(open')
    BY <1>1, <1>3 DEF InClass
  <2>2. CASE phase = "globals"
    <3>1. ~ OwnPass'
      BY <1>2, <2>1, <2>2 DEF OwnPass, InClass
    <3> QED BY <1>2, <2>2, <3>1 DEF PathInv
  <2>3. CASE phase = "classes"
    <3>1. scope = <<>>
      BY <2>1, <2>3 DEF SymbolsInv, ScopeInv
    <3> QED BY <1>1, <1>2, <1>5, <1>6, <2>3, <3>1 DEF PathInv
  <2>4. CASE phase = "code"
    BY <1>2, <2>4 DEF PathInv
  <2> QED BY <1>1, <2>2, <2>3, <2>4
<1>10. StartInv(places)'
  BY <1>1, <1>2, <1>7 DEF StartInv
<1>11. NumbersInv(places)'
  BY <1>1, <1>2 DEF NumbersInv
<1>12. Holds(program, places, table, Current(places), Declared(places))'
  BY <1>1, <1>4, <1>7, <1>8
<1>13. Generated(places)' = Generated(places)
  <2>1. \A i \in 1..Len(program) : i < at /\ ~ (i < 1)
    BY <1>3
  <2>2. CASE phase = "globals"
    <3>1. Generated(places)' = {i \in 1..Len(program) : OfClass(program, places, i) /\ i < 1}
      BY <1>1, <1>2, <2>2 DEF Generated
    <3>2. Generated(places) = {}
      BY <2>2 DEF Generated
    <3> QED BY <2>1, <3>1, <3>2
  <2>3. CASE phase = "classes"
    <3>1. Generated(places)' = {i \in 1..Len(program) : OfClass(program, places, i) \/ i < 1}
      BY <1>1, <1>2, <2>3 DEF Generated
    <3>2. Generated(places) = {i \in 1..Len(program) : OfClass(program, places, i) /\ i < at}
      BY <2>3 DEF Generated
    <3> QED BY <2>1, <3>1, <3>2
  <2>4. CASE phase = "code"
    <3>1. Generated(places)' = 1..Len(program)
      BY <1>1, <1>2, <2>4 DEF Generated
    <3>2. Generated(places) = {i \in 1..Len(program) : OfClass(program, places, i) \/ i < at}
      BY <2>4 DEF Generated
    <3> QED BY <2>1, <3>1, <3>2
  <2> QED BY <1>1, <2>2, <2>3, <2>4
<1>14. GeneratedInv(places)'
  BY <1>1, <1>4, <1>13 DEF GeneratedInv
<1>15. \A r \in refs' : r.at \in 1..Len(program) /\ r.entry = MeaningAt(program, places, r.at)
  BY <1>1 DEF MeansInv
<1>16. phase' \notin {"parse", "failed"}
  BY <1>1, <1>2
<1> QED
  BY <1>1, <1>9, <1>10, <1>11, <1>12, <1>14, <1>15, <1>16, StepMeans

-----------------------------------------------------------------------------
(* A function begins and ends.                                              *)

\* Its parameters are the only declarations that become live.
LEMMA FunctionDeclares ==
    ASSUME NEW prog, NEW places, Tree(prog, places), NEW f \in 1..Len(prog),
           prog[f].op = "function", NEW j \in 0..Len(prog), NEW name \in Names,
           NEW d \in 1..Len(prog), Declares(prog, places, j, name, d)
    PROVE  /\ Live(prog, places, 0, j) =>
                 d \in LocalTokens(prog, places, f, f + 1) /\ Live(prog, places, f, j)
           /\ /\ d \in LocalTokens(prog, places, f, f + 1)
              /\ Live(prog, places, f, j) /\ ~ Live(prog, places, 0, j)
              => j = f /\ d = f /\ Contains(prog[f].params, name)
<1>1. d \in 0..Len(prog) /\ d - 1 \in 0..Len(prog) /\ prog[d] \in Token
  BY TreeStep
<1>2. /\ IsVar(prog, d) =>
            /\ Fun(prog, places[j]) = Fun(prog, places[d - 1])
            /\ Within(prog, places[j]) <=> Within(prog, places[d - 1])
      /\ ~ IsVar(prog, d) /\ j # 0 =>
            j = d /\ prog[d].op = "function" /\ Contains(prog[d].params, name)
      /\ ~ IsVar(prog, d) /\ j = 0 => places[d - 1] = <<>>
  BY DeclaresFacts
<1>3. f # 0 /\ f \in 0..Len(prog)
  OBVIOUS
<1>4. ASSUME Live(prog, places, 0, j)
      PROVE  d \in LocalTokens(prog, places, f, f + 1) /\ Live(prog, places, f, j)
  <2>1. ~ Within(prog, places[j])
    BY <1>4 DEF Live
  <2>2. Fun(prog, places[d - 1]) = 0
    <3>1. CASE IsVar(prog, d)
      <4>1. Fun(prog, places[d - 1]) # 0 => Within(prog, places[d - 1])
        BY <1>1, FunFacts
      <4> QED BY <1>2, <2>1, <3>1, <4>1
    <3>2. CASE ~ IsVar(prog, d) /\ j # 0
      <4>1. Within(prog, places[d])
        BY <1>2, <3>2, WithinStep DEF CallableOps
      <4> QED BY <1>2, <2>1, <3>2, <4>1
    <3>3. CASE ~ IsVar(prog, d) /\ j = 0
      BY <1>1, <1>2, <3>3, TopLevel
    <3> QED BY <3>1, <3>2, <3>3
  <2> QED BY <1>3, <2>1, <2>2 DEF LocalTokens, Live
<1>5. ASSUME d \in LocalTokens(prog, places, f, f + 1),
             Live(prog, places, f, j), ~ Live(prog, places, 0, j)
      PROVE  j = f /\ d = f /\ Contains(prog[f].params, name)
  <2>1. Within(prog, places[j]) /\ Fun(prog, places[j]) = f
    BY <1>5 DEF Live
  <2>2. CASE IsVar(prog, d)
    <3>1. Fun(prog, places[d - 1]) = f
      BY <1>2, <2>1, <2>2
    <3>2. f \in 1..(d - 1)
      BY <1>1, <1>3, <3>1, FunFacts
    <3>3. d < f + 1
      BY <1>5, <3>1 DEF LocalTokens
    <3> QED BY <3>2, <3>3
  <2>3. CASE ~ IsVar(prog, d) /\ j # 0
    <3>1. j = d /\ prog[d].op = "function" /\ Contains(prog[d].params, name)
      BY <1>2, <2>3
    <3>2. Fun(prog, places[d]) = d
      BY <3>1, FunStep
    <3> QED BY <2>1, <3>1, <3>2
  <2>4. CASE ~ IsVar(prog, d) /\ j = 0
    <3>1. places[0] = <<>> /\ 0 \in 0..Len(prog)
      BY <2>4 DEF Tree
    <3> QED BY <2>1, <2>4, <3>1, TopLevel
  <2> QED BY <2>2, <2>3, <2>4
<1> QED
  BY <1>4, <1>5

\* The table with the parameters.
LEMMA ParamsHold ==
    ASSUME NEW places, Tree(program, places), NEW f \in 1..Len(program),
           program[f].op = "function", IsInjective(program[f].params),
           Holds(program, places, table, 0, 1..Len(program)),
           NEW P, P = Params(Path(program, places[f]), program[f].params)
    PROVE  /\ DOMAIN P \cap DOMAIN table = {}
           /\ table' = With(P) =>
                 Holds(program, places, table', f, LocalTokens(program, places, f, f + 1))
<1> DEFINE ps == program[f].params
           R == LocalTokens(program, places, f, f + 1)
           place(key) == (CHOOSE i \in DOMAIN ps : Named(ps[i]) = Last(key)) - 1
<1>1. f \in 0..Len(program) /\ f # 0 /\ program[f] \in Token /\ f \in Nat
  BY TreeStep
<1>2. ps \in Seq(Variables)
  BY <1>1, TokenFields, ParamsAssumption
<1>3. \A x : Contains(ps, x) <=> x \in ToSet(ps)
  BY DEF Contains, ToSet
<1>4. \A x \in ToSet(ps) : x \in Names /\ \E i \in DOMAIN ps : ps[i] = x
  <2>1. \A i \in DOMAIN ps : ps[i] \in Variables
    BY <1>2
  <2> QED BY <2>1 DEF ToSet, Names
<1>5. /\ DOMAIN P = {KeyIn(program, places, f, x) : x \in ToSet(ps)}
      /\ \A key \in DOMAIN P : P[key] = [type |-> "param", index |-> place(key)]
  BY DEF Params, KeyIn
<1>6. Fun(program, places[f]) = f /\ Inner(places[f]) = f /\ Within(program, places[f])
  <2>1. Fun(program, places[f]) = f /\ Inner(places[f]) = f
    BY FunStep
  <2>2. Within(program, places[f])
    BY WithinStep DEF CallableOps
  <2> QED BY <2>1, <2>2
<1>7. Live(program, places, f, f) /\ ~ Live(program, places, 0, f)
  BY <1>1, <1>6 DEF Live
<1>8. \A x \in ToSet(ps) : Declares(program, places, f, x, f)
  BY <1>3 DEF Declares
<1>9. R \subseteq 1..Len(program) /\ f \in R
  <2>1. f < f + 1
    BY <1>1
  <2> QED BY <2>1 DEF LocalTokens
<1>10. \A j \in 0..Len(program), name \in Names, d \in 1..Len(program) :
          Declares(program, places, j, name, d) =>
             /\ Live(program, places, 0, j) => d \in R /\ Live(program, places, f, j)
             /\ d \in R /\ Live(program, places, f, j) /\ ~ Live(program, places, 0, j)
                   => j = f /\ d = f /\ Contains(ps, name)
  BY FunctionDeclares
<1> HIDE DEF R
<1>11. DOMAIN P \cap DOMAIN table = {}
  <2>1. ASSUME NEW key \in DOMAIN P, key \in DOMAIN table
        PROVE  FALSE
    <3>1. PICK x \in ToSet(ps) : key = KeyIn(program, places, f, x)
      BY <1>5
    <3>2. PICK j \in 0..Len(program), name \in Names, d \in 1..Len(program) :
                /\ Live(program, places, 0, j) /\ Declares(program, places, j, name, d)
                /\ key = KeyIn(program, places, j, name)
      BY <2>1 DEF Holds
    <3>3. Live(program, places, f, j) /\ Inner(places[j]) = j
      BY <1>10, <3>2, DeclaresFacts
    <3>4. x \in Names
      BY <1>4
    <3>5. f = j
      BY <1>1, <1>6, <1>7, <3>1, <3>2, <3>3, <3>4, KeyInjective
    <3> QED BY <1>7, <3>2, <3>5
  <2> QED BY <2>1
<1>12. ASSUME table' = With(P)
       PROVE  Holds(program, places, table', f, R)
  <2>1. /\ DOMAIN table' = DOMAIN P \cup DOMAIN table
        /\ \A key \in DOMAIN P : table'[key] = P[key]
        /\ \A key \in DOMAIN table : table'[key] = table[key]
    BY <1>11, <1>12 DEF With
  <2>2. ASSUME NEW key \in DOMAIN table'
        PROVE  \E j \in 0..Len(program), name \in Names, d \in R :
                   /\ Live(program, places, f, j) /\ Declares(program, places, j, name, d)
                   /\ key = KeyIn(program, places, j, name)
    <3>1. CASE key \in DOMAIN P
      <4>1. PICK x \in ToSet(ps) : key = KeyIn(program, places, f, x)
        BY <1>5, <3>1
      <4> QED BY <1>1, <1>4, <1>7, <1>8, <1>9, <4>1
    <3>2. CASE key \in DOMAIN table
      <4>1. PICK j \in 0..Len(program), name \in Names, d \in 1..Len(program) :
                  /\ Live(program, places, 0, j) /\ Declares(program, places, j, name, d)
                  /\ key = KeyIn(program, places, j, name)
        BY <3>2 DEF Holds
      <4> QED BY <1>10, <4>1
    <3> QED BY <2>1, <3>1, <3>2
  <2>3. ASSUME NEW j \in 0..Len(program), NEW name \in Names, NEW d \in R,
               Live(program, places, f, j), Declares(program, places, j, name, d)
        PROVE  /\ KeyIn(program, places, j, name) \in DOMAIN table'
               /\ table'[KeyIn(program, places, j, name)]
                     = EntryFor(program, places, j, name, d)
               /\ \A c \in R : Declares(program, places, j, name, c) => c = d
    <3>0. d \in 1..Len(program)
      BY <1>9
    <3>1. CASE Live(program, places, 0, j)
      <4>1. /\ KeyIn(program, places, j, name) \in DOMAIN table
            /\ table[KeyIn(program, places, j, name)] = EntryFor(program, places, j, name, d)
            /\ \A c \in 1..Len(program) : Declares(program, places, j, name, c) => c = d
        BY <2>3, <3>0, <3>1 DEF Holds
      <4> QED BY <1>9, <2>1, <4>1
    <3>2. CASE ~ Live(program, places, 0, j)
      <4>1. j = f /\ d = f /\ Contains(ps, name)
        BY <1>10, <2>3, <3>0, <3>2
      <4>2. \A c \in R : Declares(program, places, j, name, c) => c = d
        BY <1>9, <1>10, <2>3, <3>2, <4>1
      <4> DEFINE key == KeyIn(program, places, f, name)
      <4>3. key \in DOMAIN P
        BY <1>3, <1>5, <4>1
      <4>4. Last(key) = Named(name)
        <5>1. Path(program, places[f]) \in Seq(Components) /\ Named(name) \in Components
          BY <1>1, PathType, NamedType
        <5>2. key = Append(Path(program, places[f]), Named(name))
          BY DEF KeyIn
        <5> HIDE DEF key
        <5> QED BY <5>1, <5>2, AppendProperties DEF Last
      <4>5. PICK n \in DOMAIN ps : ps[n] = name
        BY <1>3, <1>4, <4>1
      <4>6. EntryFor(program, places, j, name, d) = [type |-> "param", index |-> n - 1]
        <5> DEFINE c == CHOOSE m \in DOMAIN ps : ps[m] = name
        <5>1. c \in DOMAIN ps /\ ps[c] = name
          BY <4>5
        <5>2. c = n
          BY <4>5, <5>1 DEF IsInjective
        <5>3. EntryFor(program, places, j, name, d) = [type |-> "param", index |-> c - 1]
          BY <1>1, <4>1 DEF EntryFor, IsVar
        <5> QED BY <5>2, <5>3
      <4>7. P[key] = [type |-> "param", index |-> n - 1]
        <5> DEFINE c == CHOOSE m \in DOMAIN ps : Named(ps[m]) = Last(key)
        <5> HIDE DEF key
        <5>1. Named(ps[n]) = Last(key)
          BY <4>4, <4>5
        <5>2. c \in DOMAIN ps /\ Named(ps[c]) = Last(key)
          BY <5>1
        <5>3. ps[c] = ps[n]
          BY <4>4, <4>5, <5>2 DEF Named
        <5>4. c = n
          BY <5>2, <5>3 DEF IsInjective
        <5>5. P[key] = [type |-> "param", index |-> c - 1]
          BY <1>5, <4>3
        <5> QED BY <5>4, <5>5
      <4> QED BY <2>1, <4>1, <4>2, <4>3, <4>6, <4>7
    <3> QED BY <3>1, <3>2
  <2> QED BY <2>2, <2>3 DEF Holds
<1> QED
  BY <1>11, <1>12 DEF R

LEMMA EnterFunctionMeans ==
    ASSUME NEW opens, NEW places, SymbolsInv(opens), MeansInv(opens, places), EnterFunction
    PROVE  MeansInv(opens, places)'
<1> DEFINE inner == Append(scope, Named(tok.name))
           P == Params(inner, tok.params)
<1>1. /\ Generating /\ tok.op = "function"
      /\ IF ~ IsInjective(tok.params) \/ DOMAIN P \cap DOMAIN table # {} THEN Fail
         ELSE /\ scope' = inner /\ subscope' = <<>> /\ table' = With(P)
              /\ num_locals' = IF tok.name = "string" THEN 2 ELSE 1
              /\ start' = at /\ phase' = "locals" /\ at' = at + 1
              /\ open' = OpenAfter(open, tok)
              /\ UNCHANGED <<program, num_globals, refs>>
  BY DEF EnterFunction
<1>2. /\ Running /\ phase \in {"classes", "code"}
      /\ scope = Path(program, places[at - 1])
      /\ Current(places) = Fun(program, places[at - 1])
      /\ Holds(program, places, table, Fun(program, places[at - 1]), 1..Len(program))
      /\ phase = "classes" <=> OfClass(program, places, at)
  BY <1>1, GeneratingHere
<1>3. /\ Tree(program, places)
      /\ at \in 1..Len(program) /\ at \in Nat \ {0} /\ Len(program) \in Nat /\ at + 1 - 1 = at
      /\ tok \in Token /\ at \in 0..Len(program) /\ GeneratedInv(places)
  BY <1>2, Here
<1>4. tok = program[at]
  BY DEF tok
<1>5. /\ Fun(program, places[at]) = at /\ Fun(program, places[at - 1]) = 0
      /\ Inner(places[at]) = at
  BY <1>1, <1>3, <1>4, FunStep
<1>6. inner = Path(program, places[at])
  <2>1. Path(program, places[at]) = Append(Path(program, places[at - 1]), Part(program, at))
    BY <1>1, <1>3, <1>4, PathStep DEF Opens
  <2>2. Part(program, at) = Named(tok.name)
    BY <1>1, <1>4 DEF Part, CallableOps
  <2> QED BY <1>2, <2>1, <2>2
<1>7. CASE ~ IsInjective(tok.params)
  <2>1. Fail
    BY <1>1, <1>7
  <2>2. ~ GoodToken(program, places, at)
    BY <1>1, <1>4, <1>7 DEF GoodToken
  <2>3. ~ GoodProgram(program, places)
    BY <1>3, <2>2 DEF GoodProgram
  <2> QED BY <2>1, <2>3, FailMeans
<1>8. CASE IsInjective(tok.params)
  <2>1. P = Params(Path(program, places[at]), program[at].params)
    BY <1>4, <1>6
  <2> HIDE DEF P, inner
  <2>2. Holds(program, places, table, 0, 1..Len(program))
    BY <1>2, <1>5
  <2>3. program[at].op = "function" /\ IsInjective(program[at].params)
    BY <1>1, <1>4, <1>8
  <2>4. /\ DOMAIN P \cap DOMAIN table = {}
        /\ table' = With(P) =>
              Holds(program, places, table', at, LocalTokens(program, places, at, at + 1))
    BY ONLY <1>3, <2>1, <2>2, <2>3, ParamsHold
  <2>5. /\ scope' = inner /\ subscope' = <<>> /\ table' = With(P)
        /\ num_locals' = IF tok.name = "string" THEN 2 ELSE 1
        /\ start' = at /\ phase' = "locals" /\ at' = at + 1
        /\ open' = OpenAfter(open, tok)
        /\ UNCHANGED <<program, num_globals, refs>>
    BY <1>1, <1>8, <2>4
  <2>6. at' - 1 = at
    BY <1>3, <2>5
  <2>7. InClass(open') <=> phase = "classes"
    <3>1. /\ InClass(open') <=> (places[at] # <<>> /\ program[places[at][1]].op = "class")
          /\ InClass(open') => OfClass(program, places, at)
      BY <1>2, <2>5, NextPlace
    <3>2. places[at] # <<>>
      BY <1>3, <1>5, TopLevel
    <3>3. OfClass(program, places, at) => program[places[at][1]].op = "class"
      BY <1>3, <3>2, ClassStep
    <3> QED BY <1>2, <3>1, <3>2, <3>3
  <2>8. PathInv(places)'
    <3>1. Path(program, places[at]) \in Seq(Components)
      BY <1>3, PathType
    <3>2. Path(program, places[at]) \o <<>> = Path(program, places[at])
      BY <3>1
    <3> QED BY <1>5, <1>6, <2>5, <2>6, <3>2 DEF PathInv
  <2>9. Current(places)' = at
    BY <1>5, <2>5, <2>6 DEF Current, OwnPass
  <2>10. StartInv(places)'
    BY <2>3, <2>5, <2>9 DEF StartInv
  <2>11. NumbersInv(places)'
    <3>1. VarsOf(program, places, at, at + 1) = {}
      <4>1. ASSUME NEW k \in 1..at, Fun(program, places[k - 1]) = at
            PROVE  FALSE
        <5>1. k - 1 \in 0..Len(program) /\ k \in 0..Len(program) /\ at # 0
          BY <1>3
        <5>2. at \in 1..(k - 1)
          BY <1>3, <4>1, <5>1, FunFacts
        <5> QED BY <1>3, <5>2
      <4> QED BY <1>3, <4>1 DEF VarsOf
    <3>2. Cardinality(VarsOf(program, places, at, at + 1)) = 0
      BY <3>1, FS_EmptySet
    <3>3. First(program, at) = IF tok.name = "string" THEN 2 ELSE 1
      BY <1>3, <1>4 DEF First
    <3>4. num_locals' = First(program, at) + Cardinality(VarsOf(program, places, at, at + 1))
      BY <2>5, <3>2, <3>3
    <3> QED BY <2>5, <3>4 DEF NumbersInv
  <2>12. Holds(program, places, table, Current(places), Declared(places))'
    <3>1. Declared(places)' = LocalTokens(program, places, at, at + 1)
      BY <2>5 DEF Declared, LocalTokens
    <3> QED BY <2>4, <2>5, <2>9, <3>1
  <2>13. Generated(places)' = Generated(places)
    <3>1. CASE phase = "classes"
      <4>1. Generated(places)' =
               {i \in 1..Len(program) : OfClass(program, places, i) /\ i < at}
        BY <2>5, <2>7, <3>1 DEF Generated
      <4>2. Generated(places) =
               {i \in 1..Len(program) : OfClass(program, places, i) /\ i < at}
        BY <3>1 DEF Generated
      <4> QED BY <4>1, <4>2
    <3>2. CASE phase = "code"
      <4>1. Generated(places)' =
               {i \in 1..Len(program) : OfClass(program, places, i) \/ i < at}
        BY <2>5, <2>7, <3>2 DEF Generated
      <4>2. Generated(places) =
               {i \in 1..Len(program) : OfClass(program, places, i) \/ i < at}
        BY <3>2 DEF Generated
      <4> QED BY <4>1, <4>2
    <3> QED BY <1>2, <3>1, <3>2
  <2>14. GeneratedInv(places)'
    BY <1>3, <2>5, <2>13 DEF GeneratedInv
  <2>15. \A r \in refs' : r.at \in 1..Len(program) /\ r.entry = MeaningAt(program, places, r.at)
    BY <2>5 DEF MeansInv
  <2>16. phase' \notin {"parse", "failed"} /\ UNCHANGED program
    BY <2>5
  <2> QED BY <2>8, <2>10, <2>11, <2>12, <2>14, <2>15, <2>16, StepMeans
<1> QED
  BY <1>7, <1>8

\* A function that has ended does not come back.
LEMMA AfterFunction ==
    ASSUME NEW prog, NEW places, Tree(prog, places), NEW f \in 1..Len(prog),
           NEW e \in 1..Len(prog), f <= e, Fun(prog, places[e]) # f
    PROVE  \A d \in e..Len(prog) : Fun(prog, places[d]) # f
<1> DEFINE T == {d \in e..Len(prog) : Fun(prog, places[d]) = f}
<1>1. Len(prog) \in Nat /\ f \in Nat \ {0} /\ e \in Nat
  BY DEF Tree
<1>2. SUFFICES ASSUME T # {} PROVE FALSE
  OBVIOUS
<1>3. PICK m \in T : \A y \in T : m <= y
  <2>1. T \subseteq Nat
    BY <1>1
  <2> HIDE DEF T
  <2> QED BY <1>2, <2>1, SmallestElement
<1>4. m \in (e + 1)..Len(prog) /\ m - 1 \in e..Len(prog) /\ m \in 1..Len(prog) /\ m # f
  BY <1>1, <1>3
<1>5. m - 1 \notin T
  BY <1>1, <1>3, <1>4
<1>6. Fun(prog, places[m - 1]) # f /\ Fun(prog, places[m]) = f
  BY <1>3, <1>4, <1>5
<1>7. /\ prog[m].op = "function" => Fun(prog, places[m]) = m
      /\ prog[m].op = "end" /\ prog[Inner(places[m - 1])].op = "function" =>
            Fun(prog, places[m]) = 0
      /\ prog[m].op # "function"
         /\ ~ (prog[m].op = "end" /\ prog[Inner(places[m - 1])].op = "function") =>
            Fun(prog, places[m]) = Fun(prog, places[m - 1])
  BY <1>4, FunStep
<1> QED
  BY <1>1, <1>4, <1>6, <1>7

\* When its end is reached, all of its locals are declared.
LEMMA AllDeclared ==
    ASSUME NEW prog, NEW places, Tree(prog, places), NEW f \in 1..Len(prog),
           NEW e \in 1..Len(prog), f < e, prog[e].op = "end",
           Fun(prog, places[e]) # f, NEW tab,
           Holds(prog, places, tab, f, LocalTokens(prog, places, f, e))
    PROVE  Holds(prog, places, tab, f, 1..Len(prog))
<1> DEFINE R == LocalTokens(prog, places, f, e)
<1>1. Len(prog) \in Nat /\ f \in Nat \ {0} /\ e \in Nat
  BY DEF Tree
<1>2. \A d \in e..Len(prog) : Fun(prog, places[d]) # f
  BY <1>1, AfterFunction
<1>3. \A d \in 1..Len(prog) : d = e \/ d \in R
  <2>1. ASSUME NEW d \in 1..Len(prog), d # e, ~ (d < e)
        PROVE  d \in R
    <3>1. d - 1 \in e..Len(prog)
      BY <1>1, <2>1
    <3> QED BY <1>2, <3>1 DEF LocalTokens
  <2> QED BY <2>1 DEF LocalTokens
<1>4. R \subseteq 1..Len(prog)
  BY DEF LocalTokens
<1>5. \A j \in 0..Len(prog), name \in Names : ~ Declares(prog, places, j, name, e)
  <2>1. prog[e].op \notin {"var", "for"} \cup CallableOps
    BY DEF CallableOps
  <2> QED BY <2>1, OtherDeclares
<1> HIDE DEF R
<1>6. \A j \in 0..Len(prog), name \in Names, d \in 1..Len(prog) :
          Declares(prog, places, j, name, d) =>
              ((d \in R /\ Live(prog, places, f, j)) <=>
                  (d \in 1..Len(prog) /\ Live(prog, places, f, j)))
  BY <1>3, <1>5
<1>7. Holds(prog, places, tab, f, R)
  BY DEF R
<1> QED
  BY <1>4, <1>6, <1>7, HoldsSame

\* The end of the pass over the locals: the body is generated next.
LEMMA LocalsDoneMeans ==
    ASSUME NEW opens, NEW places, SymbolsInv(opens), MeansInv(opens, places), LocalsDone
    PROVE  MeansInv(opens, places)'
<1>1. phase = "locals" /\ Running /\ AtFunctionEnd /\ tok.op = "end"
  BY DEF LocalsDone, AtFunctionEnd
<1>2. /\ Tree(program, places)
      /\ at \in 1..Len(program) /\ at \in Nat \ {0} /\ Len(program) \in Nat
      /\ at - 1 \in 0..Len(program) /\ open = Kinds(program, places[at - 1])
      /\ GeneratedInv(places)
  BY <1>1, Here
<1>3. /\ start \in 1..(at - 1) /\ start \in 1..Len(program)
      /\ Fun(program, places[at - 1]) = start /\ program[start].op = "function"
      /\ scope = Path(program, places[start]) /\ Inner(places[start]) = start
      /\ IsInjective(program[start].params)
      /\ Holds(program, places, table, start, LocalTokens(program, places, start, at))
  BY <1>1, LocalsHere
<1>4. start \in Nat \ {0} /\ start \in 0..Len(program) /\ start + 1 - 1 = start /\ start < at
  BY <1>2, <1>3
<1>5. tok = program[at]
  BY DEF tok
<1>6. places[at - 1] = places[start] /\ Fun(program, places[at]) = 0
  <2>1. places[at - 1] # <<>>
    BY <1>2, <1>3, <1>4, TopLevel
  <2>2. program[Inner(places[at - 1])].op = "function"
    BY <1>1, <1>2, <2>1, KindsFacts DEF AtFunctionEnd
  <2>3. Fun(program, places[at]) = 0 /\ Fun(program, places[at - 1]) = Inner(places[at - 1])
    BY <1>1, <1>2, <1>5, <2>2, FunStep
  <2>4. places[Inner(places[at - 1])] = places[at - 1]
    BY <1>2, TreeInner
  <2> QED BY <1>3, <2>3, <2>4
<1>7. Holds(program, places, table, start, 1..Len(program))
  <2>1. program[at].op = "end" /\ Fun(program, places[at]) # start
    BY <1>1, <1>4, <1>5, <1>6
  <2> QED BY ONLY <1>2, <1>3, <1>4, <2>1, AllDeclared
<1>8. CASE program[start].name = "string" /\ program[start].params # <<>>
  <2>1. Fail
    BY <1>8 DEF LocalsDone
  <2>2. ~ GoodToken(program, places, start)
    BY <1>3, <1>8 DEF GoodToken
  <2>3. ~ GoodProgram(program, places)
    BY <1>3, <2>2 DEF GoodProgram
  <2> QED BY <2>1, <2>3, FailMeans
<1>9. CASE ~ (program[start].name = "string" /\ program[start].params # <<>>)
  <2>1. /\ at' = start + 1 /\ phase' = (IF InClass(open) THEN "classes" ELSE "code")
        /\ UNCHANGED <<program, open, scope, subscope, table, num_globals, num_locals,
                       start, refs>>
    BY <1>9 DEF LocalsDone
  <2>2. at' - 1 = start /\ phase' \in {"classes", "code"} /\ phase' \notin {"parse", "failed"}
        /\ (phase' = "classes") = InClass(open')
    BY <1>4, <2>1 DEF InClass
  <2>3. Current(places)' = start
    BY <1>3, <1>6, <2>1, <2>2 DEF Current, OwnPass
  <2>4. Declared(places)' = 1..Len(program)
    BY <2>1, <2>2 DEF Declared
  <2>5. PathInv(places)'
    BY <1>3, <2>1, <2>2 DEF PathInv
  <2>6. StartInv(places)' /\ NumbersInv(places)'
    BY <2>1, <2>2, <2>3 DEF StartInv, NumbersInv
  <2>7. Holds(program, places, table, Current(places), Declared(places))'
    BY <1>7, <2>1, <2>3, <2>4
  <2>8. InClass(open) <=> OfClass(program, places, start)
    <3>1. places[start] # <<>>
      BY <1>2, <1>3, <1>4, TreeInner
    <3>2. InClass(open) <=> (places[at - 1] # <<>> /\ program[places[at - 1][1]].op = "class")
      BY <1>2, KindsFacts
    <3>3. OfClass(program, places, start) <=> program[places[start][1]].op = "class"
      BY <1>2, <1>3, <3>1, ClassStep
    <3> QED BY <1>6, <3>1, <3>2, <3>3
  <2>9. Generated(places)' = Generated(places) \cup {start}
    <3>1. \A i \in 1..Len(program) : i < start + 1 <=> i < start \/ i = start
      BY <1>4
    <3>2. CASE InClass(open)
      <4>1. Generated(places)' =
               {i \in 1..Len(program) : OfClass(program, places, i) /\ i < start + 1}
        BY <2>1, <3>2 DEF Generated
      <4>2. Generated(places) =
               {i \in 1..Len(program) : OfClass(program, places, i) /\ i < start}
        BY <1>1, <3>2 DEF Generated
      <4> QED BY <1>3, <2>8, <3>1, <3>2, <4>1, <4>2
    <3>3. CASE ~ InClass(open)
      <4>1. Generated(places)' =
               {i \in 1..Len(program) : OfClass(program, places, i) \/ i < start + 1}
        BY <2>1, <3>3 DEF Generated
      <4>2. Generated(places) =
               {i \in 1..Len(program) : OfClass(program, places, i) \/ i < start}
        BY <1>1, <3>3 DEF Generated
      <4> QED BY <1>3, <3>1, <3>3, <4>1, <4>2
    <3> QED BY <3>2, <3>3
  <2>10. GoodToken(program, places, start)
    BY <1>3, <1>9 DEF GoodToken
  <2>11. ASSUME NEW j \in 1..Len(program), Fun(program, places[j]) = start
         PROVE  Unique(program, places, j)
    <3>1. Live(program, places, start, j) /\ j \in 0..Len(program)
      BY <1>4, <2>11 DEF Live
    <3> QED BY <1>7, <3>1 DEF Holds, Unique
  <2>12. GeneratedInv(places)'
    <3>1. {r.at : r \in refs} =
             {i \in Generated(places) : program[i].op \in {"use", "set", "var", "for"}}
      BY <1>2 DEF GeneratedInv
    <3>2. {i \in Generated(places) : program[i].op \in {"use", "set", "var", "for"}} =
          {i \in Generated(places) \cup {start} : program[i].op \in {"use", "set", "var", "for"}}
      BY <1>3
    <3>3. {r.at : r \in refs'} = {r.at : r \in refs}
      BY <2>1
    <3>4. \A i \in Generated(places) \cup {start} :
             /\ GoodToken(program, places, i)
             /\ program[i].op = "function" =>
                   \A j \in 1..Len(program) :
                       Fun(program, places[j]) = i => Unique(program, places, j)
      BY <1>2, <2>10, <2>11 DEF GeneratedInv
    <3>5. program' = program
      BY <2>1
    <3> HIDE DEF Generated
    <3> QED BY <2>9, <3>1, <3>2, <3>3, <3>4, <3>5 DEF GeneratedInv
  <2>13. \A r \in refs' : r.at \in 1..Len(program) /\ r.entry = MeaningAt(program, places, r.at)
    BY <2>1 DEF MeansInv
  <2>14. UNCHANGED program
    BY <2>1
  <2> QED BY <2>2, <2>5, <2>6, <2>7, <2>12, <2>13, <2>14, StepMeans
<1> QED
  BY <1>8, <1>9

\* What is declared in a function or a class has the entry of a local or a parameter.
LEMMA EntryType ==
    ASSUME NEW prog, NEW places, Tree(prog, places), NEW j \in 0..Len(prog), NEW name \in Names,
           NEW d \in 1..Len(prog), Declares(prog, places, j, name, d)
    PROVE  EntryFor(prog, places, j, name, d).type \in {"local", "param"} <=>
              Within(prog, places[j])
<1>1. d \in 0..Len(prog) /\ d - 1 \in 0..Len(prog) /\ prog[d] \in Token
  BY TreeStep
<1>2. /\ IsVar(prog, d) =>
            Within(prog, places[j]) <=> Within(prog, places[d - 1])
      /\ ~ IsVar(prog, d) /\ j # 0 => j = d /\ prog[d].op = "function"
      /\ ~ IsVar(prog, d) /\ j = 0 => prog[d].op \in CallableOps
  BY DeclaresFacts
<1>3. CASE IsVar(prog, d)
  <2>1. Within(prog, places[d - 1]) <=> Fun(prog, places[d - 1]) # 0
    BY <1>1, <1>3, FunFacts, VarDeclares
  <2>2. EntryFor(prog, places, j, name, d).type =
           IF Fun(prog, places[d - 1]) = 0 THEN "global" ELSE "local"
    BY <1>3 DEF EntryFor, VarEntry
  <2> QED BY <1>2, <1>3, <2>1, <2>2
<1>4. CASE ~ IsVar(prog, d) /\ j # 0
  <2>1. Within(prog, places[j])
    BY <1>2, <1>4, WithinStep DEF CallableOps
  <2>2. EntryFor(prog, places, j, name, d).type = "param"
    BY <1>4 DEF EntryFor
  <2> QED BY <2>1, <2>2
<1>5. CASE ~ IsVar(prog, d) /\ j = 0
  <2>1. ~ Within(prog, places[j])
    <3>1. places[0] = <<>>
      BY DEF Tree
    <3> QED BY <1>5, <3>1, TopLevel
  <2>2. EntryFor(prog, places, j, name, d).type \in {"function", "class"}
    BY <1>2, <1>5 DEF EntryFor, CallableOps
  <2> QED BY <2>1, <2>2
<1> QED
  BY <1>3, <1>4, <1>5

\* Without its locals the table has the globals.
LEMMA HoldsGlobals ==
    ASSUME NEW prog, NEW places, Tree(prog, places), NEW tab, NEW f,
           Holds(prog, places, tab, f, 1..Len(prog)), NEW tab2,
           DOMAIN tab2 \subseteq DOMAIN tab,
           \A k \in DOMAIN tab2 : tab2[k] = tab[k] /\ tab2[k].type \notin {"local", "param"},
           \A k \in DOMAIN tab : tab[k].type \notin {"local", "param"} => k \in DOMAIN tab2
    PROVE  Holds(prog, places, tab2, 0, 1..Len(prog))
<1>1. \A j \in 0..Len(prog) : Live(prog, places, 0, j) <=> ~ Within(prog, places[j])
  BY DEF Live
<1>2. \A j \in 0..Len(prog) : Live(prog, places, 0, j) => Live(prog, places, f, j)
  BY DEF Live
<1>3. \A j \in 0..Len(prog), name \in Names, d \in 1..Len(prog) :
          Live(prog, places, f, j) /\ Declares(prog, places, j, name, d) =>
              /\ KeyIn(prog, places, j, name) \in DOMAIN tab
              /\ tab[KeyIn(prog, places, j, name)] = EntryFor(prog, places, j, name, d)
              /\ \A c \in 1..Len(prog) : Declares(prog, places, j, name, c) => c = d
              /\ tab[KeyIn(prog, places, j, name)].type \in {"local", "param"} <=>
                     Within(prog, places[j])
  BY EntryType DEF Holds
<1>4. ASSUME NEW k \in DOMAIN tab2
      PROVE  \E j \in 0..Len(prog), name \in Names, d \in 1..Len(prog) :
                 /\ Live(prog, places, 0, j) /\ Declares(prog, places, j, name, d)
                 /\ k = KeyIn(prog, places, j, name)
  <2>1. PICK j \in 0..Len(prog), name \in Names, d \in 1..Len(prog) :
              /\ Live(prog, places, f, j) /\ Declares(prog, places, j, name, d)
              /\ k = KeyIn(prog, places, j, name)
    BY <1>4 DEF Holds
  <2>2. tab[k].type \notin {"local", "param"}
    BY <1>4
  <2>3. Live(prog, places, 0, j)
    BY <1>1, <1>3, <2>1, <2>2
  <2> QED BY <2>1, <2>3
<1>5. ASSUME NEW j \in 0..Len(prog), NEW name \in Names, NEW d \in 1..Len(prog),
             Live(prog, places, 0, j), Declares(prog, places, j, name, d)
      PROVE  /\ KeyIn(prog, places, j, name) \in DOMAIN tab2
             /\ tab2[KeyIn(prog, places, j, name)] = EntryFor(prog, places, j, name, d)
             /\ \A c \in 1..Len(prog) : Declares(prog, places, j, name, c) => c = d
  BY <1>1, <1>2, <1>3, <1>5
<1> QED
  BY <1>4, <1>5 DEF Holds

LEMMA LeaveFunctionMeans ==
    ASSUME NEW opens, NEW places, SymbolsInv(opens), MeansInv(opens, places), LeaveFunction
    PROVE  MeansInv(opens, places)'
<1>1. /\ Generating /\ AtFunctionEnd /\ tok.op = "end" /\ scope' = Front(scope)
      /\ Step /\ UNCHANGED <<subscope, num_globals, num_locals, start, refs>>
  BY DEF LeaveFunction, AtFunctionEnd
<1>2. /\ Running
      /\ scope = Path(program, places[at - 1])
      /\ Holds(program, places, table, Fun(program, places[at - 1]), 1..Len(program))
  BY <1>1, GeneratingHere
<1>3. Tree(program, places) /\ at \in 1..Len(program) /\ tok = program[at]
  BY <1>2, Here DEF tok
<1>4. scope' = Path(program, places[at])
  BY <1>1, <1>2, <1>3, PathStep
<1>5. Fun(program, places[at]) = 0
  <2>1. program[Inner(places[at - 1])].op = "function"
    BY <1>1, <1>2, NextPlace DEF Step
  <2> QED BY <1>1, <1>3, <2>1, FunStep
<1>6. /\ NoLocals'
      /\ DOMAIN table' \subseteq DOMAIN table
      /\ \A k \in DOMAIN table' : table'[k] = table[k]
      /\ \A k \in DOMAIN table : table[k].type \notin {"local", "param"} => k \in DOMAIN table'
  BY LeaveFunctionTable
<1>7. \A k \in DOMAIN table' : table'[k] = table[k] /\ table'[k].type \notin {"local", "param"}
  BY <1>6 DEF NoLocals
<1>8. Holds(program, places, table', 0, 1..Len(program))
  BY <1>2, <1>3, <1>6, <1>7, HoldsGlobals
<1>9. tok.op \notin {"use", "set", "var", "for", "function"}
  BY <1>1
<1> QED
  BY <1>1, <1>4, <1>5, <1>8, <1>9, PlainStep

-----------------------------------------------------------------------------
(* The program is read: its tree grows by a place.                          *)

GrowsTo(q, p, n, e, t) ==
    /\ n \in Nat /\ e = n + 1 /\ p \in Seq(1..n)
    /\ t \in Token /\ (t.op \in {"end", "else"} => p # <<>>)
    /\ q = PlacesAfter(p, e, t.op)

\* The place after one more token.
LEMMA OnePlaceMore ==
    ASSUME NEW n, NEW e, NEW p, NEW t, NEW q, GrowsTo(q, p, n, e, t)
    PROVE  /\ q \in Seq(1..e)
           /\ \A m \in 1..Len(q) :
                 \/ m \in 1..Len(p) /\ q[m] = p[m]
                 \/ m = Len(q) /\ q[m] = e
           /\ t.op = "end" => Len(q) = Len(p) - 1 /\ \A m \in 1..Len(q) : q[m] = p[m]
           /\ t.op = "else" => /\ Len(q) = Len(p) /\ q[Len(q)] = e
                               /\ \A m \in 1..(Len(q) - 1) : q[m] = p[m]
           /\ Opens(t.op) => /\ Len(q) = Len(p) + 1 /\ q[Len(q)] = e
                             /\ \A m \in 1..Len(p) : q[m] = p[m]
           /\ t.op \in {"use", "set", "var"} => q = p
<1>7. /\ n \in Nat /\ e = n + 1 /\ p \in Seq(1..n)
      /\ t \in Token /\ (t.op \in {"end", "else"} => p # <<>>)
      /\ q = PlacesAfter(p, e, t.op)
  BY DEF GrowsTo
<1> DEFINE S == 1..(n + 1)
           last == e
<1>1. Len(p) \in Nat /\ p \in Seq(S) /\ last \in S
  <2>1. \A m \in 1..Len(p) : p[m] \in S
    <3>1. \A m \in 1..Len(p) : p[m] \in 1..n
      BY <1>7, ElementOfSeq
    <3> QED BY <1>7, <3>1
  <2>2. p = [m \in 1..Len(p) |-> p[m]]
    BY <1>7
  <2>3. Len(p) \in Nat /\ p \in [1..Len(p) -> S]
    BY <1>7, <2>1, <2>2
  <2> HIDE DEF S
  <2>4. p \in Seq(S)
    BY <2>3, SequenceOfValues
  <2> QED BY <1>7, <2>3, <2>4 DEF S
<1>2. t.op \in {"use", "set", "var"} \cup BlockOps \cup CallableOps \cup {"end"}
  BY <1>7, TokenFields
<1>0. /\ t.op = "end" => q = Front(p)
      /\ t.op = "else" => q = Append(Front(p), last)
      /\ Opens(t.op) => q = Append(p, last)
      /\ t.op \in {"use", "set", "var"} => q = p
  BY <1>7 DEF PlacesAfter, Opens
<1> HIDE DEF S, last
<1>3. CASE t.op = "end"
  <2>2. /\ Front(p) \in Seq(S) /\ Len(Front(p)) = Len(p) - 1 /\ Len(p) \in Nat \ {0}
        /\ \A i \in 1..(Len(p) - 1) : Front(p)[i] = p[i]
    BY <1>1, <1>3, <1>7, FrontProperties
  <2>1. q = Front(p)
    BY <1>0, <1>3
  <2>4. Len(q) = Len(p) - 1
    BY <2>1, <2>2
  <2>3. \A m \in 1..Len(q) : m \in 1..Len(p) /\ m \in 1..(Len(p) - 1)
    BY <2>4, <2>2
  <2>5. \A m \in 1..Len(q) : m \in 1..Len(p) /\ q[m] = p[m]
    BY ONLY <2>1, <2>2, <2>3
  <2> QED BY <1>7, <1>3, <2>1, <2>2, <2>4, <2>5 DEF Opens, S, last
<1>4. CASE t.op = "else"
  <2>1. q = Append(Front(p), last)
    BY <1>0, <1>4
  <2>2. /\ Front(p) \in Seq(S) /\ Len(Front(p)) = Len(p) - 1 /\ Len(p) \in Nat \ {0}
        /\ \A i \in 1..(Len(p) - 1) : Front(p)[i] = p[i]
    BY <1>1, <1>4, <1>7, FrontProperties
  <2>5. Len(p) - 1 + 1 = Len(p)
    BY <2>2
  <2>3. /\ q \in Seq(S) /\ Len(q) = Len(p) /\ q[Len(p)] = last
        /\ \A m \in 1..(Len(p) - 1) : q[m] = Front(p)[m]
    BY ONLY <1>1, <2>1, <2>2, <2>5, AppendProperties
  <2>6. \A m \in 1..Len(p) : m = Len(p) \/ (m \in 1..Len(p) /\ m \in 1..(Len(p) - 1))
    BY <2>2
  <2>4. \A m \in 1..Len(q) : (m = Len(q) /\ q[m] = last) \/ (m \in 1..Len(p) /\ q[m] = p[m])
    BY ONLY <2>2, <2>3, <2>6
  <2>7. \A m \in 1..(Len(q) - 1) : q[m] = p[m]
    BY ONLY <2>2, <2>3
  <2> QED BY <1>7, <1>4, <2>2, <2>3, <2>4, <2>7 DEF Opens, S, last
<1>5. CASE Opens(t.op)
  <2>1. q = Append(p, last)
    BY <1>0, <1>5
  <2>3. /\ q \in Seq(S) /\ Len(q) = Len(p) + 1 /\ q[Len(p) + 1] = last
        /\ \A m \in 1..Len(p) : q[m] = p[m]
    BY ONLY <1>1, <2>1, AppendProperties
  <2>6. \A m \in 1..(Len(p) + 1) : m = Len(p) + 1 \/ m \in 1..Len(p)
    BY <1>1
  <2>4. \A m \in 1..Len(q) : (m = Len(q) /\ q[m] = last) \/ (m \in 1..Len(p) /\ q[m] = p[m])
    BY ONLY <2>3, <2>6
  <2> QED BY <1>7, <1>5, <2>3, <2>4 DEF Opens, S, last
<1>6. CASE t.op \in {"use", "set", "var"}
  <2>1. q = p
    BY <1>0, <1>6
  <2>2. \A m \in 1..Len(q) : m \in 1..Len(p) /\ q[m] = p[m]
    BY ONLY <2>1
  <2>3. q \in Seq(1..e)
    BY <1>1, <1>7, <2>1 DEF S
  <2> QED BY <1>6, <2>1, <2>2, <2>3 DEF Opens
<1> QED
  BY <1>2, <1>3, <1>4, <1>5, <1>6 DEF Opens, BlockOps, CallableOps

Extends(prog, t, o, q, p, n, e) ==
    /\ GrowsTo(q, p, n, e, t)
    /\ WellNested(o) /\ Len(o) = Len(p) /\ \A m \in 1..Len(p) : o[m] = prog[p[m]].op
    /\ prog[e] = t /\ WellNested(OpenAfter(o, t))

LEMMA KindsAfter ==
    ASSUME NEW prog, NEW t, NEW o, NEW q, NEW p, NEW n, NEW e, Extends(prog, t, o, q, p, n, e)
    PROVE  Kinds(prog, q) = OpenAfter(o, t)
<1> DEFINE S == BlockOps \cup CallableOps
<1>9. /\ GrowsTo(q, p, n, e, t)
      /\ WellNested(o) /\ Len(o) = Len(p) /\ \A m \in 1..Len(p) : o[m] = prog[p[m]].op
      /\ prog[e] = t /\ WellNested(OpenAfter(o, t))
  BY DEF Extends
<1>0. /\ n \in Nat /\ e = n + 1 /\ p \in Seq(1..n)
      /\ t \in Token /\ (t.op \in {"end", "else"} => p # <<>>)
  BY <1>9 DEF GrowsTo
<1>1. /\ q \in Seq(1..e)
      /\ t.op = "end" => Len(q) = Len(p) - 1 /\ \A m \in 1..Len(q) : q[m] = p[m]
      /\ t.op = "else" => /\ Len(q) = Len(p) /\ q[Len(q)] = e
                          /\ \A m \in 1..(Len(q) - 1) : q[m] = p[m]
      /\ Opens(t.op) => /\ Len(q) = Len(p) + 1 /\ q[Len(q)] = e
                        /\ \A m \in 1..Len(p) : q[m] = p[m]
      /\ t.op \in {"use", "set", "var"} => q = p
  BY ONLY <1>9, OnePlaceMore
<1>2. o \in Seq(S) /\ Len(p) \in Nat /\ OpenAfter(o, t) \in Seq(S)
  BY <1>0, <1>9 DEF WellNested
<1>3. t.op \in {"use", "set", "var"} \cup BlockOps \cup CallableOps \cup {"end"}
  BY <1>0, TokenFields
<1>4. Kinds(prog, q) = [m \in 1..Len(q) |-> prog[q[m]].op]
  BY DEF Kinds
<1>5. o # <<>> <=> p # <<>>
  BY <1>2, <1>9, EmptySeq
<1>6. Len(OpenAfter(o, t)) = Len(q) /\ \A m \in 1..Len(q) : OpenAfter(o, t)[m] = prog[q[m]].op
  <2>1. CASE t.op = "end"
    <3>1. /\ OpenAfter(o, t) = Front(o) /\ Len(Front(o)) = Len(o) - 1 /\ Len(o) \in Nat \ {0}
          /\ \A i \in 1..(Len(o) - 1) : Front(o)[i] = o[i]
      BY <1>0, <1>2, <1>5, <1>9, <2>1, OpenAfterCases, FrontProperties
    <3>2. \A m \in 1..Len(q) : m \in 1..(Len(o) - 1) /\ m \in 1..Len(p)
      BY <1>0, <1>1, <1>2, <1>9, <2>1, <3>1, SMTT(30)
    <3>3. \A m \in 1..Len(q) : q[m] = p[m] /\ OpenAfter(o, t)[m] = o[m]
      BY <1>1, <2>1, <3>1, <3>2
    <3>4. \A m \in 1..Len(q) : OpenAfter(o, t)[m] = prog[q[m]].op
      BY ONLY <1>9, <3>2, <3>3
    <3> QED BY <1>1, <1>9, <2>1, <3>1, <3>4
  <2>2. CASE t.op = "else"
    <3>1. /\ OpenAfter(o, t) = Append(Front(o), "else")
          /\ Front(o) \in Seq(S) /\ Len(Front(o)) = Len(o) - 1 /\ Len(o) \in Nat \ {0}
          /\ \A i \in 1..(Len(o) - 1) : Front(o)[i] = o[i]
      BY <1>0, <1>2, <1>5, <1>9, <2>2, OpenAfterCases, FrontProperties
    <3>2. "else" \in S
      BY DEF BlockOps
    <3> HIDE DEF S
    <3>3. /\ Len(Append(Front(o), "else")) = Len(o) /\ Append(Front(o), "else")[Len(o)] = "else"
          /\ \A i \in 1..(Len(o) - 1) : Append(Front(o), "else")[i] = Front(o)[i]
      BY <3>1, <3>2, AppendProperties
    <3>4. \A m \in 1..Len(q) : m = Len(q) \/ (m \in 1..(Len(o) - 1) /\ m \in 1..Len(p))
      BY <1>0, <1>1, <1>2, <1>9, <2>2, <3>1
    <3>5. Len(q) = Len(o) /\ prog[q[Len(q)]].op = "else"
      BY <1>0, <1>1, <1>2, <1>9, <2>2
    <3>6. \A m \in 1..(Len(o) - 1) : q[m] = p[m] /\ OpenAfter(o, t)[m] = o[m]
      BY <1>0, <1>1, <1>2, <1>9, <2>2, <3>1, <3>3, <3>5
    <3>7. \A m \in 1..(Len(o) - 1) : m \in 1..Len(p)
      BY <1>2, <1>9, <3>1
    <3>8. \A m \in 1..(Len(o) - 1) : OpenAfter(o, t)[m] = prog[q[m]].op
      BY ONLY <1>9, <3>6, <3>7
    <3> QED BY ONLY <3>1, <3>3, <3>4, <3>5, <3>8
  <2>3. CASE Opens(t.op)
    <3>1. OpenAfter(o, t) = Append(o, t.op)
      BY <1>0, <2>3, OpenAfterCases DEF Opens
    <3>2. t.op \in S
      BY <2>3 DEF Opens, BlockOps, CallableOps
    <3> HIDE DEF S
    <3>3. /\ Len(Append(o, t.op)) = Len(o) + 1 /\ Append(o, t.op)[Len(o) + 1] = t.op
          /\ \A i \in 1..Len(o) : Append(o, t.op)[i] = o[i]
      BY <1>0, <1>2, <1>9, <3>2, AppendProperties
    <3>4. \A m \in 1..Len(q) : m = Len(q) \/ m \in 1..Len(p)
      BY <1>0, <1>1, <1>2, <1>9, <2>3
    <3>5. Len(q) = Len(o) + 1 /\ prog[q[Len(q)]].op = t.op
      BY <1>0, <1>1, <1>2, <1>9, <2>3
    <3> QED BY <1>0, <1>1, <1>2, <1>9, <2>3, <3>1, <3>3, <3>4, <3>5
  <2>4. CASE t.op \in {"use", "set", "var"}
    <3>1. OpenAfter(o, t) = o
      BY <1>0, <2>4, OpenAfterCases
    <3> QED BY <1>0, <1>1, <1>2, <1>9, <2>4, <3>1
  <2> QED BY <1>3, <2>1, <2>2, <2>3, <2>4 DEF Opens, BlockOps, CallableOps
<1>7. OpenAfter(o, t) = [m \in 1..Len(q) |-> OpenAfter(o, t)[m]]
  BY <1>2, <1>6
<1>8. [m \in 1..Len(q) |-> OpenAfter(o, t)[m]] = [m \in 1..Len(q) |-> prog[q[m]].op]
  BY <1>6
<1> QED
  BY <1>4, <1>7, <1>8

OneTokenMore(prog, places, t, n, o, prog2, places2) ==
    /\ Tree(prog, places) /\ t \in Token /\ n = Len(prog) /\ o = Kinds(prog, places[n])
    /\ WellNested(o) /\ MayFollow(o, t) /\ WellNested(OpenAfter(o, t))
    /\ prog2 \in Seq(Token) /\ Len(prog2) = n + 1 /\ n + 1 <= MaxTokens
    /\ prog2[n + 1] = t /\ \A i \in 1..n : prog2[i] = prog[i]
    /\ DOMAIN places2 = 0..(n + 1) /\ \A i \in 0..n : places2[i] = places[i]
    /\ places2[n + 1] = PlacesAfter(places[n], n + 1, t.op)

LEMMA TreeGrows ==
    ASSUME NEW prog, NEW places, NEW t, NEW n, NEW o, NEW prog2, NEW places2,
           OneTokenMore(prog, places, t, n, o, prog2, places2)
    PROVE  /\ Tree(prog2, places2)
           /\ \A i \in 0..n : Kinds(prog2, places2[i]) = Kinds(prog, places[i])
           /\ Kinds(prog2, places2[n + 1]) = OpenAfter(o, t)
<1>13. SUFFICES ASSUME
         Tree(prog, places), t \in Token, n = Len(prog), o = Kinds(prog, places[n]), WellNested(o),
         MayFollow(o, t), WellNested(OpenAfter(o, t)),
         prog2 \in Seq(Token), Len(prog2) = n + 1, n + 1 <= MaxTokens,
         prog2[n + 1] = t, \A i \in 1..n : prog2[i] = prog[i],
         DOMAIN places2 = 0..(n + 1), \A i \in 0..n : places2[i] = places[i],
         places2[n + 1] = PlacesAfter(places[n], n + 1, t.op)
       PROVE  /\ Tree(prog2, places2)
              /\ \A i \in 0..n : Kinds(prog2, places2[i]) = Kinds(prog, places[i])
              /\ Kinds(prog2, places2[n + 1]) = OpenAfter(o, t)
  BY DEF OneTokenMore
<1> USE <1>13
<1> DEFINE p == places[n]
           q == places2[n + 1]
<1>1. /\ n \in Nat /\ n \in 0..n /\ 0 \in 0..n /\ n + 1 - 1 = n /\ n + 1 \in 0..(n + 1)
      /\ p \in Seq(1..n) /\ Len(p) \in Nat /\ prog \in Seq(Token)
      /\ p = <<>> <=> Len(p) = 0
  <2>1. n \in Nat /\ prog \in Seq(Token)
    BY DEF Tree
  <2>2. n \in 0..Len(prog)
    BY <2>1
  <2>3. p \in Seq(1..n) /\ Len(p) \in Nat /\ (p = <<>> <=> Len(p) = 0)
    BY <2>2, TreeFacts
  <2> QED BY <2>1, <2>3
<1>2. t.op \in {"end", "else"} => p # <<>>
  <2>1. Kinds(prog, p) = <<>> <=> p = <<>>
    BY <1>1, KindsFacts, SMTT(30)
  <2> QED BY <2>1 DEF MayFollow
<1>3. \A i \in 0..n : \A m \in 1..Len(places[i]) :
          places[i][m] \in 1..n /\ prog2[places[i][m]] = prog[places[i][m]]
  <2>1. \A i \in 0..n : \A m \in 1..Len(places[i]) : places[i][m] \in 1..Len(prog)
    BY TreeFacts, SMTT(30)
  <2> QED BY <2>1, SMTT(30)
<1>4. \A i \in 0..n : Kinds(prog2, places2[i]) = Kinds(prog, places[i])
  BY <1>3, SMTT(30) DEF Kinds
<1>5. Len(o) = Len(p) /\ \A m \in 1..Len(p) : o[m] = prog2[p[m]].op
  BY <1>1, <1>3, KindsElements, SMTT(30)
<1>6. q = PlacesAfter(p, n + 1, t.op)
  OBVIOUS
<1> DEFINE e == n + 1
<1>0. GrowsTo(q, p, n, e, t)
  BY <1>1, <1>2, <1>6 DEF GrowsTo
<1> HIDE DEF p, q, e
<1>7. Kinds(prog2, q) = OpenAfter(o, t)
  <2>1. prog2[e] = t
    BY DEF e
  <2>2. Extends(prog2, t, o, q, p, n, e)
    BY <1>0, <1>5, <2>1 DEF Extends
  <2> QED BY ONLY <2>2, KindsAfter
<1>8. /\ q \in Seq(1..(n + 1))
      /\ \A m \in 1..Len(q) :
            \/ m \in 1..Len(p) /\ q[m] = p[m]
            \/ m = Len(q) /\ q[m] = n + 1
  <2>1. /\ q \in Seq(1..e)
        /\ \A m \in 1..Len(q) :
              \/ m \in 1..Len(p) /\ q[m] = p[m]
              \/ m = Len(q) /\ q[m] = e
    BY ONLY <1>0, OnePlaceMore
  <2> QED BY <2>1 DEF e
<1>9. \A i \in 1..(n + 1) :
          /\ places2[i] = PlacesAfter(places2[i - 1], i, prog2[i].op)
          /\ MayFollow(Kinds(prog2, places2[i - 1]), prog2[i])
  <2>1. ASSUME NEW i \in 1..n
        PROVE  /\ places2[i] = PlacesAfter(places2[i - 1], i, prog2[i].op)
               /\ MayFollow(Kinds(prog2, places2[i - 1]), prog2[i])
    <3>1. i \in 0..n /\ i - 1 \in 0..n
      BY <1>1
    <3>2. /\ places[i] = PlacesAfter(places[i - 1], i, prog[i].op)
          /\ MayFollow(Kinds(prog, places[i - 1]), prog[i])
      BY DEF Tree
    <3> QED BY <1>4, <3>1, <3>2
  <2>2. /\ places2[n + 1] = PlacesAfter(places2[n], n + 1, prog2[n + 1].op)
        /\ MayFollow(Kinds(prog2, places2[n]), prog2[n + 1])
    BY <1>1, <1>4
  <2>3. \A i \in 1..(n + 1) : i \in 1..n \/ i = n + 1
    BY <1>1
  <2>4. ASSUME NEW i \in 1..(n + 1), i = n + 1
        PROVE  /\ places2[i] = PlacesAfter(places2[i - 1], i, prog2[i].op)
               /\ MayFollow(Kinds(prog2, places2[i - 1]), prog2[i])
    <3>1. i - 1 = n
      BY <1>1, <2>4
    <3> QED BY ONLY <2>2, <2>4, <3>1
  <2> QED BY ONLY <2>1, <2>3, <2>4
<1>10. \A i \in 0..(n + 1) :
          /\ places2[i] \in Seq(1..i)
          /\ WellNested(Kinds(prog2, places2[i]))
          /\ \A m \in 1..Len(places2[i]) : places2[places2[i][m]] = SubSeq(places2[i], 1, m)
  <2>1. ASSUME NEW i \in 0..n
        PROVE  /\ places2[i] \in Seq(1..i)
               /\ WellNested(Kinds(prog2, places2[i]))
               /\ \A m \in 1..Len(places2[i]) : places2[places2[i][m]] = SubSeq(places2[i], 1, m)
    <3>1. /\ places[i] \in Seq(1..i)
          /\ WellNested(Kinds(prog, places[i]))
          /\ \A m \in 1..Len(places[i]) : places[places[i][m]] = SubSeq(places[i], 1, m)
      BY DEF Tree
    <3>2. \A m \in 1..Len(places[i]) : places[i][m] \in 0..n
      BY <1>1, <1>3
    <3> QED BY <1>4, <3>1, <3>2
  <2>2. WellNested(Kinds(prog2, q))
    BY <1>7
  <2>3. ASSUME NEW m \in 1..Len(q)
        PROVE  places2[q[m]] = SubSeq(q, 1, m)
    <3>1. Len(q) \in Nat
      BY <1>8, LenProperties
    <3>2. CASE m \in 1..Len(p) /\ q[m] = p[m]
      <4>1. places[p[m]] = SubSeq(p, 1, m)
        BY <1>1, <3>2 DEF Tree, p
      <4>2. p[m] \in 0..n
        BY <1>1, <1>3, <3>2 DEF p
      <4>3. \A l \in 1..m : q[l] = p[l] /\ l \in 1..Len(p) /\ l \in 1..Len(q)
        <5>1. ASSUME NEW l \in 1..m
              PROVE  q[l] = p[l] /\ l \in 1..Len(p) /\ l \in 1..Len(q)
          <6>1. l \in 1..Len(p) /\ l \in 1..Len(q)
            BY <1>1, <3>1, <3>2
          <6>2. CASE l = Len(q)
            <7>1. l = m
              BY <3>1, <6>2
            <7> QED BY <3>2, <6>1, <7>1
          <6>3. CASE l # Len(q)
            BY <1>8, <6>1, <6>3
          <6> QED BY <6>2, <6>3
        <5> QED BY <5>1
      <4>4. SubSeq(q, 1, m) = SubSeq(p, 1, m)
        <5>1. m \in Int /\ 1 <= m /\ 1 \in Int /\ m - 1 + 1 = m /\ m \in 1..m
          BY <1>1, <3>2
        <5>2. \A l \in 1..m : q[l] \in 1..(n + 1) /\ p[l] \in 1..(n + 1)
          <6>1. \A l \in 1..m : q[l] \in 1..(n + 1)
            BY <1>8, <4>3, ElementOfSeq
          <6> QED BY <4>3, <6>1
        <5> DEFINE S == 1..(n + 1)
        <5> HIDE DEF S
        <5>3. /\ SubSeq(q, 1, m) \in Seq(S) /\ SubSeq(p, 1, m) \in Seq(S)
              /\ Len(SubSeq(q, 1, m)) = m /\ Len(SubSeq(p, 1, m)) = m
              /\ \A l \in 1..m : SubSeq(q, 1, m)[l] = q[1 + l - 1] /\ SubSeq(p, 1, m)[l] = p[1 + l - 1]
          <6>1. \A l \in 1..m : q[l] \in S /\ p[l] \in S
            BY <5>2 DEF S
          <6> QED BY ONLY <5>1, <6>1, SubSeqProperties
        <5>4. \A l \in 1..m : 1 + l - 1 = l
          BY <5>1
        <5>5. \A l \in 1..m : SubSeq(q, 1, m)[l] = SubSeq(p, 1, m)[l]
          BY <4>3, <5>3, <5>4
        <5> QED BY ONLY <5>3, <5>5, SeqEqual
      <4> QED BY <3>2, <4>1, <4>2, <4>4 DEF p
    <3>3. CASE m = Len(q) /\ q[m] = n + 1
      <4>1. SubSeq(q, 1, Len(q)) = q
        BY <1>8, SubSeqFull
      <4> QED BY <3>3, <4>1 DEF q
    <3> QED BY <1>8, <3>2, <3>3
  <2>4. \A i \in 0..(n + 1) : i \in 0..n \/ i = n + 1
    BY <1>1
  <2> QED BY <1>8, <2>1, <2>2, <2>3, <2>4 DEF q
<1>11. DOMAIN places2 = 0..Len(prog2) /\ places2[0] = <<>> /\ Len(prog2) <= MaxTokens
  BY <1>1 DEF Tree
<1>12. Tree(prog2, places2)
  BY <1>9, <1>10, <1>11 DEF Tree
<1> QED
  BY <1>4, <1>7, <1>12 DEF q

LEMMA AddTokenMeans ==
    ASSUME NEW opens, NEW places, SymbolsInv(opens), MeansInv(opens, places),
           NEW t \in Token, MayFollow(open, t), AddToken(t)
    PROVE  \E more, further : SymbolsInv(more)' /\ MeansInv(more, further)'
<1> DEFINE n == Len(program)
<1>1. /\ phase = "parse" /\ program' = Append(program, t) /\ open' = OpenAfter(open, t)
      /\ UNCHANGED <<phase, table, refs, num_globals>>
  BY DEF AddToken
<1>2. PICK more : SymbolsInv(more)' /\ \A i \in 0..n : more[i] = opens[i]
  BY AddTokenKeeps
<1>3. /\ Tree(program, places) /\ table = <<>> /\ refs = {} /\ num_globals = 0
      /\ \A i \in 0..n : opens[i] = Kinds(program, places[i])
  BY <1>1 DEF MeansInv
<1>4. program \in Seq(Token) /\ n \in Nat /\ n \in 0..n
  BY <1>3 DEF Tree
<1>5. /\ program' \in Seq(Token) /\ Len(program') = n + 1
      /\ program'[n + 1] = t /\ \A i \in 1..n : program'[i] = program[i]
  BY <1>1, <1>4, AppendProperties
<1>6. open = Kinds(program, places[n]) /\ WellNested(open)
  <2>1. open = opens[n] /\ WellNested(opens[n])
    BY <1>1, <1>4 DEF SymbolsInv, PassInv, ProgramInv
  <2> QED BY <1>3, <1>4, <2>1
<1>7. n + 1 <= MaxTokens /\ more[n + 1] = open' /\ WellNested(open')
  <2>1. TypeOK' /\ PassInv(more)' /\ ProgramInv(more)' /\ phase' = "parse"
    BY <1>1, <1>2 DEF SymbolsInv
  <2>2. n + 1 <= MaxTokens
    BY <1>5, <2>1 DEF TypeOK
  <2>3. more[n + 1] = open'
    BY <1>5, <2>1 DEF PassInv
  <2>4. n + 1 \in 0..(n + 1)
    BY <1>4
  <2>5. WellNested(more[n + 1])
    BY <1>5, <2>1, <2>4 DEF ProgramInv
  <2> QED BY <2>2, <2>3, <2>5
<1>8. PICK further : /\ DOMAIN further = 0..(n + 1)
                     /\ \A i \in 0..n : further[i] = places[i]
                     /\ further[n + 1] = PlacesAfter(places[n], n + 1, t.op)
  <2> DEFINE h == [i \in 0..(n + 1) |-> IF i = n + 1 THEN PlacesAfter(places[n], n + 1, t.op)
                                        ELSE places[i]]
  <2>1. /\ DOMAIN h = 0..(n + 1)
        /\ \A i \in 0..n : h[i] = places[i]
        /\ h[n + 1] = PlacesAfter(places[n], n + 1, t.op)
    BY <1>4
  <2> QED BY <2>1
<1>9. /\ Tree(program', further)
      /\ \A i \in 0..n : Kinds(program', further[i]) = Kinds(program, places[i])
      /\ Kinds(program', further[n + 1]) = OpenAfter(open, t)
  <2>1. n = Len(program)
    OBVIOUS
  <2> HIDE DEF n
  <2>2. WellNested(OpenAfter(open, t))
    BY <1>1, <1>7
  <2>3. OneTokenMore(program, places, t, n, open, program', further)
    BY <1>3, <1>5, <1>6, <1>7, <1>8, <2>1, <2>2 DEF OneTokenMore
  <2> QED BY ONLY <2>3, TreeGrows
<1>10. \A i \in 0..Len(program') : more[i] = Kinds(program', further[i])
  <2>1. \A i \in 0..(n + 1) : i \in 0..n \/ i = n + 1
    BY <1>4
  <2> HIDE DEF n
  <2>2. \A i \in 0..n : opens[i] = Kinds(program, places[i])
    BY <1>3 DEF n
  <2> QED BY <1>1, <1>2, <1>5, <1>7, <1>9, <2>1, <2>2
<1>11. MeansInv(more, further)'
  BY <1>1, <1>3, <1>9, <1>10 DEF MeansInv, RefersInv
<1> QED
  BY <1>2, <1>11

LEMMA FinishParseMeans ==
    ASSUME NEW opens, NEW places, SymbolsInv(opens), MeansInv(opens, places), FinishParse
    PROVE  MeansInv(opens, places)'
<1>1. /\ phase = "parse" /\ open = <<>> /\ phase' = "globals"
      /\ UNCHANGED <<program, at, open, scope, subscope, table, num_globals, num_locals, start, refs>>
  BY DEF FinishParse
<1>2. /\ Tree(program, places) /\ table = <<>> /\ refs = {} /\ num_globals = 0
      /\ \A i \in 0..Len(program) : opens[i] = Kinds(program, places[i])
  BY <1>1 DEF MeansInv
<1>3. at = 1 /\ at' = 1 /\ 1 - 1 = 0 /\ subscope = <<>>
  BY <1>1 DEF SymbolsInv, PassInv, ScopeInv
<1>4. places[0] = <<>> /\ 0 \in 0..Len(program) /\ Len(program) \in Nat
  BY <1>2 DEF Tree
<1>5. /\ Fun(program, places[0]) = 0 /\ Path(program, places[0]) = <<>>
  BY <1>2, <1>4, TopLevel
<1>6. VarsOf(program, places, 0, 1) = {} /\ Cardinality(VarsOf(program, places, 0, 1)) = 0
  <2>1. 1..(1 - 1) = {}
    OBVIOUS
  <2>2. VarsOf(program, places, 0, 1) = {}
    BY <2>1 DEF VarsOf
  <2> QED BY <2>2, FS_EmptySet
<1>7. ~ InCallable(open)
  <2>1. DOMAIN open = {}
    BY <1>1
  <2> QED BY <2>1 DEF InCallable
<1>8. PathInv(places)'
  <2>1. ~ InCallable(open')
    BY <1>1, <1>7
  <2> QED BY <1>1, <1>3, <1>4, <1>5, <2>1 DEF PathInv
<1>9. StartInv(places)' /\ NumbersInv(places)'
  <2>1. num_globals' = Cardinality(VarsOf(program, places, 0, 1))
    BY <1>1, <1>2, <1>6
  <2> QED BY <1>1, <1>3, <2>1 DEF StartInv, NumbersInv
<1>10. Holds(program, places, table, Current(places), Declared(places))'
  <2>1. Current(places)' = 0
    BY <1>1 DEF Current, OwnPass
  <2>2. Declared(places)' = 1..(1 - 1)
    BY <1>1, <1>3 DEF Declared
  <2>3. 1..(1 - 1) = {} /\ DOMAIN table = {}
    BY <1>2
  <2>4. Holds(program, places, table, 0, {})
    BY <2>3 DEF Holds
  <2> QED BY <1>1, <2>1, <2>2, <2>3, <2>4
<1>11. GeneratedInv(places)'
  <2>1. Generated(places)' = {}
    BY <1>1 DEF Generated
  <2> QED BY <1>1, <1>2, <2>1 DEF GeneratedInv
<1>12. refs' = {} /\ phase' \notin {"parse", "failed"} /\ UNCHANGED program
  BY <1>1, <1>2
<1> QED
  BY <1>8, <1>9, <1>10, <1>11, <1>12, StepMeans

LEMMA InitMeans ==
    ASSUME Init
    PROVE  \E opens, places : SymbolsInv(opens) /\ MeansInv(opens, places)
<1>1. PICK opens : SymbolsInv(opens)
  BY InitHolds
<1> DEFINE places == [i \in {0} |-> <<>>]
<1>2. program = <<>> /\ phase = "parse" /\ table = <<>> /\ refs = {} /\ num_globals = 0
  BY DEF Init
<1>3. Len(program) = 0 /\ program \in Seq(Token) /\ 0..Len(program) = {0} /\ 1..Len(program) = {}
  BY <1>2, EmptySeq
<1>4. DOMAIN places = {0} /\ places[0] = <<>> /\ places[0] \in Seq(1..0) /\ Len(places[0]) = 0
  BY EmptySeq
<1> HIDE DEF places
<1>5. Kinds(program, places[0]) = <<>>
  <2>1. 1..0 = {}
    OBVIOUS
  <2>2. Kinds(program, places[0]) = [m \in {} |-> program[places[0][m]].op]
    BY <1>4, <2>1 DEF Kinds
  <2> QED BY <2>2
<1>6. WellNested(<<>>)
  BY EmptySeq DEF WellNested
<1>7. Tree(program, places)
  <2>1. Len(program) <= MaxTokens /\ DOMAIN places = 0..Len(program)
    BY <1>3, <1>4, BoundsAssumption
  <2>2. \A i \in 1..Len(program) :
           /\ places[i] = PlacesAfter(places[i - 1], i, program[i].op)
           /\ MayFollow(Kinds(program, places[i - 1]), program[i])
    BY <1>3
  <2>3. /\ places[0] \in Seq(1..0) /\ WellNested(Kinds(program, places[0]))
        /\ \A m \in 1..Len(places[0]) : places[places[0][m]] = SubSeq(places[0], 1, m)
    <3>1. 1..Len(places[0]) = {}
      BY <1>4
    <3> QED BY <1>4, <1>5, <1>6, <3>1
  <2>4. \A i \in 0..Len(program) :
           /\ places[i] \in Seq(1..i)
           /\ WellNested(Kinds(program, places[i]))
           /\ \A m \in 1..Len(places[i]) : places[places[i][m]] = SubSeq(places[i], 1, m)
    <3>1. \A i \in 0..Len(program) : i = 0
      BY <1>3
    <3> QED BY <2>3, <3>1
  <2> QED BY <1>3, <1>4, <2>1, <2>2, <2>4 DEF Tree
<1>8. \A i \in 0..Len(program) : opens[i] = Kinds(program, places[i])
  BY <1>1, <1>3, <1>5 DEF SymbolsInv, ProgramInv
<1>9. MeansInv(opens, places)
  BY <1>2, <1>7, <1>8 DEF MeansInv, RefersInv
<1> QED
  BY <1>1, <1>9

LEMMA StutterMeans ==
    ASSUME NEW opens, NEW places, MeansInv(opens, places), UNCHANGED vars
    PROVE  MeansInv(opens, places)'
<1> USE DEF vars
<1>1. /\ PathInv(places)' = PathInv(places) /\ NumbersInv(places)' = NumbersInv(places)
  BY DEF PathInv, NumbersInv, OwnPass, InCallable, InClass
<1>2. Current(places)' = Current(places)
  BY DEF Current, OwnPass, InClass
<1>3. StartInv(places)' = StartInv(places)
  BY <1>2 DEF StartInv
<1>4. Declared(places)' = Declared(places) /\ Generated(places)' = Generated(places)
  BY DEF Declared, Generated, InClass
<1>5. GeneratedInv(places)' = GeneratedInv(places)
  BY <1>4 DEF GeneratedInv
<1> QED
  BY <1>1, <1>2, <1>3, <1>4, <1>5 DEF MeansInv, RefersInv

-----------------------------------------------------------------------------
(* Every step keeps the invariant.                                          *)

Resolved == \E opens, places : SymbolsInv(opens) /\ MeansInv(opens, places)

LEMMA NextResolves ==
    ASSUME Resolved, [Next]_vars
    PROVE  Resolved'
<1>1. PICK opens, places : SymbolsInv(opens) /\ MeansInv(opens, places)
  BY DEF Resolved
<1>2. CASE ParseStep
  <2>1. CASE FinishParse
    BY <1>1, <2>1, FinishParseKeeps, FinishParseMeans DEF Resolved
  <2>2. ASSUME NEW t \in {u \in Token : u.op \in Ops /\ MayFollow(open, u)}, AddToken(t)
        PROVE  Resolved'
    BY <1>1, <2>2, AddTokenMeans DEF Resolved
  <2> QED BY <1>2, <2>1, <2>2 DEF ParseStep
<1>3. CASE Populate
  <2>1. SymbolsInv(opens)'
    BY <1>1, <1>3, SkipBodyKeeps, DeclareCallableKeeps, DeclareGlobalKeeps, DeclareLocalKeeps,
       PopulateOtherKeeps DEF Populate
  <2>2. MeansInv(opens, places)'
    BY <1>1, <1>3, SkipBodyMeans, DeclareCallableMeans, DeclareGlobalMeans, DeclareLocalMeans,
       PopulateOtherMeans DEF Populate
  <2> QED BY <2>1, <2>2 DEF Resolved
<1>4. CASE Generate
  <2>1. SymbolsInv(opens)'
    BY <1>1, <1>4, EnterFunctionKeeps, LocalsDoneKeeps, LeaveFunctionKeeps, EnterClassKeeps,
       UseNameKeeps, SetNameKeeps, BindVariableKeeps, ScopeStmtKeeps, SkipTokenKeeps DEF Generate
  <2>2. MeansInv(opens, places)'
    BY <1>1, <1>4, EnterFunctionMeans, LocalsDoneMeans, LeaveFunctionMeans, EnterClassMeans,
       UseNameMeans, SetNameMeans, BindVariableMeans, ScopeStmtMeans, SkipTokenMeans DEF Generate
  <2> QED BY <2>1, <2>2 DEF Resolved
<1>5. CASE NextPass
  BY <1>1, <1>5, NextPassKeeps, NextPassMeans DEF Resolved
<1>6. CASE UNCHANGED vars
  BY <1>1, <1>6, StutterKeeps, StutterMeans DEF Resolved
<1> QED
  BY <1>2, <1>3, <1>4, <1>5, <1>6 DEF Next

LEMMA ResolvedHolds == Spec => []Resolved
<1>1. Init => Resolved
  BY InitMeans DEF Resolved
<1> QED
  BY <1>1, NextResolves, PTL DEF Spec

-----------------------------------------------------------------------------
(* The tree is what the language says of the program.                       *)

\* The level after a token is the number of constructs around the place.
LEMMA LevelIs ==
    ASSUME NEW places, Tree(program, places)
    PROVE  \A i \in 0..Len(program) : Level[i] = Len(places[i])
<1> DEFINE delta(i) == CASE program[i].op = "end" -> -1
                         [] program[i].op \in (BlockOps \ {"else"}) \cup CallableOps -> 1
                         [] OTHER -> 0
           IsLevel(f) == f = [i \in 0..Len(program) |-> IF i = 0 THEN 0 ELSE f[i - 1] + delta(i)]
           g == [i \in 0..Len(program) |-> Len(places[i])]
<1>1. Level = CHOOSE f : IsLevel(f)
  BY DEF Level
<1>2. \A i \in 1..Len(program) : Len(places[i]) = Len(places[i - 1]) + delta(i)
  <2>1. ASSUME NEW i \in 1..Len(program)
        PROVE  Len(places[i]) = Len(places[i - 1]) + delta(i)
    <3>1. /\ i - 1 \in 0..Len(program) /\ program[i] \in Token
          /\ program[i].op \in {"use", "set", "var"} => places[i] = places[i - 1]
          /\ program[i].op = "end" => Len(places[i]) = Len(places[i - 1]) - 1
          /\ program[i].op = "else" => Len(places[i]) = Len(places[i - 1])
          /\ Opens(program[i].op) => Len(places[i]) = Len(places[i - 1]) + 1
      BY TreeStep
    <3>2. Len(places[i - 1]) \in Nat
      BY <3>1, TreeFacts
    <3>3. program[i].op \in {"use", "set", "var"} \cup BlockOps \cup CallableOps \cup {"end"}
      BY <3>1, TokenFields
    <3>4. CASE program[i].op = "end"
      <4>1. delta(i) = -1
        BY <3>4 DEF BlockOps, CallableOps
      <4> HIDE DEF delta
      <4> QED BY <3>1, <3>2, <3>4, <4>1
    <3>5. CASE Opens(program[i].op)
      <4>1. delta(i) = 1
        BY <3>5 DEF Opens, BlockOps, CallableOps
      <4> HIDE DEF delta
      <4> QED BY <3>1, <3>5, <4>1
    <3>6. CASE program[i].op \in {"use", "set", "var", "else"}
      <4>1. delta(i) = 0
        BY <3>6 DEF BlockOps, CallableOps
      <4> HIDE DEF delta
      <4> QED BY <3>1, <3>2, <3>6, <4>1
    <3> QED BY <3>3, <3>4, <3>5, <3>6 DEF Opens, BlockOps, CallableOps
  <2> QED BY <2>1
<1>3. Len(program) \in Nat /\ Len(places[0]) = 0
  <2>1. Len(program) \in Nat /\ places[0] = <<>>
    BY DEF Tree
  <2> QED BY <2>1, EmptySeq
<1> HIDE DEF delta
<1>4. IsLevel(g)
  <2>1. \A i \in 0..Len(program) :
           Len(places[i]) = IF i = 0 THEN 0 ELSE g[i - 1] + delta(i)
    <3>1. \A i \in 0..Len(program) : i = 0 \/ (i \in 1..Len(program) /\ i - 1 \in 0..Len(program))
      BY <1>3
    <3> QED BY <1>2, <1>3, <3>1
  <2> QED BY <2>1
<1>5. IsLevel(Level)
  <2> HIDE DEF g, IsLevel
  <2> QED BY <1>1, <1>4
<1>6. \A i \in 0..Len(program) : Level[i] = IF i = 0 THEN 0 ELSE Level[i - 1] + delta(i)
  <2>1. Level = [i \in 0..Len(program) |-> IF i = 0 THEN 0 ELSE Level[i - 1] + delta(i)]
    BY <1>5
  <2> QED BY ONLY <2>1
<1> DEFINE T == {i \in 0..Len(program) : Level[i] # Len(places[i])}
<1>7. SUFFICES ASSUME T # {} PROVE FALSE
  OBVIOUS
<1>8. PICK m \in T : \A y \in T : m <= y
  <2>1. T \subseteq Nat
    BY <1>3
  <2> HIDE DEF T
  <2> QED BY <1>7, <2>1, SmallestElement
<1>9. m # 0 /\ m \in 1..Len(program) /\ m - 1 \in 0..Len(program) /\ m - 1 < m
  BY <1>3, <1>6, <1>8
<1>10. m - 1 \notin T
  BY <1>3, <1>8, <1>9
<1>11. Level[m - 1] = Len(places[m - 1])
  BY <1>9, <1>10
<1>12. Level[m] = Level[m - 1] + delta(m)
  BY <1>6, <1>9
<1> QED
  BY <1>2, <1>8, <1>9, <1>11, <1>12

\* The construct j is around the place p.
Encloses(places, j, i) == \E n \in 1..Len(places[i]) : places[i][n] = j

\* The constructs around the next place are those before, and the token.
LEMMA AroundStep ==
    ASSUME NEW prog, NEW places, Tree(prog, places), NEW i \in 1..Len(prog), NEW j, j # i,
           Encloses(places, j, i)
    PROVE  Encloses(places, j, i - 1)
<1>1. PICK n \in 1..Len(places[i]) : places[i][n] = j
  BY DEF Encloses
<1>2. /\ i - 1 \in 0..Len(prog) /\ i \in 0..Len(prog) /\ prog[i] \in Token
      /\ prog[i].op \in {"use", "set", "var"} => places[i] = places[i - 1]
      /\ prog[i].op = "end" =>
            \A m \in 1..Len(places[i]) :
                m \in 1..Len(places[i - 1]) /\ places[i][m] = places[i - 1][m]
      /\ prog[i].op = "else" =>
            /\ places[i][Len(places[i])] = i
            /\ \A m \in 1..(Len(places[i]) - 1) :
                  m \in 1..Len(places[i - 1]) /\ places[i][m] = places[i - 1][m]
      /\ Opens(prog[i].op) =>
            /\ Len(places[i]) = Len(places[i - 1]) + 1
            /\ places[i][Len(places[i])] = i
            /\ \A m \in 1..Len(places[i - 1]) : places[i][m] = places[i - 1][m]
  BY ONLY Tree(prog, places), i \in 1..Len(prog), TreeStep
<1>3. Len(places[i]) \in Nat /\ Len(places[i - 1]) \in Nat
  BY <1>2, TreeFacts
<1>4. n = Len(places[i]) \/ n \in 1..(Len(places[i]) - 1)
  BY <1>3
<1>5. prog[i].op \in {"use", "set", "var"} \cup BlockOps \cup CallableOps \cup {"end"}
  BY <1>2, TokenFields
<1>6. CASE prog[i].op \in {"use", "set", "var"}
  BY <1>1, <1>2, <1>6 DEF Encloses
<1>7. CASE prog[i].op = "end"
  BY <1>1, <1>2, <1>7 DEF Encloses
<1>8. CASE prog[i].op = "else"
  BY <1>1, <1>2, <1>4, <1>8 DEF Encloses
<1>9. CASE Opens(prog[i].op)
  <2>1. n # Len(places[i])
    BY <1>1, <1>2, <1>9
  <2>2. n \in 1..Len(places[i - 1])
    BY <1>2, <1>3, <1>9, <2>1
  <2> QED BY <1>1, <1>2, <1>9, <2>2 DEF Encloses
<1> QED
  BY <1>5, <1>6, <1>7, <1>8, <1>9 DEF Opens, BlockOps, CallableOps

\* A construct that was closed does not come back.
LEMMA AroundGone ==
    ASSUME NEW prog, NEW places, Tree(prog, places), NEW j \in 1..Len(prog),
           NEW k \in j..Len(prog), ~ Encloses(places, j, k)
    PROVE  \A m \in k..Len(prog) : ~ Encloses(places, j, m)
<1> DEFINE T == {m \in k..Len(prog) : Encloses(places, j, m)}
<1>1. Len(prog) \in Nat /\ j \in Nat \ {0} /\ k \in Nat
  BY DEF Tree
<1>2. SUFFICES ASSUME T # {} PROVE FALSE
  OBVIOUS
<1>3. PICK m \in T : \A y \in T : m <= y
  <2>1. T \subseteq Nat
    BY <1>1
  <2> HIDE DEF T
  <2> QED BY <1>2, <2>1, SmallestElement
<1>4. m # k
  BY <1>3
<1>5. m \in 1..Len(prog) /\ m - 1 \in k..Len(prog) /\ m # j /\ m - 1 < m
  BY <1>1, <1>3, <1>4
<1>6. Encloses(places, j, m - 1)
  BY <1>3, <1>5, AroundStep
<1>7. m - 1 \in T
  BY <1>5, <1>6
<1> QED
  BY <1>1, <1>3, <1>5, <1>7

\* A token that opens a construct is the innermost of the next place.
LEMMA OwnPlace ==
    ASSUME NEW prog, NEW places, Tree(prog, places), NEW j \in 1..Len(prog),
           prog[j].op \in BlockOps \cup CallableOps
    PROVE  Len(places[j]) \in Nat \ {0} /\ places[j][Len(places[j])] = j
<1>1. /\ j \in 0..Len(prog) /\ j - 1 \in 0..Len(prog)
      /\ prog[j].op \in {"end", "else"} => places[j - 1] # <<>>
      /\ prog[j].op = "else" =>
            /\ Len(places[j]) = Len(places[j - 1])
            /\ places[j][Len(places[j])] = j
      /\ Opens(prog[j].op) =>
            /\ Len(places[j]) = Len(places[j - 1]) + 1
            /\ places[j][Len(places[j])] = j
  BY TreeStep
<1>2. /\ Len(places[j]) \in Nat /\ Len(places[j - 1]) \in Nat
      /\ places[j - 1] = <<>> <=> Len(places[j - 1]) = 0
  BY <1>1, TreeFacts
<1> QED
  BY <1>1, <1>2 DEF Opens, BlockOps, CallableOps

\* Where the level stays, so does the construct.
LEMMA EnclosesStep ==
    ASSUME NEW prog, NEW places, Tree(prog, places), NEW m \in 1..Len(prog),
           NEW L \in Nat \ {0}, L <= Len(places[m - 1]), L <= Len(places[m]),
           prog[m].op = "else" => L < Len(places[m])
    PROVE  places[m][L] = places[m - 1][L]
<1>1. m - 1 \in 0..Len(prog) /\ m \in 0..Len(prog) /\ prog[m] \in Token
  BY ONLY Tree(prog, places), m \in 1..Len(prog), TreeStep
<1>2. Len(places[m]) \in Nat /\ Len(places[m - 1]) \in Nat
  BY <1>1, TreeFacts
<1>3. /\ L \in 1..Len(places[m - 1]) /\ L \in 1..Len(places[m])
      /\ L < Len(places[m]) => L \in 1..(Len(places[m]) - 1)
  BY <1>2
<1>4. prog[m].op \in {"use", "set", "var"} \cup BlockOps \cup CallableOps \cup {"end"}
  BY <1>1, TokenFields
<1>5. CASE prog[m].op \in {"use", "set", "var"}
  <2>1. places[m] = places[m - 1]
    BY ONLY Tree(prog, places), m \in 1..Len(prog), <1>5, TreeStep
  <2> QED BY <2>1
<1>6. CASE prog[m].op = "end"
  <2>1. \A n \in 1..Len(places[m]) : places[m][n] = places[m - 1][n]
    BY ONLY Tree(prog, places), m \in 1..Len(prog), <1>6, TreeStep
  <2> QED BY <1>3, <2>1
<1>7. CASE prog[m].op = "else"
  <2>1. \A n \in 1..(Len(places[m]) - 1) : places[m][n] = places[m - 1][n]
    BY ONLY Tree(prog, places), m \in 1..Len(prog), <1>7, TreeStep
  <2> QED BY <1>3, <1>7, <2>1
<1>8. CASE Opens(prog[m].op)
  <2>1. \A n \in 1..Len(places[m - 1]) : places[m][n] = places[m - 1][n]
    BY ONLY Tree(prog, places), m \in 1..Len(prog), <1>8, TreeStep
  <2> QED BY <1>3, <2>1
<1> QED
  BY <1>4, <1>5, <1>6, <1>7, <1>8 DEF Opens, BlockOps, CallableOps

LEMMA SurroundsIs ==
    ASSUME NEW places, Tree(program, places), NEW i \in 1..Len(program), NEW j \in 1..Len(program)
    PROVE  Surrounds(j, i) <=> Encloses(places, j, i - 1)
<1> DEFINE L == Len(places[j])
<1>1. Len(program) \in Nat /\ i \in Nat \ {0} /\ j \in Nat \ {0} /\ i - 1 \in 0..Len(program)
      /\ j \in 0..Len(program)
  BY DEF Tree
<1>2. \A m \in 0..Len(program) : Level[m] = Len(places[m]) /\ Len(places[m]) \in Nat
  BY LevelIs, TreeFacts
<1>3. ASSUME Surrounds(j, i)
      PROVE  Encloses(places, j, i - 1)
  <2>1. /\ program[j].op \in BlockOps \cup CallableOps /\ j < i
        /\ \A k \in (j + 1)..(i - 1) :
              /\ Level[k] >= Level[j]
              /\ program[k].op = "else" => Level[k] > Level[j]
    BY <1>3 DEF Surrounds
  <2>2. L \in Nat \ {0} /\ places[j][L] = j
    BY <2>1, OwnPlace
  <2> DEFINE Stays(m) == L <= Len(places[m]) /\ places[m][L] = j
             T == {m \in j..(i - 1) : ~ Stays(m)}
  <2>3. T = {}
    <3>1. SUFFICES ASSUME T # {} PROVE FALSE
      OBVIOUS
    <3>2. PICK m \in T : \A y \in T : m <= y
      <4>1. T \subseteq Nat
        BY <1>1
      <4> HIDE DEF T
      <4> QED BY <3>1, <4>1, SmallestElement
    <3>3. m # j
      <4>1. Stays(j)
        BY <1>1, <1>2, <2>2
      <4> HIDE DEF Stays
      <4> QED BY <3>2, <4>1
    <3>4. m \in (j + 1)..(i - 1) /\ m - 1 \in j..(i - 1) /\ m \in 1..Len(program)
          /\ m - 1 < m /\ m \in 0..Len(program)
      BY <1>1, <3>2, <3>3
    <3>5. Stays(m - 1)
      <4> HIDE DEF Stays
      <4>1. m - 1 \notin T
        BY <1>1, <3>2, <3>4
      <4> QED BY <3>4, <4>1
    <3>6. L <= Len(places[m]) /\ (program[m].op = "else" => L < Len(places[m]))
      <4>1. Level[m] = Len(places[m]) /\ Level[j] = L
        BY <1>1, <1>2, <3>4
      <4>2. Level[m] >= Level[j] /\ (program[m].op = "else" => Level[m] > Level[j])
        BY <2>1, <3>4
      <4> QED BY <4>1, <4>2
    <3>7. L <= Len(places[m - 1]) /\ places[m - 1][L] = j
      BY <3>5
    <3>8. places[m][L] = places[m - 1][L]
      <4> HIDE DEF L
      <4> QED BY ONLY Tree(program, places), <2>2, <3>4, <3>6, <3>7, EnclosesStep
    <3>9. Stays(m)
      BY <3>6, <3>7, <3>8
    <3> HIDE DEF Stays
    <3> QED BY <3>2, <3>9
  <2>4. Stays(i - 1)
    <3> HIDE DEF Stays
    <3>1. i - 1 \in j..(i - 1)
      BY <1>1, <2>1
    <3> QED BY <2>3, <3>1
  <2>5. L \in 1..Len(places[i - 1])
    BY <1>1, <1>2, <2>2, <2>4
  <2> QED BY <2>4, <2>5 DEF Encloses
<1>4. ASSUME Encloses(places, j, i - 1)
      PROVE  Surrounds(j, i)
  <2>1. PICK n \in 1..Len(places[i - 1]) : places[i - 1][n] = j
    BY <1>4 DEF Encloses
  <2>2. j \in 1..(i - 1) /\ program[j].op \in BlockOps \cup CallableOps
    BY <1>1, <2>1, TreeFacts, TreeKinds
  <2>3. ASSUME NEW k \in (j + 1)..(i - 1)
        PROVE  L <= Len(places[k]) /\ (program[k].op = "else" => L < Len(places[k]))
    <3>1. k \in j..Len(program) /\ k \in 0..Len(program) /\ i - 1 \in k..Len(program)
          /\ k \in 1..Len(program) /\ k # j
      BY <1>1, <2>2
    <3>2. Encloses(places, j, k)
      BY <1>4, <3>1, AroundGone
    <3>3. PICK m \in 1..Len(places[k]) : places[k][m] = j
      BY <3>2 DEF Encloses
    <3>4. m = L
      BY <3>1, <3>3, TreePrefix
    <3>5. Len(places[k]) \in Nat
      BY <1>2, <3>1
    <3>6. program[k].op = "else" => m # Len(places[k])
      BY <3>1, <3>3, TreeStep
    <3> QED BY <3>3, <3>4, <3>5, <3>6
  <2>4. \A k \in (j + 1)..(i - 1) :
           /\ Level[k] >= Level[j]
           /\ program[k].op = "else" => Level[k] > Level[j]
    <3>1. ASSUME NEW k \in (j + 1)..(i - 1)
          PROVE  /\ Level[k] >= Level[j]
                 /\ program[k].op = "else" => Level[k] > Level[j]
      <4>1. k \in 0..Len(program)
        BY <1>1, <2>2
      <4>2. Level[k] = Len(places[k]) /\ Level[j] = L /\ Len(places[k]) \in Nat /\ L \in Nat
        BY <1>1, <1>2, <4>1
      <4>3. L <= Len(places[k]) /\ (program[k].op = "else" => L < Len(places[k]))
        BY <2>3
      <4> QED BY <4>2, <4>3
    <3> QED BY <3>1
  <2>5. j < i
    BY <1>1, <2>2
  <2> QED BY <2>2, <2>4, <2>5 DEF Surrounds
<1> QED
  BY <1>3, <1>4

LEMMA AroundIs ==
    ASSUME NEW places, Tree(program, places), NEW i \in 1..Len(program)
    PROVE  /\ i - 1 \in 0..Len(program) /\ Around(i) \subseteq 0..Len(program)
           /\ \A j : j \in Around(i) <=> j = 0 \/ Encloses(places, j, i - 1)
           /\ Max(Around(i)) = Inner(places[i - 1])
           /\ Around(i) = {0} <=> places[i - 1] = <<>>
<1> DEFINE p == places[i - 1]
<1>1. Len(program) \in Nat /\ i \in Nat \ {0} /\ i - 1 \in 0..Len(program) /\ DOMAIN program = 1..Len(program)
  BY DEF Tree
<1>2. /\ Len(p) \in Nat /\ (p = <<>> <=> Len(p) = 0)
      /\ \A n \in 1..Len(p) : p[n] \in 1..Len(program)
  BY <1>1, TreeFacts
<1>3. \A j \in 1..Len(program) : Surrounds(j, i) <=> Encloses(places, j, i - 1)
  BY SurroundsIs
<1>4. \A j : Encloses(places, j, i - 1) => j \in 1..Len(program)
  BY <1>2 DEF Encloses
<1>5. Around(i) = {0} \cup {j \in 1..Len(program) : Encloses(places, j, i - 1)}
  BY <1>1, <1>3 DEF Around, Positions
<1>6. Around(i) \subseteq 0..Len(program)
  BY <1>1, <1>5
<1>7. \A j : j \in Around(i) <=> j = 0 \/ Encloses(places, j, i - 1)
  BY <1>4, <1>5
<1>8. Inner(p) \in Around(i) /\ \A j \in Around(i) : j <= Inner(p)
  <2>1. CASE p = <<>>
    <3>1. \A j : ~ Encloses(places, j, i - 1)
      BY <1>2, <2>1 DEF Encloses
    <3> QED BY <1>7, <2>1, <3>1 DEF Inner
  <2>2. CASE p # <<>>
    <3>1. Len(p) \in 1..Len(p) /\ Inner(p) = p[Len(p)] /\ Inner(p) \in 1..Len(program)
      BY <1>2, <2>2 DEF Inner
    <3>2. Inner(p) \in Around(i)
      BY <1>7, <3>1 DEF Encloses
    <3>3. \A m \in 1..Len(p) : p[m] <= p[Len(p)]
      BY <1>1, <3>1, TreePrefix, SMTT(30)
    <3>4. 0 <= Inner(p)
      BY <3>1
    <3> QED BY <1>7, <3>1, <3>2, <3>3, <3>4 DEF Encloses
  <2> QED BY <2>1, <2>2
<1>9. Max(Around(i)) = Inner(p)
  <2>1. Around(i) # {}
    BY <1>8
  <2>2. Max(Around(i)) \in Around(i) /\ \A m \in Around(i) : m <= Max(Around(i))
    BY <1>1, <1>6, <2>1, MaxIn
  <2>3. Max(Around(i)) \in Int /\ Inner(p) \in Int
    BY <1>1, <1>6, <1>8, <2>2
  <2>4. Inner(p) <= Max(Around(i)) /\ Max(Around(i)) <= Inner(p)
    BY <1>8, <2>2
  <2> QED BY <2>3, <2>4
<1>10. Around(i) = {0} <=> p = <<>>
  <2>1. CASE p = <<>>
    <3>1. \A j : ~ Encloses(places, j, i - 1)
      BY <1>2, <2>1 DEF Encloses
    <3> QED BY <1>7, <2>1, <3>1
  <2>2. CASE p # <<>>
    <3>1. Len(p) \in 1..Len(p) /\ p[Len(p)] \in 1..Len(program)
      BY <1>2, <2>2
    <3>2. p[Len(p)] \in Around(i) /\ p[Len(p)] # 0
      BY <1>7, <3>1 DEF Encloses
    <3> QED BY <2>2, <3>2
  <2> QED BY <2>1, <2>2
<1> QED
  BY <1>1, <1>6, <1>7, <1>9, <1>10

LEMMA DeclarationsAre ==
    ASSUME NEW places, Tree(program, places), NEW j \in 0..Len(program), NEW name
    PROVE  Declarations(j, name) = Declarers(program, places, j, name)
<1>1. Len(program) \in Nat /\ DOMAIN program = 1..Len(program)
  BY DEF Tree
<1>2. \A i \in 1..Len(program) :
          /\ Max(Around(i)) = Inner(places[i - 1])
          /\ Around(i) = {0} <=> places[i - 1] = <<>>
  BY AroundIs
<1>3. j # 0 => j \in 1..Len(program)
  BY <1>1
<1>4. Declarations(j, name) =
         {i \in 1..Len(program) :
             \/ program[i].op = "var" /\ program[i].name = name /\ Max(Around(i)) = j
             \/ i = j /\ program[i].op = "for" /\ program[i].name = name
             \/ i = j /\ program[i].op = "function" /\ Contains(program[i].params, name)
             \/ /\ j = 0 /\ program[i].op \in CallableOps /\ program[i].name = name
                /\ Around(i) = {0}}
  <2>1. CASE j = 0
    <3>1. Declarations(j, name) =
         {i \in Positions : program[i].op = "var" /\ program[i].name = name /\ Max(Around(i)) = j}
         \cup {i \in Positions : /\ program[i].op \in CallableOps
                                 /\ program[i].name = name
                                 /\ Around(i) = {0}}
      BY <2>1 DEF Declarations
    <3>2. \A i \in 1..Len(program) : i # 0
      BY <1>1
    <3> QED BY <1>1, <2>1, <3>1, <3>2 DEF Positions
  <2>2. CASE j # 0
    <3>1. Declarations(j, name) =
         {i \in Positions : program[i].op = "var" /\ program[i].name = name /\ Max(Around(i)) = j}
         \cup {i \in {j} : program[i].op = "for" /\ program[i].name = name}
         \cup {i \in {j} : program[i].op = "function" /\ Contains(program[i].params, name)}
      BY <2>2 DEF Declarations
    <3> QED BY <1>1, <1>3, <2>2, <3>1 DEF Positions
  <2> QED BY <2>1, <2>2
<1>5. \A i \in 1..Len(program) :
         Declares(program, places, j, name, i) <=>
             \/ program[i].op = "var" /\ program[i].name = name /\ Max(Around(i)) = j
             \/ i = j /\ program[i].op = "for" /\ program[i].name = name
             \/ i = j /\ program[i].op = "function" /\ Contains(program[i].params, name)
             \/ /\ j = 0 /\ program[i].op \in CallableOps /\ program[i].name = name
                /\ Around(i) = {0}
  BY <1>2 DEF Declares
<1> QED
  BY <1>4, <1>5 DEF Declarers

\* The innermost construct that declares a name is the one found.
LEMMA DeclaringIs ==
    ASSUME NEW places, Tree(program, places), NEW i \in 1..Len(program), NEW name \in Names
    PROVE  /\ Declaring(i, name) = {} <=> Finding(program, places, places[i - 1], name) = {}
           /\ Finding(program, places, places[i - 1], name) # {} =>
                 Max(Declaring(i, name)) = Found(program, places, places[i - 1], name)
<1> DEFINE p == places[i - 1]
           F == Finding(program, places, p, name)
           D == Declaring(i, name)
           at0(n) == IF n = 0 THEN 0 ELSE p[n]
<1>1. /\ i - 1 \in 0..Len(program) /\ Around(i) \subseteq 0..Len(program)
      /\ \A j : j \in Around(i) <=> j = 0 \/ Encloses(places, j, i - 1)
  BY AroundIs
<1>2. Len(p) \in Nat /\ Len(program) \in Nat /\ \A n \in 1..Len(p) : p[n] \in 1..Len(program)
  BY <1>1, TreeFacts
<1>3. \A j : j \in Around(i) <=> \E n \in 0..Len(p) : j = at0(n)
  <2>1. \A n \in 0..Len(p) : n = 0 \/ n \in 1..Len(p)
    BY <1>2
  <2>2. \A n \in 1..Len(p) : n \in 0..Len(p) /\ n # 0
    BY <1>2
  <2>3. 0 \in 0..Len(p)
    BY <1>2
  <2> QED BY <1>1, <2>1, <2>2, <2>3 DEF Encloses
<1>4. \A j : j \in D <=> \E n \in F : j = at0(n)
  <2>1. \A j \in 0..Len(program) : Declarations(j, name) = Declarers(program, places, j, name)
    BY DeclarationsAre
  <2>2. \A j : j \in D <=> j \in Around(i) /\ Declarers(program, places, j, name) # {}
    BY <1>1, <2>1 DEF Declaring
  <2>3. \A n : n \in F <=> n \in 0..Len(p) /\ Declarers(program, places, at0(n), name) # {}
    BY DEF Finding
  <2> HIDE DEF D, F, at0
  <2> QED BY <1>3, <2>2, <2>3
<1>5. F \subseteq 0..Len(p) /\ D \subseteq 0..Len(program)
  BY <1>1 DEF Finding, Declaring
<1>6. \A m, n \in 0..Len(p) : m <= n => at0(m) <= at0(n)
  <2>1. ASSUME NEW m \in 0..Len(p), NEW n \in 0..Len(p), m <= n
        PROVE  at0(m) <= at0(n)
    <3>1. CASE n = 0
      <4>1. m = 0
        BY <1>2, <2>1, <3>1
      <4> QED BY <3>1, <4>1
    <3>2. CASE n # 0 /\ m = 0
      <4>1. n \in 1..Len(p)
        BY <1>2, <3>2
      <4> QED BY <1>2, <3>2, <4>1
    <3>3. CASE n # 0 /\ m # 0
      <4>1. n \in 1..Len(p) /\ m \in 1..n
        BY <1>2, <2>1, <3>3
      <4>2. p[m] <= p[n]
        BY <1>1, <4>1, TreePrefix
      <4> QED BY <3>3, <4>2
    <3> QED BY <3>1, <3>2, <3>3
  <2> QED BY <2>1
<1>7. Found(program, places, p, name) = at0(Max(F))
  BY DEF Found
<1> HIDE DEF D, F, at0
<1>8. D = {} <=> F = {}
  BY <1>4
<1>9. ASSUME F # {}
      PROVE  Max(D) = at0(Max(F))
  <2>1. Max(F) \in F /\ \A m \in F : m <= Max(F)
    BY <1>2, <1>5, <1>9, MaxIn
  <2>2. Max(D) \in D /\ \A m \in D : m <= Max(D)
    BY <1>2, <1>5, <1>8, <1>9, MaxIn
  <2>3. at0(Max(F)) \in D
    BY <1>4, <2>1
  <2>4. ASSUME NEW j \in D
        PROVE  j <= at0(Max(F))
    <3>1. PICK n \in F : j = at0(n)
      BY <1>4
    <3>2. n \in 0..Len(p) /\ Max(F) \in 0..Len(p) /\ n <= Max(F)
      BY <1>5, <2>1
    <3> QED BY <1>6, <3>1, <3>2
  <2>5. Max(D) \in Int /\ at0(Max(F)) \in Int
    <3>1. Max(D) \in 0..Len(program) /\ at0(Max(F)) \in 0..Len(program)
      BY <1>5, <2>2, <2>3
    <3> QED BY <3>1
  <2>6. Max(D) <= at0(Max(F)) /\ at0(Max(F)) <= Max(D)
    BY <2>2, <2>3, <2>4
  <2> QED BY <2>5, <2>6
<1> QED
  BY <1>7, <1>8, <1>9 DEF D, F

LEMMA FunctionIs ==
    ASSUME NEW places, Tree(program, places), NEW i \in 1..Len(program)
    PROVE  FunctionOf(i) = Fun(program, places[i - 1])
<1> DEFINE p == places[i - 1]
           T == {0} \cup {j \in Around(i) \ {0} : program[j].op = "function"}
<1>1. /\ i - 1 \in 0..Len(program) /\ Around(i) \subseteq 0..Len(program)
      /\ \A j : j \in Around(i) <=> j = 0 \/ Encloses(places, j, i - 1)
  BY AroundIs
<1>2. /\ \A n \in 1..Len(p) : program[p[n]].op = "function" => Fun(program, p) = p[n]
      /\ Fun(program, p) # 0 =>
            \E n \in 1..Len(p) : p[n] = Fun(program, p) /\ program[p[n]].op = "function"
  BY <1>1, FunFacts, SMTT(30)
<1>3. Len(program) \in Nat /\ \A n \in 1..Len(p) : p[n] \in 1..Len(program)
  BY <1>1, TreeFacts
<1>4. T \subseteq 0..Len(program) /\ T # {}
  BY <1>1, <1>3
<1>5. \A j : j \in T <=> j = 0 \/ j = Fun(program, p)
  <2>1. ASSUME NEW j \in T, j # 0
        PROVE  j = Fun(program, p)
    <3>1. Encloses(places, j, i - 1) /\ program[j].op = "function"
      BY <1>1, <2>1
    <3> QED BY <1>2, <3>1 DEF Encloses
  <2>2. ASSUME Fun(program, p) # 0
        PROVE  Fun(program, p) \in T
    <3>1. PICK n \in 1..Len(p) : p[n] = Fun(program, p) /\ program[p[n]].op = "function"
      BY <1>2, <2>2
    <3>2. Encloses(places, p[n], i - 1)
      BY <3>1 DEF Encloses
    <3> QED BY <1>1, <2>2, <3>1, <3>2
  <2> QED BY <2>1, <2>2
<1>6. FunctionOf(i) = Max(T)
  BY DEF FunctionOf
<1> HIDE DEF T
<1>7. Max(T) \in T /\ \A m \in T : m <= Max(T)
  BY <1>3, <1>4, MaxIn
<1>8. Fun(program, p) \in 0..Len(program)
  BY <1>4, <1>5
<1>9. Fun(program, p) <= Max(T) /\ Max(T) \in {0, Fun(program, p)}
  BY <1>5, <1>7
<1> QED
  BY <1>3, <1>6, <1>8, <1>9

LEMMA VariableEntryIs ==
    ASSUME NEW places, Tree(program, places), NEW i \in 1..Len(program)
    PROVE  VariableEntry(i) = VarEntry(program, places, i)
<1>1. Len(program) \in Nat
  BY DEF Tree
<1>2. \A k \in 1..Len(program) : FunctionOf(k) = Fun(program, places[k - 1])
  BY FunctionIs
<1> DEFINE f == Fun(program, places[i - 1])
<1>3. {k \in 1..(i - 1) : IsVariable(k) /\ FunctionOf(k) = f} = VarsOf(program, places, f, i)
  <2>1. \A k \in 1..(i - 1) : k \in 1..Len(program)
    BY <1>1
  <2>2. \A k \in 1..(i - 1) : FunctionOf(k) = Fun(program, places[k - 1])
    BY <1>2, <2>1
  <2> HIDE DEF f
  <2> QED BY <2>2 DEF VarsOf, IsVariable, IsVar
<1>4. FunctionOf(i) = f
  BY <1>2
<1> HIDE DEF f
<1> QED
  BY <1>3, <1>4 DEF VariableEntry, VarEntry, First, f

\* What a name means is what the table says of the declaration that is found.
LEMMA MeaningIs ==
    ASSUME NEW places, Tree(program, places), NEW i \in 1..Len(program),
           program[i].op \in {"use", "set", "var", "for"},
           program[i].op \in {"use", "set"} =>
               Finding(program, places, places[i - 1], program[i].name) # {}
    PROVE  Meaning(i, program[i].name) = MeaningAt(program, places, i)
<1> DEFINE name == program[i].name
           q == Looked(program, places, i)
           j == Found(program, places, q, name)
           D == Declarers(program, places, j, name)
           d == CHOOSE k \in D : TRUE
<1>1. /\ i \in 0..Len(program) /\ i - 1 \in 0..Len(program) /\ program[i] \in Token
      /\ program[i].op \in {"use", "set", "var"} => places[i] = places[i - 1]
      /\ Opens(program[i].op) => Len(places[i]) = Len(places[i - 1]) + 1
                                 /\ places[i][Len(places[i])] = i
  BY TreeStep
<1>2. name \in Names /\ Len(program) \in Nat /\ i \in Nat \ {0}
  <2>1. name \in Names
    BY <1>1, TokenFields
  <2> QED BY <1>1, <2>1 DEF Tree
<1>3. q = places[i]
  BY <1>1 DEF Looked
<1>4. Finding(program, places, q, name) # {}
  <2>1. CASE program[i].op \in {"use", "set"}
    BY <1>1, <1>3, <2>1
  <2>2. CASE IsVar(program, i)
    <3>1. Inner(places[i]) = DeclaredIn(program, places, i)
      <4>1. CASE program[i].op = "var"
        BY <1>1, <4>1 DEF DeclaredIn
      <4>2. CASE program[i].op = "for"
        <5>1. Len(places[i]) \in Nat \ {0} /\ places[i][Len(places[i])] = i
          BY <4>2, OwnPlace DEF BlockOps
        <5>2. places[i] # <<>>
          BY <5>1, EmptySeq
        <5> QED BY <4>2, <5>1, <5>2 DEF DeclaredIn, Inner
      <4> QED BY <2>2, <4>1, <4>2 DEF IsVar
    <3>2. Declares(program, places, Inner(places[i]), name, i)
      <4>1. DeclaredIn(program, places, i) \in 0..Len(program)
        BY <2>2, VarDeclares
      <4> QED BY <1>2, <2>2, <3>1, <4>1, VarDeclares
    <3> QED BY <1>1, <1>2, <1>3, <3>2, InnerFinds
  <2> QED BY <2>1, <2>2 DEF IsVar
<1>5. j \in 0..Len(program) /\ D # {}
  <2> HIDE DEF name, q
  <2>1. Finding(program, places, places[i], name) # {}
    BY <1>3, <1>4
  <2>2. i \in 0..Len(program)
    BY <1>1
  <2>3. \A k \in 0..Len(program) : \A nm \in Names :
            Finding(program, places, places[k], nm) # {} =>
                /\ Found(program, places, places[k], nm) \in 0..Len(program)
                /\ Declarers(program, places, Found(program, places, places[k], nm), nm) # {}
                /\ \E n \in 0..Len(places[k]) :
                      Found(program, places, places[k], nm) = IF n = 0 THEN 0 ELSE places[k][n]
    BY ONLY Tree(program, places), FoundFacts, SMTT(30)
  <2>4. /\ Found(program, places, places[i], name) \in 0..Len(program)
        /\ Declarers(program, places, Found(program, places, places[i], name), name) # {}
    BY <1>2, <2>1, <2>2, <2>3
  <2> QED BY <1>3, <2>4
<1>6. j = IF program[i].op = "for" THEN i ELSE Max(Declaring(i, name))
  <2>1. CASE program[i].op # "for"
    <3>1. Finding(program, places, places[i - 1], name) # {} /\ q = places[i - 1]
      BY <1>4, <2>1 DEF Looked
    <3>2. Max(Declaring(i, name)) = Found(program, places, places[i - 1], name)
      BY <1>2, <3>1, DeclaringIs
    <3> QED BY <2>1, <3>1, <3>2
  <2>2. CASE program[i].op = "for"
    <3> DEFINE F == Finding(program, places, q, name)
    <3>1. Len(q) \in Nat \ {0} /\ q[Len(q)] = i
      BY <1>3, <2>2, OwnPlace DEF BlockOps
    <3>2. Declares(program, places, i, name, i)
      BY <2>2 DEF Declares
    <3>3. Declarers(program, places, i, name) # {}
      BY <3>2 DEF Declarers
    <3>4. Len(q) \in F /\ F \subseteq 0..Len(q)
      <4>1. Len(q) \in 0..Len(q) /\ Len(q) # 0
        BY <3>1
      <4> HIDE DEF q
      <4> QED BY <3>1, <3>3, <4>1 DEF Finding
    <3>5. j = IF Max(F) = 0 THEN 0 ELSE q[Max(F)]
      BY DEF Found
    <3> HIDE DEF F, q, j
    <3>6. Max(F) \in F /\ \A m \in F : m <= Max(F)
      BY <3>1, <3>4, MaxIn
    <3>7. Max(F) = Len(q)
      <4>1. Max(F) \in 0..Len(q) /\ Len(q) <= Max(F)
        BY <3>4, <3>6
      <4> QED BY <3>1, <4>1
    <3> QED BY <2>2, <3>1, <3>5, <3>7
  <2> QED BY <2>1, <2>2
<1>7. Declarations(j, name) = D
  BY <1>5, DeclarationsAre
<1>8. d \in 1..Len(program)
  <2> HIDE DEF j, name
  <2>1. d \in D
    BY <1>5
  <2> QED BY <2>1 DEF Declarers
<1>9. VariableEntry(d) = VarEntry(program, places, d)
  <2> HIDE DEF d
  <2> QED BY <1>8, VariableEntryIs
<1>10. MeaningAt(program, places, i) = EntryFor(program, places, j, name, d)
  BY DEF MeaningAt
<1> DEFINE Is(jj, dd) ==
             IF IsVariable(dd) THEN VariableEntry(dd)
             ELSE IF jj = 0 THEN [type |-> program[dd].op, index |-> 0]
             ELSE [type |-> "param",
                   index |-> (CHOOSE n \in DOMAIN program[dd].params : program[dd].params[n] = name) - 1]
           Of(jj) == Is(jj, CHOOSE k \in Declarations(jj, name) : TRUE)
<1>11. Meaning(i, name) = Is(j, d)
  <2> HIDE DEF j
  <2>1. Meaning(i, name) = Of(IF program[i].op = "for" THEN i ELSE Max(Declaring(i, name)))
    <3> HIDE DEF name
    <3> QED BY DEF Meaning
  <2>2. Of(j) = Is(j, d)
    <3>1. Of(j) = Is(j, CHOOSE k \in Declarations(j, name) : TRUE)
      OBVIOUS
    <3> HIDE DEF Is, D
    <3>2. (CHOOSE k \in Declarations(j, name) : TRUE) = d
      BY <1>7
    <3> HIDE DEF Of, d
    <3> QED BY <3>1, <3>2
  <2> HIDE DEF Of, Is, d
  <2> QED BY <1>6, <2>1, <2>2
<1> HIDE DEF d, j, D, q, name
<1>12. Meaning(i, name) = MeaningAt(program, places, i)
  BY <1>9, <1>10, <1>11 DEF EntryFor, IsVariable, IsVar
<1> QED
  BY <1>12 DEF name

LEMMA AtMostOne ==
    ASSUME NEW n \in Nat, NEW S, S \subseteq 1..n
    PROVE  Cardinality(S) <= 1 <=> \A c, d \in S : c = d
<1>1. IsFiniteSet(1..n)
  BY FS_Interval
<1>2. IsFiniteSet(S) /\ Cardinality(S) \in Nat
  <2>1. S \in SUBSET (1..n)
    OBVIOUS
  <2>2. IsFiniteSet(S)
    BY <1>1, <2>1, FS_Subset
  <2> QED BY <2>2, FS_CardinalityType
<1>3. ASSUME NEW c \in S, NEW d \in S, c # d
      PROVE  Cardinality(S) >= 2
  <2>1. IsFiniteSet({c}) /\ Cardinality({c}) = 1
    BY FS_Singleton
  <2>2. Cardinality({c} \cup {d}) = 2
    <3>1. d \notin {c}
      BY <1>3
    <3>2. Cardinality({c} \cup {d}) = IF d \in {c} THEN Cardinality({c}) ELSE Cardinality({c}) + 1
      BY <2>1, FS_AddElement
    <3> QED BY <2>1, <3>1, <3>2
  <2>3. {c} \cup {d} \in SUBSET S
    OBVIOUS
  <2>4. Cardinality({c} \cup {d}) <= Cardinality(S)
    BY <1>2, <2>3, FS_Subset
  <2> QED BY <1>2, <2>2, <2>4
<1>4. ASSUME \A c, d \in S : c = d
      PROVE  Cardinality(S) <= 1
  <2>1. CASE S = {}
    BY <2>1, FS_EmptySet
  <2>2. CASE S # {}
    <3>1. PICK c \in S : TRUE
      BY <2>2
    <3>2. S = {c}
      BY <1>4, <3>1
    <3>3. Cardinality({c}) = 1
      BY FS_Singleton
    <3> QED BY <3>2, <3>3
  <2> QED BY <2>1, <2>2
<1> QED
  BY <1>2, <1>3, <1>4

\* A construct declares every name at most once.
LEMMA UniqueIs ==
    ASSUME NEW places, Tree(program, places), NEW j \in 0..Len(program)
    PROVE  Unique(program, places, j) <=> \A name \in Names : Cardinality(Declarations(j, name)) <= 1
<1>1. Len(program) \in Nat
  BY DEF Tree
<1>2. \A name : Cardinality(Declarations(j, name)) <= 1 <=>
                \A c, d \in Declarers(program, places, j, name) : c = d
  <2>1. ASSUME NEW name
        PROVE  Cardinality(Declarations(j, name)) <= 1 <=>
               \A c, d \in Declarers(program, places, j, name) : c = d
    <3>1. Declarations(j, name) = Declarers(program, places, j, name)
      BY DeclarationsAre
    <3>2. Declarers(program, places, j, name) \subseteq 1..Len(program)
      BY DEF Declarers
    <3>3. Cardinality(Declarers(program, places, j, name)) <= 1 <=>
          \A c, d \in Declarers(program, places, j, name) : c = d
      BY <1>1, <3>2, AtMostOne
    <3> QED BY <3>1, <3>3
  <2> QED BY <2>1
<1>3. Unique(program, places, j) <=>
         \A name \in Names : \A c, d \in Declarers(program, places, j, name) : c = d
  BY DEF Unique, Declarers
<1> QED
  BY <1>2, <1>3

\* A token is as the language wants it.
Acceptable(i) ==
    /\ program[i].op = "function" =>
          /\ IsInjective(program[i].params)
          /\ program[i].name = "string" => program[i].params = <<>>
    /\ program[i].op \in {"use", "set"} => Declaring(i, program[i].name) # {}
    /\ program[i].op = "set" => Meaning(i, program[i].name).type \notin CallableOps

LEMMA AcceptableIs ==
    ASSUME NEW places, Tree(program, places), NEW i \in 1..Len(program)
    PROVE  Acceptable(i) <=> GoodToken(program, places, i)
<1>1. program[i].name \in Names \/ program[i].op \notin {"use", "set"}
  <2>1. program[i] \in Token
    BY TreeStep
  <2> QED BY <2>1, TokenFields
<1>2. CASE program[i].op \in {"use", "set"}
  <2>1. program[i].name \in Names
    BY <1>1, <1>2
  <2>2. Declaring(i, program[i].name) = {} <=>
        Finding(program, places, places[i - 1], program[i].name) = {}
    BY <2>1, DeclaringIs
  <2>3. Finding(program, places, places[i - 1], program[i].name) # {} =>
        Meaning(i, program[i].name) = MeaningAt(program, places, i)
    BY <1>2, MeaningIs
  <2> QED BY <1>2, <2>2, <2>3 DEF Acceptable, GoodToken
<1>3. CASE program[i].op \notin {"use", "set"}
  BY <1>3 DEF Acceptable, GoodToken
<1> QED
  BY <1>2, <1>3

\* What the language accepts, in terms of the tree.
LEMMA WellScopedIs ==
    ASSUME NEW places, Tree(program, places)
    PROVE  WellScoped <=> GoodProgram(program, places)
<1>1. Len(program) \in Nat /\ Positions = 1..Len(program)
  BY DEF Tree, Positions
<1>2. {0} \cup Positions = 0..Len(program)
  BY <1>1
<1>3. WellScoped <=>
         /\ \A j \in 0..Len(program) : \A name \in Names : Cardinality(Declarations(j, name)) <= 1
         /\ \A i \in 1..Len(program) : Acceptable(i)
  BY <1>1, <1>2 DEF WellScoped, Acceptable
<1>4. \A j \in 0..Len(program) :
         Unique(program, places, j) <=> \A name \in Names : Cardinality(Declarations(j, name)) <= 1
  BY UniqueIs
<1>5. \A i \in 1..Len(program) : Acceptable(i) <=> GoodToken(program, places, i)
  BY AcceptableIs
<1> QED
  BY <1>3, <1>4, <1>5 DEF GoodProgram

\* A program that was compiled is one the language accepts.
LEMMA DoneIsGood ==
    ASSUME NEW opens, NEW places, MeansInv(opens, places), phase = "done"
    PROVE  /\ GoodProgram(program, places)
           /\ {r.at : r \in refs} =
                 {i \in 1..Len(program) : program[i].op \in {"use", "set", "var", "for"}}
<1>1. /\ Tree(program, places)
      /\ Holds(program, places, table, Current(places), Declared(places))
      /\ GeneratedInv(places)
  BY DEF MeansInv
<1>2. Current(places) = 0 /\ Declared(places) = 1..Len(program)
  BY DEF Current, OwnPass, Declared
<1>3. Generated(places) = 1..Len(program)
  BY DEF Generated
<1>4. Len(program) \in Nat /\ places[0] = <<>>
  BY <1>1 DEF Tree
<1>5. \A i \in 1..Len(program) :
         /\ GoodToken(program, places, i)
         /\ program[i].op = "function" =>
               \A j \in 1..Len(program) : Fun(program, places[j]) = i => Unique(program, places, j)
  BY <1>1, <1>3 DEF GeneratedInv
<1>6. ASSUME NEW j \in 0..Len(program)
      PROVE  Unique(program, places, j)
  <2>1. CASE ~ Within(program, places[j])
    <3>1. Live(program, places, 0, j)
      BY <2>1 DEF Live
    <3> QED BY <1>1, <1>2, <3>1 DEF Holds, Unique
  <2>2. CASE Within(program, places[j]) /\ Fun(program, places[j]) # 0
    <3>1. j # 0
      BY <1>4, <2>2, EmptySeq DEF Within
    <3>2. Fun(program, places[j]) \in 1..j /\ program[Fun(program, places[j])].op = "function"
      BY <1>1, <2>2, FunFacts
    <3>3. Fun(program, places[j]) \in 1..Len(program) /\ j \in 1..Len(program)
      BY <1>4, <3>1, <3>2
    <3> QED BY <1>5, <3>2, <3>3
  <2>3. CASE Within(program, places[j]) /\ Fun(program, places[j]) = 0
    <3>1. Len(places[j]) = 1 /\ program[places[j][1]].op = "class" /\ places[j] # <<>>
      BY <1>1, <2>3, FunFacts
    <3>2. Inner(places[j]) = places[j][1]
      BY <3>1 DEF Inner
    <3>3. j # 0
      BY <1>4, <3>1
    <3>4. \A name \in Names, d \in 1..Len(program) : ~ Declares(program, places, j, name, d)
      <4>1. ASSUME NEW name, NEW d \in 1..Len(program), Declares(program, places, j, name, d)
            PROVE  Inner(places[j]) = j /\ (j # 0 => program[j].op # "class")
        BY <1>1, <4>1, DeclaresFacts
      <4> QED BY <3>1, <3>2, <3>3, <4>1
    <3> QED BY <3>4 DEF Unique
  <2> QED BY <2>1, <2>2, <2>3
<1> QED
  BY <1>1, <1>3, <1>5, <1>6 DEF GoodProgram, GeneratedInv

\* What was referred to is what the name means.
LEMMA ResolvedIsLexical ==
    ASSUME NEW opens, NEW places, MeansInv(opens, places)
    PROVE  ResolvesLexically
<1>1. Tree(program, places) /\ Positions = 1..Len(program)
  BY DEF MeansInv, Tree, Positions
<1>2. ASSUME NEW r \in refs
      PROVE  r.entry = Meaning(r.at, program[r.at].name)
  <2>1. /\ r.at \in 1..Len(program) /\ r.entry = MeaningAt(program, places, r.at)
        /\ program[r.at].op \in {"use", "set", "var", "for"}
        /\ program[r.at].op \in {"use", "set"} =>
              Finding(program, places, places[r.at - 1], program[r.at].name) # {}
    BY DEF MeansInv, RefersInv
  <2>2. Meaning(r.at, program[r.at].name) = MeaningAt(program, places, r.at)
    BY ONLY <1>1, <2>1, MeaningIs
  <2> QED BY <2>1, <2>2
<1>3. phase = "done" =>
         {r.at : r \in refs} = {i \in Positions : program[i].op \in {"use", "set", "var", "for"}}
  BY <1>1, DoneIsGood
<1> QED
  BY <1>2, <1>3 DEF ResolvesLexically

LEMMA RefusedIsWrong ==
    ASSUME NEW opens, NEW places, MeansInv(opens, places)
    PROVE  ErrorsAreExact
<1>1. Tree(program, places) /\ (phase = "failed" => ~ GoodProgram(program, places))
  BY DEF MeansInv
<1>2. WellScoped <=> GoodProgram(program, places)
  BY <1>1, WellScopedIs
<1>3. phase = "done" => GoodProgram(program, places)
  BY DoneIsGood
<1> QED
  BY <1>1, <1>2, <1>3 DEF ErrorsAreExact

\* Whatever the program, every name that its code uses or binds was resolved, once,
\* to its declaration in the nearest construct around it that has one: the cutting of
\* scopes in get_symbol_from_ident, the order of the passes, the pass that collects
\* the locals before a function is generated, and the cleanup of leave_scope together
\* are lexical scoping.
THEOREM ResolvesLexicallyHolds == Spec => []ResolvesLexically
<1>1. Resolved => ResolvesLexically
  BY ResolvedIsLexical DEF Resolved
<1> QED
  BY <1>1, ResolvedHolds, PTL

\* Whatever the program, the compiler stops with an error exactly if the language
\* does not accept it.
THEOREM ErrorsAreExactHolds == Spec => []ErrorsAreExact
<1>1. Resolved => ErrorsAreExact
  BY RefusedIsWrong DEF Resolved
<1> QED
  BY <1>1, ResolvedHolds, PTL

=============================================================================
