----------------------------- MODULE ProofLemmas -----------------------------
(***************************************************************************)
(* Facts about numbers and sequences that the proofs of several modules    *)
(* use.                                                                    *)
(***************************************************************************)
EXTENDS Integers, SequencesExt, SequenceTheorems, WellFoundedInduction, TLAPS

-----------------------------------------------------------------------------
(* Numbers.                                                                 *)

\* A set of naturals that is not empty has a least element, and a greatest one
\* when it is bounded.
LEMMA SmallestElement ==
    ASSUME NEW T, T \subseteq Nat, T # {}
    PROVE  \E x \in T : \A y \in T : x <= y
<1> DEFINE R == {ss \in Nat \X Nat : ss[1] < ss[2]}
<1>1. IsWellFoundedOn(R, Nat)
  BY NatLessThanWellFounded DEF OpToRel
<1>2. PICK x \in T : \A y \in T : ~ (<<y, x>> \in R)
  <2> HIDE DEF R
  <2> QED BY <1>1, WFMin
<1>3. ASSUME NEW y \in T
      PROVE  x <= y
  <2>1. x \in Nat /\ y \in Nat /\ <<y, x>> \in Nat \X Nat
    BY <1>2
  <2>2. ~ (<<y, x>>[1] < <<y, x>>[2])
    BY <1>2, <2>1
  <2> QED
    BY <2>1, <2>2
<1> QED
  BY <1>3

LEMMA GreatestElement ==
    ASSUME NEW n \in Nat, NEW T, T \subseteq 1..n, T # {}
    PROVE  \E x \in T : \A y \in T : y <= x
<1> DEFINE U == {n - i : i \in T}
<1>1. \A i \in T : i \in Nat /\ n - i \in Nat
  OBVIOUS
<1>2. U \subseteq Nat /\ U # {}
  BY <1>1
<1>3. PICK u \in U : \A y \in U : u <= y
  <2> HIDE DEF U
  <2> QED BY <1>2, SmallestElement
<1>4. PICK x \in T : u = n - x
  BY <1>3
<1>5. ASSUME NEW y \in T
      PROVE  y <= x
  <2>1. n - x <= n - y
    BY <1>3, <1>4
  <2> QED
    BY <1>1, <2>1
<1> QED
  BY <1>5

\* Max is the greatest of them.
LEMMA MaxIn ==
    ASSUME NEW n \in Nat, NEW T, T \subseteq 0..n, T # {}
    PROVE  Max(T) \in T /\ \A m \in T : m <= Max(T)
<1> DEFINE shifted == {m + 1 : m \in T}
<1>0. \A m \in T : m \in Nat /\ m + 1 \in 1..(n + 1)
  <2>1. \A m \in 0..n : m \in Nat /\ m + 1 \in 1..(n + 1)
    OBVIOUS
  <2> QED BY <2>1
<1>1. shifted \subseteq 1..(n + 1) /\ shifted # {} /\ n + 1 \in Nat
  <2>1. shifted \subseteq 1..(n + 1)
    BY <1>0
  <2>2. shifted # {}
    <3>1. PICK m \in T : TRUE
      OBVIOUS
    <3>2. m + 1 \in shifted
      BY <3>1
    <3> QED BY <3>2
  <2>3. n + 1 \in Nat
    OBVIOUS
  <2> QED BY <2>1, <2>2, <2>3
<1>2. PICK x \in shifted : \A y \in shifted : y <= x
  <2> HIDE DEF shifted
  <2> QED BY <1>1, GreatestElement
<1>3. PICK m \in T : x = m + 1
  BY <1>2
<1>4. ASSUME NEW k \in T
      PROVE  k <= m
  <2>1. k + 1 <= m + 1
    BY <1>2, <1>3
  <2> QED BY <1>0, <2>1
<1>5. \A k \in T : m >= k
  BY <1>0, <1>4
<1>6. Max(T) \in T /\ \A k \in T : Max(T) >= k
  BY <1>5 DEF Max
<1> QED
  BY <1>0, <1>6

\* Downward from n.
LEMMA DownwardInduction ==
    ASSUME NEW n \in Nat, NEW T, n \in T, \A m \in 1..n : m \in T => m - 1 \in T
    PROVE  \A m \in 0..n : m \in T
<1> DEFINE U == {k \in 0..n : n - k \notin T}
<1>1. U \subseteq Nat
  OBVIOUS
<1>2. ASSUME U # {}
      PROVE  FALSE
  <2>1. PICK k \in U : \A j \in U : k <= j
    <3> HIDE DEF U
    <3> QED BY <1>1, <1>2, SmallestElement
  <2>2. k \in 0..n /\ n - k \notin T
    OBVIOUS
  <2>3. k # 0
    BY <2>2
  <2>4. k - 1 \in 0..n /\ k - 1 \notin U
    <3> HIDE DEF U
    <3> QED BY <2>1, <2>2, <2>3
  <2>5. n - (k - 1) \in T /\ n - (k - 1) \in 1..n
    BY <2>2, <2>3, <2>4
  <2>6. (n - (k - 1)) - 1 = n - k
    BY <2>2
  <2>7. (n - (k - 1)) - 1 \in T
    BY <2>5
  <2> QED BY <2>2, <2>6, <2>7
<1>3. ASSUME NEW m \in 0..n
      PROVE  m \in T
  <2>1. n - m \in 0..n /\ n - (n - m) = m
    OBVIOUS
  <2>2. n - m \notin U
    <3> HIDE DEF U
    <3> QED BY <1>2
  <2> QED BY <2>1, <2>2
<1> QED
  BY <1>3

-----------------------------------------------------------------------------
(* Sequences.                                                               *)

\* All of a sequence but its last element.
LEMMA FrontProperties ==
    ASSUME NEW S, NEW s \in Seq(S), s # <<>>
    PROVE  /\ Front(s) \in Seq(S)
           /\ Len(Front(s)) = Len(s) - 1
           /\ Len(s) \in Nat \ {0}
           /\ \A i \in 1..(Len(s) - 1) : Front(s)[i] = s[i]
<1>1. Len(s) \in Nat \ {0} /\ \A i \in 1..Len(s) : s[i] \in S
  OBVIOUS
<1>2. Front(s) = SubSeq(s, 1, Len(s) - 1)
  BY DEF Front
<1>3. \A i \in 1..(Len(s) - 1) : s[i] \in S
  BY <1>1
<1>4. ASSUME NEW n \in Int, n = Len(s) - 1
      PROVE  SubSeq(s, 1, n) \in Seq(S) /\ Len(SubSeq(s, 1, n)) = n
  <2>1. \A i \in 1..n : s[i] \in S
    BY <1>3, <1>4
  <2>2. /\ SubSeq(s, 1, n) \in Seq(S)
        /\ Len(SubSeq(s, 1, n)) = IF 1 <= n THEN n - 1 + 1 ELSE 0
    BY <2>1, SubSeqProperties
  <2> QED
    BY <1>1, <1>4, <2>2
<1>5. \A i \in 1..(Len(s) - 1) : SubSeq(s, 1, Len(s) - 1)[i] = s[i]
  BY <1>1, <1>3, SubSeqProperties
<1>6. Len(s) - 1 \in Int
  BY <1>1
<1> QED
  BY <1>1, <1>2, <1>4, <1>5, <1>6

\* A concatenation begins with its first part.
LEMMA ConcatLeft ==
    ASSUME NEW S, NEW s1 \in Seq(S), NEW s2 \in Seq(S)
    PROVE  /\ s1 \o s2 \in Seq(S)
           /\ Len(s1 \o s2) = Len(s1) + Len(s2)
           /\ \A i \in 1..Len(s1) : (s1 \o s2)[i] = s1[i]
<1>1. Len(s1) \in Nat /\ Len(s2) \in Nat
  OBVIOUS
<1>2. ASSUME NEW i \in 1..Len(s1)
      PROVE  (s1 \o s2)[i] = s1[i]
  <2>1. i \in 1..(Len(s1) + Len(s2)) /\ i <= Len(s1)
    BY <1>1
  <2> QED BY <2>1, ConcatProperties
<1> QED
  BY <1>2, ConcatProperties

-----------------------------------------------------------------------------
(* Recursion.                                                               *)

\* step[x] gives the value at x of a function from D to V, and looks at the function
\* at places of smaller rank only.
DefinesByRank(D, V, N, rank, step) ==
    /\ V # {} /\ N \in Nat /\ rank \in [D -> 0..N]
    /\ step \in [D -> [[D -> V] -> V]]
    /\ \A x \in D, g, h \in [D -> V] :
           (\A y \in D : rank[y] < rank[x] => g[y] = h[y]) => step[x][g] = step[x][h]

\* There is such a function.
LEMMA RecursionOnRank ==
    ASSUME NEW D, NEW V, NEW N, NEW rank, NEW step, DefinesByRank(D, V, N, rank, step)
    PROVE  \E f \in [D -> V] : \A x \in D : f[x] = step[x][f]
<1> DEFINE Solves(f, n) == \A x \in D : rank[x] < n => f[x] = step[x][f]
           Unsolved == {n \in Nat : ~ \E f \in [D -> V] : Solves(f, n)}
<1>0. /\ V # {} /\ N \in Nat /\ rank \in [D -> 0..N]
      /\ step \in [D -> [[D -> V] -> V]]
      /\ \A x \in D, g, h \in [D -> V] :
             (\A y \in D : rank[y] < rank[x] => g[y] = h[y]) => step[x][g] = step[x][h]
  BY DEF DefinesByRank
<1>1. ASSUME Unsolved # {}
      PROVE  FALSE
  <2>1. PICK n \in Unsolved : \A k \in Unsolved : n <= k
    BY <1>1, SmallestElement
  <2>2. n # 0
    <3>1. PICK v \in V : TRUE
      BY <1>0
    <3>2. [x \in D |-> v] \in [D -> V] /\ Solves([x \in D |-> v], 0)
      <4>1. \A x \in D : rank[x] \in Nat
        BY <1>0
      <4> QED BY <4>1
    <3> QED BY <2>1, <3>2
  <2>3. n - 1 \in Nat /\ n - 1 \notin Unsolved
    BY <2>1, <2>2
  <2>4. PICK f \in [D -> V] : Solves(f, n - 1)
    BY <2>3
  <2> DEFINE g == [x \in D |-> IF rank[x] = n - 1 THEN step[x][f] ELSE f[x]]
  <2>5. g \in [D -> V]
    BY <1>0
  <2>6. ASSUME NEW x \in D, rank[x] < n
        PROVE  g[x] = step[x][g]
    <3>1. \A y \in D : rank[y] < rank[x] => f[y] = g[y]
      <4>1. \A a, b, c \in Int : a < b /\ b < c => a # c - 1
        OBVIOUS
      <4>2. n \in Int /\ \A y \in D : rank[y] \in Int
        BY <1>0, <2>1
      <4>3. \A y \in D : rank[y] < rank[x] => rank[y] # n - 1
        <5> HIDE DEF Unsolved
        <5> QED BY <2>6, <4>1, <4>2
      <4> QED BY <4>3
    <3>2. step[x][f] = step[x][g]
      <4> HIDE DEF g
      <4> QED BY <1>0, <2>5, <3>1
    <3>3. CASE rank[x] = n - 1
      BY <3>2, <3>3
    <3>4. CASE rank[x] # n - 1
      <4>1. rank[x] < n - 1
        <5>1. n \in Nat /\ rank[x] \in 0..N
          BY <1>0, <2>1
        <5>2. \A a, b \in Int : a < b /\ a # b - 1 => a < b - 1
          OBVIOUS
        <5>3. n \in Int /\ rank[x] \in Int
          BY <5>1
        <5> HIDE DEF Unsolved, g
        <5> QED BY <5>2, <5>3, <2>6, <3>4
      <4> QED BY <2>4, <3>2, <3>4, <4>1
    <3> QED BY <3>3, <3>4
  <2> QED BY <2>1, <2>5, <2>6
<1>2. PICK f \in [D -> V] : Solves(f, N + 1)
  <2>1. N + 1 \in Nat
    BY <1>0
  <2>2. Unsolved = {}
    BY <1>1
  <2> HIDE DEF Solves
  <2> QED BY <2>1, <2>2
<1>3. \A x \in D : f[x] = step[x][f]
  <2>1. \A x \in D : rank[x] < N + 1
    BY <1>0
  <2> QED BY <1>2, <2>1
<1> QED BY <1>3

=============================================================================
