---------------------------- MODULE HashmapProofs ----------------------------
(***************************************************************************)
(* Proofs about hashmap.c: while removals start in a table that is at most *)
(* half full, the table finds what it stores, owns its names, always has a *)
(* slot for one more, survives the loops that remove while they iterate,   *)
(* and implements the map of SymbolMap.                                    *)
(*                                                                         *)
(* First the facts about tables: what hashmap_entry_find finds, that       *)
(* growth never fails and keeps every entry, and that removal keeps every  *)
(* entry but the one that is removed, and keeps each within reach.         *)
(***************************************************************************)
EXTENDS HashmapForeach, ProofLemmas, FiniteSetTheorems

-----------------------------------------------------------------------------
(* Tables.  h is the hash function, N the size of the table t.              *)

IsTable(N, t) == N \in Nat /\ t \in [0..(N - 1) -> Entry]

\* The slots i steps behind and in front of slot s.
Ahead(N, s, i) == IF s + i < N THEN s + i ELSE s + i - N
Back(N, s, i) == IF i <= s THEN s - i ELSE s - i + N

\* No two slots hold the same name.
Distinct(N, t) ==
    \A i, j \in 0..(N - 1) : t[i].key # NULL /\ t[i].key = t[j].key => i = j

\* Slot i is d steps behind the home of name k, and all slots between them are taken.
ReachedIn(h, N, t, k, i, d) ==
    /\ h[k] % N = Back(N, i, d)
    /\ \A l \in 1..d : t[Back(N, i, l)].key # NULL

Reachable(h, N, t) ==
    \A i \in 0..(N - 1) : t[i].key # NULL =>
        \E d \in 0..(N \div 2 - 1) : ReachedIn(h, N, t, t[i].key, i, d)

Sound(h, N, t) == IsTable(N, t) /\ Distinct(N, t) /\ Reachable(h, N, t)

\* What a table holds.
Entries(t) == {t[i] : i \in DOMAIN t} \ {Empty}

LEMMA EntryShape ==
    /\ Empty.key = NULL /\ Empty.data = NULL /\ Empty \in Entry
    /\ \A e \in Entry : /\ e = Empty \/ (e \in [key : Keys, data : Data] /\ e.key \in Keys /\ e.data \in Data)
                        /\ e.key = NULL <=> e = Empty
                        /\ e.data = NULL <=> e = Empty
BY NULLAssumption DEF Empty, Entry

LEMMA TableSize ==
    ASSUME NEW N, NEW t, IsTable(N, t)
    PROVE  DOMAIN t = 0..(N - 1) /\ Size(t) = N
<1>1. DOMAIN t = 0..(N - 1) /\ N \in Nat
  BY DEF IsTable
<1>2. Cardinality(0..(N - 1)) = IF 0 > N - 1 THEN 0 ELSE N - 1 - 0 + 1
  BY <1>1, FS_Interval
<1> QED
  BY <1>1, <1>2 DEF Size

\* The remainders of what lies less than one table off.
LEMMA Wraps ==
    ASSUME NEW N \in Nat, N > 0, NEW x \in Int
    PROVE  /\ x % N \in 0..(N - 1)
           /\ x \in 0..(N - 1) => x % N = x
           /\ x \in N..(2 * N - 1) => x % N = x - N
           /\ x \in (-N)..(-1) => x % N = x + N
OBVIOUS

LEMMA Halves ==
    ASSUME NEW N \in Nat
    PROVE  N \div 2 \in Nat /\ 2 * (N \div 2) <= N /\ N < 2 * (N \div 2) + 2
OBVIOUS

LEMMA HomeIsASlot ==
    ASSUME NEW N \in Nat, N > 0, hash \in [Keys -> HashValues], NEW k \in Keys
    PROVE  hash[k] % N \in 0..(N - 1)
<1>1. hash[k] \in HashValues
  OBVIOUS
<1>2. hash[k] \in Nat
  BY <1>1, HashAssumption, Zenon
<1> QED
  BY <1>2, Wraps

\* Ahead and Back are steps in the two directions of the circle of slots.
LEMMA Circle ==
    ASSUME NEW N \in Nat, NEW s \in 0..(N - 1), NEW i \in 0..(N - 1)
    PROVE  /\ Ahead(N, s, i) \in 0..(N - 1)
           /\ Back(N, s, i) \in 0..(N - 1)
           /\ (s + i) % N = Ahead(N, s, i)
           /\ (s - i) % N = Back(N, s, i)
           /\ Ahead(N, s, Back(N, i, s)) = i
           /\ Back(N, Ahead(N, s, i), s) = i
           /\ Ahead(N, Back(N, s, i), i) = s
           /\ Back(N, Ahead(N, s, i), i) = s
<1>1. s + i \in 0..(2 * N - 1) /\ s - i \in (-N)..(N - 1) /\ N > 0
  OBVIOUS
<1>2. (s + i) % N = Ahead(N, s, i) /\ (s - i) % N = Back(N, s, i)
  BY <1>1, Wraps DEF Ahead, Back
<1> QED
  BY <1>2 DEF Ahead, Back

\* Walking ahead from slot s reaches every slot once.
LEMMA Around ==
    ASSUME NEW N \in Nat, NEW s \in 0..(N - 1)
    PROVE  \A i \in 0..(N - 1) :
               /\ Ahead(N, s, i) \in 0..(N - 1) /\ Back(N, Ahead(N, s, i), s) = i
               /\ Back(N, i, s) \in 0..(N - 1) /\ Ahead(N, s, Back(N, i, s)) = i
               /\ (s + i) % N = Ahead(N, s, i)
<1> TAKE i \in 0..(N - 1)
<1>1. /\ Ahead(N, s, i) \in 0..(N - 1) /\ Back(N, Ahead(N, s, i), s) = i
      /\ (s + i) % N = Ahead(N, s, i)
  BY Circle
<1>2. Back(N, i, s) \in 0..(N - 1) /\ Ahead(N, s, Back(N, i, s)) = i
  BY Circle
<1> QED
  BY <1>1, <1>2

LEMMA EntriesAreTaken ==
    ASSUME NEW N, NEW t, IsTable(N, t)
    PROVE  /\ Entries(t) = {t[i] : i \in {i \in 0..(N - 1) : t[i].key # NULL}}
           /\ Entries(t) \subseteq [key : Keys, data : Data]
           /\ IsFiniteSet(Entries(t)) /\ Cardinality(Entries(t)) \in Nat
           /\ Cardinality(Entries(t)) <= N
<1>1. DOMAIN t = 0..(N - 1) /\ N \in Nat /\ \A i \in 0..(N - 1) : t[i] \in Entry
  BY DEF IsTable
<1>2. /\ Entries(t) = {t[i] : i \in {i \in 0..(N - 1) : t[i].key # NULL}}
      /\ Entries(t) \subseteq [key : Keys, data : Data]
  BY <1>1, EntryShape DEF Entries
<1>3. IsFiniteSet(0..(N - 1)) /\ Cardinality(0..(N - 1)) <= N
  BY <1>1, FS_Interval
<1> DEFINE T == {t[i] : i \in 0..(N - 1)}
<1>4. t \in Surjection(0..(N - 1), T)
  BY <1>1 DEF Surjection, IsTable
<1>5. IsFiniteSet(T) /\ Cardinality(T) <= Cardinality(0..(N - 1))
  BY <1>3, <1>4, FS_Surjection
<1>6. Entries(t) \in SUBSET T
  BY <1>1 DEF Entries
<1>7. IsFiniteSet(Entries(t)) /\ Cardinality(Entries(t)) <= Cardinality(T)
  BY <1>5, <1>6, FS_Subset
<1>8. Cardinality(Entries(t)) \in Nat /\ Cardinality(T) \in Nat /\ Cardinality(0..(N-1)) \in Nat
  BY <1>3, <1>5, <1>7, FS_CardinalityType
<1> QED
  BY <1>1, <1>2, <1>3, <1>5, <1>7, <1>8

-----------------------------------------------------------------------------
(* Finding.                                                                 *)

\* What hashmap_entry_find returns: NULL when all slots that it looks at hold
\* other names, or else a slot that holds k or nothing, behind such slots.
LEMMA EntryFindIs ==
    ASSUME NEW N, NEW t, IsTable(N, t), N > 0, NEW k \in Keys, hash \in [Keys -> HashValues]
    PROVE  \/ /\ EntryFind(t, k) = NULL
              /\ \A i \in 0..(N \div 2 - 1) : t[Ahead(N, hash[k] % N, i)].key \notin {k, NULL}
           \/ /\ EntryFind(t, k) \in 0..(N - 1)
              /\ t[EntryFind(t, k)].key \in {k, NULL}
              /\ \E d \in 0..(N \div 2 - 1) :
                    /\ hash[k] % N = Back(N, EntryFind(t, k), d)
                    /\ \A l \in 1..d : t[Back(N, EntryFind(t, k), l)].key \notin {k, NULL}
<1> DEFINE a == hash[k] % N
           half == N \div 2
           Ends(i) == t[Probe(t, k, i)].key \in {k, NULL}
           first == {i \in 0..(half - 1) : Ends(i) /\ \A j \in 0..(i - 1) : ~ Ends(j)}
<1>1. N \in Nat /\ a \in 0..(N - 1) /\ half \in Nat /\ 2 * half <= N
  BY Halves, HomeIsASlot DEF IsTable
<1>2. ProbeLen(t) = half /\ \A i \in 0..(half - 1) : Probe(t, k, i) = Ahead(N, a, i)
  <2>1. \A i \in 0..(half - 1) : i \in 0..(N - 1)
    BY <1>1
  <2>2. Size(t) = N
    BY TableSize
  <2> HIDE DEF half
  <2>3. \A i \in 0..(half - 1) : Probe(t, k, i) = Ahead(N, a, i)
    BY <1>1, <2>1, <2>2, Circle DEF Probe, Home
  <2> QED BY <2>2, <2>3 DEF ProbeLen, half
<1>3. EntryFind(t, k) = IF first = {} THEN NULL ELSE Probe(t, k, CHOOSE i \in first : TRUE)
  BY <1>2 DEF EntryFind
<1>4. CASE first = {}
  <2>1. ASSUME NEW i \in 0..(half - 1), Ends(i)
        PROVE  FALSE
    <3> DEFINE T == {j \in 0..(half - 1) : Ends(j)}
    <3>1. T \subseteq Nat /\ T # {}
      BY <1>1, <2>1
    <3>2. PICK j \in T : \A l \in T : j <= l
      <4> HIDE DEF T
      <4> QED BY <3>1, SmallestElement
    <3>3. \A l \in 0..(j - 1) : l \in 0..(half - 1) /\ ~ (j <= l)
      BY <1>1, <3>2
    <3>4. j \in first
      BY <3>2, <3>3
    <3> QED BY <1>4, <3>4
  <2>2. \A i \in 0..(half - 1) : t[Ahead(N, a, i)].key \notin {k, NULL}
    BY <1>2, <2>1
  <2> QED BY <1>3, <1>4, <2>2
<1>5. CASE first # {}
  <2>1. PICK d \in 0..(half - 1) : d \in first /\ EntryFind(t, k) = Probe(t, k, d)
    BY <1>3, <1>5
  <2> DEFINE s == Ahead(N, a, d)
  <2>2. EntryFind(t, k) = s /\ t[s].key \in {k, NULL}
    BY <1>2, <2>1
  <2>3. d \in 0..(N - 1) /\ s \in 0..(N - 1) /\ a = Back(N, s, d)
    <3> HIDE DEF half, a
    <3>1. d \in 0..(N - 1)
      BY <1>1, <2>1
    <3> QED BY <1>1, <3>1, Circle
  <2>4. ASSUME NEW l \in 1..d
        PROVE  t[Back(N, s, l)].key \notin {k, NULL}
    <3>1. d - l \in 0..(d - 1) /\ d - l \in 0..(half - 1)
      BY <1>1, <2>1
    <3>2. Back(N, s, l) = Ahead(N, a, d - l)
      BY <1>1, <2>1, <2>3 DEF Ahead, Back
    <3> QED BY <1>2, <2>1, <3>1, <3>2
  <2> QED BY <2>2, <2>3, <2>4
<1> QED
  BY <1>4, <1>5

\* In a sound table every name is found where it is stored; what is not found is
\* not stored, and may be put into the slot that is found for it.
LEMMA SoundTablesFind ==
    ASSUME NEW N, NEW t, hash \in [Keys -> HashValues], Sound(hash, N, t), N > 0
    PROVE  /\ \A i \in 0..(N - 1) : t[i].key # NULL => EntryFind(t, t[i].key) = i
           /\ \A k \in Keys : EntryFind(t, k) = NULL \/ EntryFind(t, k) \in 0..(N - 1)
           /\ \A k \in Keys :
                 EntryFind(t, k) # NULL /\ t[EntryFind(t, k)].key # NULL => t[EntryFind(t, k)].key = k
<1>1. IsTable(N, t) /\ N \in Nat /\ \A i \in 0..(N - 1) : t[i] \in Entry
  BY DEF Sound, IsTable
<1>2. ASSUME NEW i \in 0..(N - 1), t[i].key # NULL
      PROVE  EntryFind(t, t[i].key) = i
  <2> DEFINE k == t[i].key
             a == hash[k] % N
             half == N \div 2
             s == EntryFind(t, k)
  <2>1. k \in Keys /\ a \in 0..(N - 1) /\ half \in Nat /\ 2 * half <= N
    BY <1>1, <1>2, EntryShape, Halves, HomeIsASlot
  <2>2. PICK d \in 0..(half - 1) : a = Back(N, i, d) /\ \A l \in 1..d : t[Back(N, i, l)].key # NULL
    BY <1>2 DEF Sound, Reachable, ReachedIn
  <2>3. i = Ahead(N, a, d)
    <3> HIDE DEF k, a, half
    <3>1. d \in 0..(N - 1)
      BY <1>1, <2>1, <2>2
    <3> QED BY <1>1, <2>2, <3>1, Circle
  <2>4. s # NULL
    <3>1. t[Ahead(N, a, d)].key = k
      BY <2>3
    <3> HIDE DEF k
    <3> QED BY <1>1, <2>1, <3>1, EntryFindIs, NULLAssumption
  <2>5. /\ s \in 0..(N - 1)
        /\ t[s].key \in {k, NULL}
        /\ \E m \in 0..(half - 1) :
              a = Back(N, s, m) /\ \A l \in 1..m : t[Back(N, s, l)].key \notin {k, NULL}
    <3> HIDE DEF k
    <3> QED BY <1>1, <2>1, <2>4, EntryFindIs
  <2>6. PICK m \in 0..(half - 1) :
            a = Back(N, s, m) /\ \A l \in 1..m : t[Back(N, s, l)].key \notin {k, NULL}
    BY <2>5
  <2> HIDE DEF k, a, half, s
  <2>7. ~ (d < m)
    <3>1. d < m => m - d \in 1..m /\ Back(N, s, m - d) = i
      BY <1>1, <2>1, <2>2, <2>5, <2>6 DEF Back
    <3> QED BY <2>6, <3>1 DEF k
  <2>8. m < d => d - m \in 1..d /\ Back(N, i, d - m) = s
    BY <1>1, <2>1, <2>2, <2>5, <2>6 DEF Back
  <2>9. m = d => s = i
    BY <1>1, <2>1, <2>2, <2>5, <2>6 DEF Back
  <2>10. t[s].key # NULL \/ m = d
    BY <2>2, <2>6, <2>7, <2>8
  <2>11. t[s].key = k => s = i
    BY <1>2, <2>5 DEF Sound, Distinct, k
  <2> QED BY <2>5, <2>9, <2>10, <2>11 DEF k, s
<1> QED
  BY <1>1, <1>2, EntryFindIs

-----------------------------------------------------------------------------
(* Putting.                                                                 *)

LEMMA EmptyTableSound ==
    ASSUME NEW N \in Nat, NEW h
    PROVE  Sound(h, N, EmptyTable(N)) /\ Entries(EmptyTable(N)) = {}
<1>1. EmptyTable(N) = [i \in 0..(N - 1) |-> Empty]
  BY DEF EmptyTable
<1>2. IsTable(N, EmptyTable(N))
  BY <1>1, EntryShape DEF IsTable
<1>3. \A i \in 0..(N - 1) : EmptyTable(N)[i].key = NULL
  BY <1>1, EntryShape
<1>4. Sound(h, N, EmptyTable(N))
  BY <1>2, <1>3 DEF Sound, Distinct, Reachable
<1>5. Entries(EmptyTable(N)) = {}
  BY <1>1 DEF Entries
<1> QED
  BY <1>4, <1>5

\* An entry that is put into a free slot within reach of its home leaves the
\* table sound and adds to what it holds.
LEMMA InsertionIsSound ==
    ASSUME NEW h, NEW N, NEW t, Sound(h, N, t), NEW s \in 0..(N - 1), t[s].key = NULL,
           NEW e \in [key : Keys, data : Data],
           \A i \in 0..(N - 1) : t[i].key # e.key,
           \E d \in 0..(N \div 2 - 1) : ReachedIn(h, N, t, e.key, s, d)
    PROVE  /\ Sound(h, N, [t EXCEPT ![s] = e])
           /\ Entries([t EXCEPT ![s] = e]) = Entries(t) \cup {e}
           /\ e \notin Entries(t)
<1> DEFINE u == [t EXCEPT ![s] = e]
           half == N \div 2
<1>1. /\ IsTable(N, t) /\ N \in Nat /\ \A i \in 0..(N - 1) : t[i] \in Entry
      /\ e \in Entry /\ e.key \in Keys /\ e.key # NULL /\ e # Empty /\ t[s] = Empty
      /\ half \in Nat /\ 2 * half <= N
  BY EntryShape, Halves, NULLAssumption DEF Sound, IsTable, Entry
<1>2. IsTable(N, u) /\ u[s] = e /\ \A i \in 0..(N - 1) : i # s => u[i] = t[i]
  BY <1>1 DEF IsTable
<1> HIDE DEF u
<1>3. Distinct(N, u)
  BY <1>1, <1>2 DEF Sound, Distinct
<1>4. \A i \in 0..(N - 1) : t[i].key # NULL => u[i].key # NULL
  BY <1>1, <1>2
<1>5. \A i \in 0..(N - 1), d \in 0..(half - 1) : \A l \in 1..d : Back(N, i, l) \in 0..(N - 1)
  BY <1>1 DEF Back
<1> HIDE DEF half
<1>6. ASSUME NEW k, NEW i \in 0..(N - 1), NEW d \in 0..(half - 1), ReachedIn(h, N, t, k, i, d)
      PROVE  ReachedIn(h, N, u, k, i, d)
  BY <1>4, <1>5, <1>6 DEF ReachedIn
<1>7. ASSUME NEW i \in 0..(N - 1), u[i].key # NULL
      PROVE  \E d \in 0..(half - 1) : ReachedIn(h, N, u, u[i].key, i, d)
  <2>1. CASE i = s
    <3>1. PICK d \in 0..(half - 1) : ReachedIn(h, N, t, e.key, s, d)
      BY DEF half
    <3> QED BY <1>2, <1>6, <2>1, <3>1
  <2>2. CASE i # s
    <3>1. PICK d \in 0..(half - 1) : ReachedIn(h, N, t, t[i].key, i, d)
      BY <1>2, <1>7, <2>2 DEF Sound, Reachable, half
    <3> QED BY <1>2, <1>6, <2>2, <3>1
  <2> QED BY <2>1, <2>2
<1>8. Sound(h, N, u)
  BY <1>2, <1>3, <1>7 DEF Sound, Reachable, half
<1>9. Entries(u) = Entries(t) \cup {e}
  <2>1. DOMAIN u = 0..(N - 1) /\ DOMAIN t = 0..(N - 1)
    BY <1>1, <1>2, TableSize
  <2>2. Entries(u) \subseteq Entries(t) \cup {e}
    BY <1>2, <2>1 DEF Entries
  <2>3. Entries(t) \subseteq Entries(u)
    BY <1>1, <1>2, <2>1 DEF Entries
  <2>4. e \in Entries(u)
    BY <1>1, <1>2, <2>1 DEF Entries
  <2> QED BY <2>2, <2>3, <2>4
<1>10. e \notin Entries(t)
  BY <1>1, TableSize DEF Entries
<1> QED
  BY <1>8, <1>9, <1>10 DEF u

\* What hashmap_put and hashmap_rehash do with the slot that was found.
LEMMA PutIsSound ==
    ASSUME NEW N, NEW t, N > 0, hash \in [Keys -> HashValues], Sound(hash, N, t),
           NEW e \in [key : Keys, data : Data],
           EntryFind(t, e.key) # NULL, t[EntryFind(t, e.key)].key = NULL
    PROVE  /\ Sound(hash, N, [t EXCEPT ![EntryFind(t, e.key)] = e])
           /\ Entries([t EXCEPT ![EntryFind(t, e.key)] = e]) = Entries(t) \cup {e}
           /\ e \notin Entries(t)
<1> DEFINE s == EntryFind(t, e.key)
<1>1. IsTable(N, t) /\ e.key \in Keys /\ e.key # NULL
  BY NULLAssumption DEF Sound
<1>2. /\ s \in 0..(N - 1)
      /\ \E d \in 0..(N \div 2 - 1) :
            hash[e.key] % N = Back(N, s, d) /\ \A l \in 1..d : t[Back(N, s, l)].key \notin {e.key, NULL}
  BY <1>1, EntryFindIs
<1>3. \E d \in 0..(N \div 2 - 1) : ReachedIn(hash, N, t, e.key, s, d)
  BY <1>2 DEF ReachedIn
<1>4. \A i \in 0..(N - 1) : t[i].key # e.key
  BY <1>1, SoundTablesFind
<1> HIDE DEF s
<1>5. s = EntryFind(t, e.key) /\ t[s].key = NULL
  BY DEF s
<1> QED
  BY <1>2, <1>3, <1>4, <1>5, InsertionIsSound

\* When a name finds no slot, half of the table is taken.
LEMMA NoSlotMeansHalfFull ==
    ASSUME NEW N, NEW t, N > 0, hash \in [Keys -> HashValues], Sound(hash, N, t),
           NEW k \in Keys, EntryFind(t, k) = NULL
    PROVE  N \div 2 <= Cardinality(Entries(t))
<1> DEFINE half == N \div 2
           a == hash[k] % N
           f == [i \in 0..(half - 1) |-> t[Ahead(N, a, i)]]
<1>1. /\ IsTable(N, t) /\ N \in Nat /\ \A i \in 0..(N - 1) : t[i] \in Entry
      /\ a \in 0..(N - 1) /\ half \in Nat /\ 2 * half <= N
  BY Halves, HomeIsASlot DEF Sound, IsTable
<1>2. EntryFind(t, k) \notin 0..(N - 1)
  BY NULLAssumption, <1>1
<1>3. \A i \in 0..(half - 1) : t[Ahead(N, a, i)].key # NULL
  BY <1>1, <1>2, EntryFindIs
<1> HIDE DEF half, a
<1>4. \A i \in 0..(half - 1) : Ahead(N, a, i) \in 0..(N - 1)
  BY <1>1 DEF Ahead
<1>5. \A i \in 0..(half - 1) : t[Ahead(N, a, i)] \in Entries(t)
  BY <1>1, <1>3, <1>4, EntryShape, TableSize DEF Entries
<1>6. ASSUME NEW i \in 0..(half - 1), NEW j \in 0..(half - 1), f[i] = f[j]
      PROVE  i = j
  <2>1. Ahead(N, a, i) = Ahead(N, a, j)
    BY <1>3, <1>4, <1>6 DEF Sound, Distinct
  <2> QED BY <1>1, <2>1 DEF Ahead
<1>7. f \in Injection(0..(half - 1), Entries(t))
  <2>1. f \in [0..(half - 1) -> Entries(t)]
    BY <1>5
  <2> HIDE DEF f
  <2> QED BY <1>6, <2>1 DEF Injection, IsInjective
<1>8. Cardinality(0..(half - 1)) <= Cardinality(Entries(t))
  <2> HIDE DEF f
  <2> QED BY <1>1, <1>7, EntriesAreTaken, FS_Injection
<1>9. Cardinality(0..(half - 1)) = half
  BY <1>1, FS_Interval
<1> QED
  BY <1>8, <1>9 DEF half

-----------------------------------------------------------------------------
(* Growing.                                                                 *)

\* The tables that hashmap_rehash fills one after the other exist: the recursive
\* definition in Rehash has a value, and defines each table by the one before.
LEMMA RehashSteps ==
    ASSUME NEW N, NEW t, IsTable(N, t), NEW M
    PROVE  \E new :
              /\ new[0] = EmptyTable(M)
              /\ \A i \in 1..N : new[i] = PutAgain(new[i - 1], t[i - 1])
              /\ Rehash(t, M) = new[N]
<1> DEFINE Step(f, i) == IF i = 0 THEN EmptyTable(M) ELSE PutAgain(f[i - 1], t[i - 1])
           FilledTo(f, n) == f = [i \in 0..n |-> Step(f, i)]
           T == {n \in 0..N : ~ \E f : FilledTo(f, n)}
<1>1. N \in Nat /\ Size(t) = N
  BY TableSize DEF IsTable
<1>2. ASSUME T # {}
      PROVE  FALSE
  <2>1. T \subseteq Nat
    BY <1>1
  <2>2. PICK m \in T : \A n \in T : m <= n
    <3> HIDE DEF T
    <3> QED BY <1>2, <2>1, SmallestElement
  <2>3. m \in 0..N
    BY <2>2
  <2>4. m # 0
    <3> DEFINE f == [i \in 0..0 |-> EmptyTable(M)]
    <3>1. FilledTo(f, 0)
      OBVIOUS
    <3> HIDE DEF f, FilledTo
    <3> QED BY <2>2, <3>1
  <2>5. m - 1 \in 0..N /\ ~ (m <= m - 1) /\ m \in Nat \ {0}
    BY <1>1, <2>3, <2>4
  <2>6. m - 1 \notin T
    <3> HIDE DEF T
    <3> QED BY <2>2, <2>5
  <2>7. PICK f : FilledTo(f, m - 1)
    <3> HIDE DEF FilledTo
    <3> QED BY <2>5, <2>6
  <2> DEFINE g == [i \in 0..m |-> IF i = m THEN Step(f, m) ELSE f[i]]
  <2>8. g[m] = Step(f, m) /\ \A i \in 0..(m - 1) : g[i] = f[i] /\ f[i] = Step(f, i)
    <3>1. \A i \in 0..(m - 1) : i \in 0..m /\ i # m
      BY <2>5
    <3>2. \A i \in 0..(m - 1) : f[i] = Step(f, i)
      <4> HIDE DEF Step
      <4> QED BY <2>7
    <3> HIDE DEF Step
    <3> QED BY <2>5, <3>1, <3>2
  <2>9. ASSUME NEW i \in 0..m
        PROVE  g[i] = Step(g, i)
    <3>1. i # 0 => i - 1 \in 0..(m - 1) /\ g[i - 1] = f[i - 1]
      BY <2>5, <2>8
    <3>2. Step(g, i) = Step(f, i)
      <4> HIDE DEF g
      <4> QED BY <3>1
    <3>3. i = m \/ i \in 0..(m - 1)
      BY <2>5
    <3> HIDE DEF Step, g
    <3> QED BY <2>8, <3>2, <3>3
  <2>10. g = [i \in 0..m |-> g[i]]
    OBVIOUS
  <2>11. FilledTo(g, m)
    <3> HIDE DEF Step, g
    <3> QED BY <2>9, <2>10
  <2> HIDE DEF FilledTo, g
  <2> QED BY <2>2, <2>11
<1>3. \E f : FilledTo(f, N)
  <2> HIDE DEF FilledTo
  <2> QED BY <1>1, <1>2
<1> DEFINE new == CHOOSE f : FilledTo(f, N)
<1>4. FilledTo(new, N)
  <2> HIDE DEF FilledTo
  <2> QED BY <1>3
<1>5. Rehash(t, M) = new[N]
  BY <1>1 DEF Rehash
<1>6. /\ new[0] = EmptyTable(M)
      /\ \A i \in 1..N : new[i] = PutAgain(new[i - 1], t[i - 1])
  <2>1. \A i \in 0..N : new[i] = Step(new, i)
    <3> HIDE DEF new, Step
    <3> QED BY <1>4
  <2>2. 0 \in 0..N /\ \A i \in 1..N : i \in 0..N /\ i # 0
    BY <1>1
  <2> HIDE DEF new
  <2> QED BY <2>1, <2>2
<1> HIDE DEF new
<1> QED
  BY <1>5, <1>6

\* A table of twice the size takes every entry, and nothing else: hashmap_rehash
\* does not fail for want of a slot.
LEMMA RehashIsSound ==
    ASSUME NEW N, NEW t, N > 0, hash \in [Keys -> HashValues], Sound(hash, N, t)
    PROVE  /\ Sound(hash, 2 * N, Rehash(t, 2 * N))
           /\ Entries(Rehash(t, 2 * N)) = Entries(t)
           /\ Rehash(t, 2 * N) # <<>>
<1> DEFINE M == 2 * N
<1>1. /\ IsTable(N, t) /\ N \in Nat /\ \A i \in 0..(N - 1) : t[i] \in Entry
      /\ M \in Nat /\ M > 0 /\ M \div 2 = N
  BY DEF Sound, IsTable
<1> HIDE DEF M
<1>2. PICK new :
          /\ new[0] = EmptyTable(M)
          /\ \A i \in 1..N : new[i] = PutAgain(new[i - 1], t[i - 1])
          /\ Rehash(t, M) = new[N]
  BY <1>1, RehashSteps
<1> DEFINE Seen(n) == {t[i] : i \in 0..(n - 1)} \ {Empty}
           Good(n) == Sound(hash, M, new[n]) /\ Entries(new[n]) = Seen(n)
           T == {n \in 0..N : ~ Good(n)}
<1>3. Good(0)
  <2>1. Seen(0) = {}
    OBVIOUS
  <2> QED BY <1>1, <1>2, <2>1, EmptyTableSound
<1>4. \A u : IsTable(M, u) => u # <<>>
  <2>1. DOMAIN <<>> = {} /\ 0 \in 0..(M - 1)
    BY <1>1
  <2> QED BY <2>1, TableSize
<1>5. ASSUME NEW n \in 1..N, Good(n - 1)
      PROVE  Good(n)
  <2> DEFINE u == new[n - 1]
             e == t[n - 1]
             s == EntryFind(u, e.key)
  <2>1. /\ n \in Nat /\ n - 1 \in 0..(N - 1) /\ n \in 0..N
        /\ new[n] = PutAgain(u, e) /\ e \in Entry /\ Sound(hash, M, u) /\ IsTable(M, u)
        /\ Entries(u) = Seen(n - 1)
    BY <1>1, <1>2, <1>5 DEF Sound
  <2>2. Seen(n) = (Seen(n - 1) \cup {e}) \ {Empty}
    <3>1. 0..(n - 1) = 0..(n - 2) \cup {n - 1} /\ (n - 1) - 1 = n - 2
      BY <2>1
    <3> QED BY <3>1
  <2>3. CASE e = Empty
    <3>1. Seen(n) = Seen(n - 1)
      BY <2>2, <2>3
    <3>2. new[n] = u
      BY <2>1, <2>3, <1>4, EntryShape DEF PutAgain
    <3> QED BY <2>1, <3>1, <3>2
  <2>4. CASE e # Empty
    <3>1. e \in [key : Keys, data : Data] /\ e.key \in Keys /\ e.key # NULL /\ e.data # NULL
      BY <2>1, <2>4, EntryShape
    <3>2. \A i \in 0..(n - 2) : t[i].key # e.key
      <4>1. \A i \in 0..(n - 2) : i \in 0..(N - 1) /\ i # n - 1
        BY <1>1, <2>1
      <4> QED BY <2>1, <3>1, <4>1 DEF Sound, Distinct
    <3>3. e \notin Seen(n - 1)
      BY <3>2, <2>1
    <3>4. s # NULL
      <4>1. SUFFICES ASSUME s = NULL
                     PROVE  FALSE
        OBVIOUS
      <4>2. N <= Cardinality(Entries(u))
        BY <1>1, <2>1, <3>1, <4>1, NoSlotMeansHalfFull
      <4>3. /\ Entries(u) \in SUBSET (Entries(t) \ {e})
            /\ e \in Entries(t)
        <5>1. DOMAIN t = 0..(N - 1) /\ \A i \in 0..((n - 1) - 1) : i \in 0..(N - 1)
          BY <1>1, <2>1, TableSize
        <5>2. e \in Entries(t)
          BY <2>1, <2>4, <5>1 DEF Entries
        <5>3. Seen(n - 1) \subseteq Entries(t)
          BY <5>1 DEF Entries
        <5> QED BY <2>1, <3>3, <5>2, <5>3
      <4>4. /\ IsFiniteSet(Entries(t)) /\ Cardinality(Entries(t)) \in Nat
            /\ Cardinality(Entries(t)) <= N
        BY <1>1, EntriesAreTaken
      <4>5. /\ IsFiniteSet(Entries(t) \ {e})
            /\ Cardinality(Entries(t) \ {e}) = Cardinality(Entries(t)) - 1
        BY <4>3, <4>4, FS_RemoveElement
      <4>6. Cardinality(Entries(u)) <= Cardinality(Entries(t) \ {e})
        BY <4>3, <4>5, FS_Subset
      <4>7. Cardinality(Entries(u)) \in Nat
        BY <2>1, EntriesAreTaken
      <4> QED BY <1>1, <4>2, <4>4, <4>5, <4>6, <4>7
    <3>5. s \in 0..(M - 1) /\ (u[s].key # NULL => u[s].key = e.key)
      BY <1>1, <2>1, <3>1, <3>4, SoundTablesFind
    <3>6. u[s].key = NULL
      <4>1. SUFFICES ASSUME u[s].key # NULL
                     PROVE  FALSE
        OBVIOUS
      <4>2. u[s] \in Entries(u) /\ u[s].key = e.key
        BY <2>1, <3>5, <4>1, TableSize, EntryShape DEF Entries
      <4>3. PICK i \in 0..((n - 1) - 1) : u[s] = t[i]
        BY <2>1, <4>2
      <4> QED BY <2>1, <3>2, <4>2, <4>3
    <3> HIDE DEF u, e, s
    <3>7. new[n] = [u EXCEPT ![s] = e]
      BY <1>4, <2>1, <3>1, <3>4 DEF PutAgain, s
    <3>8. Sound(hash, M, new[n]) /\ Entries(new[n]) = Entries(u) \cup {e}
      <4>1. EntryFind(u, e.key) # NULL /\ u[EntryFind(u, e.key)].key = NULL
        BY <3>4, <3>6 DEF s
      <4>2. /\ Sound(hash, M, [u EXCEPT ![EntryFind(u, e.key)] = e])
            /\ Entries([u EXCEPT ![EntryFind(u, e.key)] = e]) = Entries(u) \cup {e}
        BY <1>1, <2>1, <3>1, <4>1, PutIsSound
      <4>3. new[n] = [u EXCEPT ![EntryFind(u, e.key)] = e]
        BY <3>7 DEF s
      <4> QED BY <4>2, <4>3
    <3>9. Seen(n - 1) \cup {e} = Seen(n)
      BY <2>2, <2>4
    <3> QED BY <2>1, <3>8, <3>9
  <2> QED BY <2>3, <2>4
<1> HIDE DEF Good
<1>6. T = {}
  <2>1. SUFFICES ASSUME T # {}
                 PROVE  FALSE
    OBVIOUS
  <2>2. T \subseteq Nat
    BY <1>1
  <2>3. PICK m \in T : \A n \in T : m <= n
    <3> HIDE DEF T
    <3> QED BY <2>1, <2>2, SmallestElement
  <2>4. m \in 1..N /\ m - 1 \in 0..N /\ ~ (m <= m - 1) /\ ~ Good(m)
    BY <1>1, <1>3, <2>3
  <2>5. Good(m - 1)
    BY <2>3, <2>4
  <2> QED BY <1>5, <2>4, <2>5
<1>7. Good(N)
  BY <1>1, <1>6
<1>8. Seen(N) = Entries(t)
  BY <1>1, TableSize DEF Entries
<1>9. Sound(hash, M, Rehash(t, M)) /\ Entries(Rehash(t, M)) = Entries(t)
  BY <1>2, <1>7, <1>8 DEF Good
<1>10. Rehash(t, M) # <<>>
  BY <1>4, <1>9 DEF Sound
<1> QED
  BY <1>9, <1>10 DEF M

-----------------------------------------------------------------------------
(* Closing a gap.  Places are counted from the slot s whose entry is        *)
(* removed; dist[i] is how far the entry at place i is from its home, and   *)
(* len the last place of the chain.                                         *)

\* The entry at place i is the first behind place g that may move there.
FillsPlace(dist, g, i) ==
    /\ g < i
    /\ dist[i] >= i - g
    /\ \A j \in (g + 1)..(i - 1) : dist[j] < j - g

\* The places that are left: the first one, and that of every entry that moved.
AreGaps(dist, len, G) ==
    /\ G \subseteq 0..len
    /\ 0 \in G
    /\ \A i \in 1..len : i \in G <=> \E g \in G : FillsPlace(dist, g, i)

\* Of two gaps the first is filled, with an entry that is not behind the second.
LEMMA GapsAreFilled ==
    ASSUME NEW len \in Nat, NEW dist, \A j \in 0..len : dist[j] \in Nat, NEW G, AreGaps(dist, len, G),
           NEW g1 \in G, NEW g2 \in G, g1 < g2
    PROVE  \E j \in (g1 + 1)..g2 : FillsPlace(dist, g1, j)
<1> DEFINE Filled(g, h) == \E j \in (g + 1)..h : FillsPlace(dist, g, j)
           T == {h \in G : \E g \in G : g < h /\ ~ Filled(g, h)}
<1>1. \A g \in G : g \in Nat /\ g \in 0..len
  BY DEF AreGaps
<1>2. ASSUME T # {}
      PROVE  FALSE
  <2>1. T \subseteq Nat
    BY <1>1
  <2>2. PICK h \in T : \A m \in T : h <= m
    <3> HIDE DEF T
    <3> QED BY <1>2, <2>1, SmallestElement
  <2>3. PICK g \in G : g < h /\ ~ Filled(g, h)
    BY <2>2
  <2>4. h \in G /\ h \in 1..len
    BY <1>1, <2>2, <2>3
  <2>5. PICK m \in G : FillsPlace(dist, m, h)
    BY <2>4 DEF AreGaps
  <2>6. g \in Nat /\ h \in Nat /\ m \in Nat /\ m < h
    BY <1>1, <2>4, <2>5 DEF FillsPlace
  <2>7. CASE m = g
    <3>1. h \in (g + 1)..h
      BY <2>3, <2>6
    <3> QED BY <2>3, <2>5, <2>7, <3>1
  <2>8. CASE g < m
    <3>1. m \notin T
      BY <2>2, <2>6
    <3>2. PICK j \in (g + 1)..m : FillsPlace(dist, g, j)
      BY <2>8, <3>1
    <3>3. j \in (g + 1)..h
      BY <2>6
    <3> QED BY <2>3, <3>2, <3>3
  <2>9. CASE m < g
    <3>1. g \notin T
      BY <2>2, <2>3, <2>6
    <3>2. PICK j \in (m + 1)..g : FillsPlace(dist, m, j)
      BY <2>9, <3>1
    <3>3. j \in (m + 1)..(h - 1) /\ j \in Nat /\ j \in 0..len
      BY <1>1, <2>3, <2>4, <2>6
    <3>4. dist[j] \in Nat /\ dist[j] < j - m /\ dist[j] >= j - m
      BY <2>5, <3>2, <3>3 DEF FillsPlace
    <3> QED BY <2>6, <3>3, <3>4
  <2> QED BY <2>6, <2>7, <2>8, <2>9
<1>3. g2 \notin T
  BY <1>2
<1> QED
  BY <1>3

\* No entry fills two gaps.
LEMMA EntriesMoveOnce ==
    ASSUME NEW len \in Nat, NEW dist, \A j \in 0..len : dist[j] \in Nat, NEW G, AreGaps(dist, len, G),
           NEW g1 \in G, NEW g2 \in G, NEW i \in 0..len,
           FillsPlace(dist, g1, i), FillsPlace(dist, g2, i)
    PROVE  g1 = g2
<1>1. ASSUME NEW a \in G, NEW b \in G, a < b, FillsPlace(dist, a, i), FillsPlace(dist, b, i)
      PROVE  FALSE
  <2>1. PICK j \in (a + 1)..b : FillsPlace(dist, a, j)
    BY <1>1, GapsAreFilled
  <2>2. a \in Nat /\ b \in Nat /\ b < i /\ i \in Nat
    BY <1>1 DEF AreGaps, FillsPlace
  <2>3. j \in (a + 1)..(i - 1) /\ j \in 0..len
    BY <2>2
  <2>4. dist[j] \in Nat /\ dist[j] < j - a /\ dist[j] >= j - a
    BY <1>1, <2>1, <2>3 DEF FillsPlace
  <2> QED BY <2>2, <2>3, <2>4
<1>2. g1 \in Nat /\ g2 \in Nat
  BY DEF AreGaps
<1>3. g1 < g2 \/ g2 < g1 \/ g1 = g2
  BY <1>2
<1> QED
  BY <1>1, <1>3

\* When an entry behind a gap could move there, the gap is filled.
LEMMA GapIsFilled ==
    ASSUME NEW len \in Nat, NEW dist, \A j \in 0..len : dist[j] \in Nat,
           NEW g \in 0..len, NEW i \in 0..len, g < i, dist[i] >= i - g
    PROVE  \E j \in (g + 1)..i : FillsPlace(dist, g, j)
<1> DEFINE T == {j \in (g + 1)..i : dist[j] >= j - g}
<1>1. T \subseteq Nat /\ i \in T
  OBVIOUS
<1>2. PICK j \in T : \A m \in T : j <= m
  <2> HIDE DEF T
  <2> QED BY <1>1, SmallestElement
<1>3. j \in (g + 1)..i /\ dist[j] >= j - g /\ g < j
  BY <1>2
<1>4. ASSUME NEW m \in (g + 1)..(j - 1)
      PROVE  dist[m] < m - g
  <2>1. m \in (g + 1)..i /\ m \in 0..len /\ ~ (j <= m) /\ dist[m] \in Nat /\ m - g \in Nat
    BY <1>3
  <2>2. ~ (dist[m] >= m - g)
    BY <1>2, <2>1
  <2> QED BY <2>1, <2>2
<1> QED
  BY <1>3, <1>4 DEF FillsPlace

\* The table u holds at each place what t held there or, where a gap was, the
\* entry that moved; the entry of place 0 is gone.
Shifted(N, t, s, len, dist, G, u) ==
    /\ IsTable(N, u)
    /\ \A p \in 0..(N - 1) :
          \/ p \notin G /\ u[Ahead(N, s, p)] = t[Ahead(N, s, p)]
          \/ /\ p \in G
             /\ \A j \in (p + 1)..len : ~ FillsPlace(dist, p, j)
             /\ u[Ahead(N, s, p)] = Empty
          \/ \E i \in (p + 1)..len :
                p \in G /\ FillsPlace(dist, p, i) /\ u[Ahead(N, s, p)] = t[Ahead(N, s, i)]

\* The chain of a sound table that is at most half full: entries from place 0 to
\* place len, which are dist steps behind their homes, and a free slot.
IsChain(h, N, t, s, len, dist) ==
    /\ s \in 0..(N - 1)
    /\ len \in Nat
    /\ len + 1 <= N \div 2
    /\ \A i \in 0..len : t[Ahead(N, s, i)].key # NULL
    /\ t[Ahead(N, s, len + 1)].key = NULL
    /\ \A i \in 0..(N - 1) : t[Ahead(N, s, i)].key # NULL =>
          /\ dist[i] \in 0..(N \div 2 - 1)
          /\ ReachedIn(h, N, t, t[Ahead(N, s, i)].key, Ahead(N, s, i), dist[i])

\* Place p holds after the removal what place i held before.
Moved(len, dist, G, p, i) ==
    \/ p \notin G /\ i = p
    \/ p \in G /\ i \in (p + 1)..len /\ FillsPlace(dist, p, i)

\* What the proofs about u have in common.
LEMMA ShiftFacts ==
    ASSUME NEW h, NEW N, NEW t, Sound(h, N, t), NEW s, NEW len, NEW dist, NEW G, NEW u,
           IsChain(h, N, t, s, len, dist), AreGaps(dist, len, G), Shifted(N, t, s, len, dist, G, u)
    PROVE  /\ N \in Nat /\ len \in 0..(N - 1) /\ G \subseteq 0..len /\ 0 \in G
           /\ N \div 2 \in Nat /\ 2 * (N \div 2) <= N
           /\ \A j \in 0..len : j \in 0..(N - 1) /\ dist[j] \in Nat
           /\ \A i \in 0..(N - 1) : Ahead(N, s, i) \in 0..(N - 1)
           /\ \A a \in 0..(N - 1) : \E p \in 0..(N - 1) : a = Ahead(N, s, p)
           /\ \A i, j \in 0..(N - 1) : Ahead(N, s, i) = Ahead(N, s, j) => i = j
           /\ \A p \in 0..(N - 1) : u[Ahead(N, s, p)].key # NULL =>
                 \E i \in 0..(N - 1) : /\ Moved(len, dist, G, p, i) /\ p <= i /\ i # 0
                                       /\ u[Ahead(N, s, p)] = t[Ahead(N, s, i)]
           /\ \A p, q, i \in 0..(N - 1) :
                 Moved(len, dist, G, p, i) /\ Moved(len, dist, G, q, i) => p = q
           /\ \A p, i \in 0..(N - 1) :
                 Moved(len, dist, G, p, i) => u[Ahead(N, s, p)] = t[Ahead(N, s, i)]
           /\ \A i \in 1..(N - 1) : \E p \in 0..(N - 1) : Moved(len, dist, G, p, i)
<1>1. /\ N \in Nat /\ N \div 2 \in Nat /\ 2 * (N \div 2) <= N
      /\ s \in 0..(N - 1) /\ len \in Nat /\ len + 1 <= N \div 2
  BY Halves DEF Sound, IsTable, IsChain
<1> DEFINE half == N \div 2
<1>2. half \in Nat /\ 2 * half <= N /\ len + 1 <= half
  BY <1>1
<1> HIDE DEF half
<1>3. len \in 0..(N - 1) /\ G \subseteq 0..len /\ 0 \in G /\ \A j \in 0..len : j \in 0..(N - 1)
  BY <1>1, <1>2 DEF AreGaps
<1>4. \A j \in 0..len : dist[j] \in Nat
  <2>1. \A j \in 0..len : dist[j] \in 0..(half - 1)
    BY <1>3 DEF IsChain, half
  <2> QED BY <1>2, <2>1
<1>5. /\ \A i \in 0..(N - 1) : Ahead(N, s, i) \in 0..(N - 1)
      /\ \A a \in 0..(N - 1) : \E p \in 0..(N - 1) : a = Ahead(N, s, p)
      /\ \A i, j \in 0..(N - 1) : Ahead(N, s, i) = Ahead(N, s, j) => i = j
  <2>1. \A i \in 0..(N - 1) :
            /\ Ahead(N, s, i) \in 0..(N - 1) /\ Back(N, Ahead(N, s, i), s) = i
            /\ Back(N, i, s) \in 0..(N - 1) /\ Ahead(N, s, Back(N, i, s)) = i
    BY <1>1, Around
  <2> QED BY <2>1
<1>6. \A g \in G : g \in 0..(N - 1) /\ g \in Nat
  BY <1>3
<1>7. ASSUME NEW p \in 0..(N - 1), u[Ahead(N, s, p)].key # NULL
      PROVE  \E i \in 0..(N - 1) : /\ Moved(len, dist, G, p, i) /\ p <= i /\ i # 0
                                   /\ u[Ahead(N, s, p)] = t[Ahead(N, s, i)]
  <2>1. CASE p \notin G /\ u[Ahead(N, s, p)] = t[Ahead(N, s, p)]
    BY <1>3, <2>1 DEF Moved
  <2>2. CASE \E i \in (p + 1)..len :
                p \in G /\ FillsPlace(dist, p, i) /\ u[Ahead(N, s, p)] = t[Ahead(N, s, i)]
    <3>1. PICK i \in (p + 1)..len :
                p \in G /\ FillsPlace(dist, p, i) /\ u[Ahead(N, s, p)] = t[Ahead(N, s, i)]
      BY <2>2
    <3>2. i \in 0..(N - 1) /\ p <= i /\ i # 0
      BY <1>1, <1>3
    <3> QED BY <3>1, <3>2 DEF Moved
  <2>3. u[Ahead(N, s, p)] # Empty
    BY <1>7, EntryShape
  <2> QED BY <2>1, <2>2, <2>3 DEF Shifted
<1>8. ASSUME NEW p \in 0..(N - 1), NEW q \in 0..(N - 1), NEW i \in 0..(N - 1),
             Moved(len, dist, G, p, i), Moved(len, dist, G, q, i)
      PROVE  p = q
  <2>1. ASSUME NEW g \in G, i \in (g + 1)..len, FillsPlace(dist, g, i)
        PROVE  i \in G
    <3>1. i \in 1..len
      BY <1>6, <2>1
    <3> QED BY <2>1, <3>1 DEF AreGaps
  <2>2. CASE p \in G /\ q \in G
    <3>1. /\ FillsPlace(dist, p, i) /\ FillsPlace(dist, q, i)
          /\ i \in (p + 1)..len
      BY <1>8, <2>2 DEF Moved
    <3>2. i \in 0..len
      BY <1>6, <2>2, <3>1
    <3> QED BY <1>1, <1>4, <2>2, <3>1, <3>2, EntriesMoveOnce
  <2>3. CASE ~ (p \in G /\ q \in G)
    BY <1>8, <2>1, <2>3 DEF Moved
  <2> QED BY <2>2, <2>3
<1>9. ASSUME NEW p \in 0..(N - 1), NEW i \in 0..(N - 1), Moved(len, dist, G, p, i)
      PROVE  u[Ahead(N, s, p)] = t[Ahead(N, s, i)]
  <2>1. CASE p \notin G
    BY <1>9, <2>1 DEF Moved, Shifted
  <2>2. CASE p \in G
    <3>1. i \in (p + 1)..len /\ FillsPlace(dist, p, i)
      BY <1>9, <2>2 DEF Moved
    <3>2. PICK j \in (p + 1)..len : FillsPlace(dist, p, j) /\ u[Ahead(N, s, p)] = t[Ahead(N, s, j)]
      BY <2>2, <3>1 DEF Shifted
    <3>3. i \in Int /\ j \in Int /\ p \in Int /\ i \in 0..len /\ j \in 0..len
      BY <1>1, <3>1
    <3>4. ~ (i < j)
      <4>1. i < j => i \in (p + 1)..(j - 1)
        BY <3>1, <3>3
      <4>2. i < j => dist[i] < i - p
        BY <3>2, <4>1 DEF FillsPlace
      <4>3. dist[i] >= i - p /\ dist[i] \in Nat
        BY <1>4, <3>1, <3>3 DEF FillsPlace
      <4> QED BY <3>3, <4>2, <4>3
    <3>5. ~ (j < i)
      <4>1. j < i => j \in (p + 1)..(i - 1)
        BY <3>2, <3>3
      <4>2. j < i => dist[j] < j - p
        BY <3>1, <4>1 DEF FillsPlace
      <4>3. dist[j] >= j - p /\ dist[j] \in Nat
        BY <1>4, <3>2, <3>3 DEF FillsPlace
      <4> QED BY <3>3, <4>2, <4>3
    <3> QED BY <3>2, <3>3, <3>4, <3>5
  <2> QED BY <2>1, <2>2
<1>10. ASSUME NEW i \in 1..(N - 1)
       PROVE  \E p \in 0..(N - 1) : Moved(len, dist, G, p, i)
  <2>1. CASE i \notin G
    BY <1>1, <2>1 DEF Moved
  <2>2. CASE i \in G
    <3>1. i \in 1..len
      BY <1>3, <2>2
    <3>2. PICK g \in G : FillsPlace(dist, g, i)
      BY <2>2, <3>1 DEF AreGaps
    <3>3. i \in (g + 1)..len /\ g \in 0..(N - 1)
      BY <1>6, <3>1, <3>2 DEF FillsPlace
    <3> QED BY <3>2, <3>3 DEF Moved
  <2> QED BY <2>1, <2>2
<1> QED
  BY <1>1, <1>3, <1>4, <1>5, <1>7, <1>8, <1>9, <1>10

\* Closing the gap removes one entry and no other.
LEMMA ShiftKeepsTheOthers ==
    ASSUME NEW h, NEW N, NEW t, Sound(h, N, t), NEW s, NEW len, NEW dist, NEW G, NEW u,
           IsChain(h, N, t, s, len, dist), AreGaps(dist, len, G), Shifted(N, t, s, len, dist, G, u)
    PROVE  /\ Distinct(N, u)
           /\ Entries(u) = Entries(t) \ {t[s]}
           /\ \A p \in 0..(N - 1) : u[Ahead(N, s, p)].key # NULL =>
                 \E i \in p..(N - 1) : u[Ahead(N, s, p)] = t[Ahead(N, s, i)]
<1>1. /\ N \in Nat
      /\ \A i \in 0..(N - 1) : Ahead(N, s, i) \in 0..(N - 1)
      /\ \A a \in 0..(N - 1) : \E p \in 0..(N - 1) : a = Ahead(N, s, p)
      /\ \A i, j \in 0..(N - 1) : Ahead(N, s, i) = Ahead(N, s, j) => i = j
  BY ShiftFacts
<1>2. /\ \A p \in 0..(N - 1) : u[Ahead(N, s, p)].key # NULL =>
            \E i \in 0..(N - 1) : /\ Moved(len, dist, G, p, i) /\ p <= i /\ i # 0
                                  /\ u[Ahead(N, s, p)] = t[Ahead(N, s, i)]
      /\ \A p, q, i \in 0..(N - 1) :
            Moved(len, dist, G, p, i) /\ Moved(len, dist, G, q, i) => p = q
  <2>1. \A p \in 0..(N - 1) : u[Ahead(N, s, p)].key # NULL =>
            \E i \in 0..(N - 1) : /\ Moved(len, dist, G, p, i) /\ p <= i /\ i # 0
                                  /\ u[Ahead(N, s, p)] = t[Ahead(N, s, i)]
    BY ShiftFacts
  <2>2. \A p, q, i \in 0..(N - 1) :
            Moved(len, dist, G, p, i) /\ Moved(len, dist, G, q, i) => p = q
    BY ShiftFacts
  <2> QED BY <2>1, <2>2
<1>3. /\ \A p, i \in 0..(N - 1) :
            Moved(len, dist, G, p, i) => u[Ahead(N, s, p)] = t[Ahead(N, s, i)]
      /\ \A i \in 1..(N - 1) : \E p \in 0..(N - 1) : Moved(len, dist, G, p, i)
  BY ShiftFacts
<1>4. /\ DOMAIN t = 0..(N - 1) /\ DOMAIN u = 0..(N - 1)
      /\ \A i \in 0..(N - 1) : t[i] \in Entry /\ u[i] \in Entry
  BY TableSize DEF Sound, Shifted, IsTable
<1>5. s \in 0..(N - 1) /\ Ahead(N, s, 0) = s /\ 0 \in 0..(N - 1)
  <2>1. s \in 0..(N - 1)
    BY DEF IsChain
  <2> QED BY <1>1, <2>1 DEF Ahead
<1>6. Distinct(N, u)
  <2>1. SUFFICES ASSUME NEW a \in 0..(N - 1), NEW b \in 0..(N - 1), u[a].key # NULL, u[a].key = u[b].key
                 PROVE  a = b
    BY DEF Distinct
  <2>2. PICK p \in 0..(N - 1), q \in 0..(N - 1) : a = Ahead(N, s, p) /\ b = Ahead(N, s, q)
    BY <1>1
  <2>3. PICK i \in 0..(N - 1) : Moved(len, dist, G, p, i) /\ u[a] = t[Ahead(N, s, i)]
    BY <1>2, <2>1, <2>2
  <2>4. PICK j \in 0..(N - 1) : Moved(len, dist, G, q, j) /\ u[b] = t[Ahead(N, s, j)]
    BY <1>2, <2>1, <2>2
  <2>5. i = j
    BY <1>1, <2>1, <2>3, <2>4 DEF Sound, Distinct
  <2> QED BY <1>2, <2>2, <2>3, <2>4, <2>5
<1>7. ASSUME NEW e \in Entries(u)
      PROVE  e \in Entries(t) \ {t[s]}
  <2>1. PICK p \in 0..(N - 1) : e = u[Ahead(N, s, p)] /\ e.key # NULL
    BY <1>1, <1>4, EntryShape DEF Entries
  <2>2. PICK i \in 0..(N - 1) : i # 0 /\ e = t[Ahead(N, s, i)]
    BY <1>2, <2>1
  <2>3. e \in Entries(t)
    BY <1>1, <1>4, <2>1, <2>2, EntryShape DEF Entries
  <2>4. e # t[s]
    BY <1>1, <1>5, <2>1, <2>2 DEF Sound, Distinct
  <2> QED BY <2>3, <2>4
<1>8. ASSUME NEW e \in Entries(t), e # t[s]
      PROVE  e \in Entries(u)
  <2>1. PICK i \in 0..(N - 1) : e = t[Ahead(N, s, i)]
    BY <1>1, <1>4 DEF Entries
  <2>2. i \in 1..(N - 1)
    BY <1>1, <1>5, <1>8, <2>1
  <2>3. PICK p \in 0..(N - 1) : Moved(len, dist, G, p, i)
    BY <1>3, <2>2
  <2>4. u[Ahead(N, s, p)] = e
    BY <1>3, <2>1, <2>3
  <2> QED BY <1>1, <1>4, <2>4 DEF Entries
<1>9. ASSUME NEW p \in 0..(N - 1), u[Ahead(N, s, p)].key # NULL
      PROVE  \E i \in p..(N - 1) : u[Ahead(N, s, p)] = t[Ahead(N, s, i)]
  <2>1. PICK i \in 0..(N - 1) : p <= i /\ u[Ahead(N, s, p)] = t[Ahead(N, s, i)]
    BY <1>2, <1>9
  <2>2. i \in p..(N - 1)
    BY <1>1, <2>1
  <2> QED BY <2>1, <2>2
<1> QED
  BY <1>6, <1>7, <1>8, <1>9

\* Every entry is reached after the gap was closed: it was not moved in front of
\* its home, and no slot between its home and its place was left free.
LEMMA ShiftKeepsWithinReach ==
    ASSUME NEW h, NEW N, NEW t, Sound(h, N, t), NEW s, NEW len, NEW dist, NEW G, NEW u,
           IsChain(h, N, t, s, len, dist), AreGaps(dist, len, G), Shifted(N, t, s, len, dist, G, u)
    PROVE  Reachable(h, N, u)
<1> DEFINE half == N \div 2
<1>1. /\ N \in Nat /\ len \in 0..(N - 1) /\ G \subseteq 0..len
      /\ half \in Nat /\ 2 * half <= N
      /\ \A j \in 0..len : j \in 0..(N - 1) /\ dist[j] \in Nat
      /\ \A i \in 0..(N - 1) : Ahead(N, s, i) \in 0..(N - 1)
      /\ \A a \in 0..(N - 1) : \E p \in 0..(N - 1) : a = Ahead(N, s, p)
  BY ShiftFacts
<1>2. \A p \in 0..(N - 1) : u[Ahead(N, s, p)].key # NULL =>
          \E i \in 0..(N - 1) : /\ Moved(len, dist, G, p, i) /\ p <= i /\ i # 0
                                /\ u[Ahead(N, s, p)] = t[Ahead(N, s, i)]
  BY ShiftFacts
<1> HIDE DEF half
<1>3. /\ s \in 0..(N - 1) /\ len \in Nat /\ len + 1 <= half
      /\ \A i \in 0..len : t[Ahead(N, s, i)].key # NULL
      /\ t[Ahead(N, s, len + 1)].key = NULL
      /\ \A i \in 0..(N - 1) : t[Ahead(N, s, i)].key # NULL =>
            /\ dist[i] \in 0..(half - 1)
            /\ ReachedIn(h, N, t, t[Ahead(N, s, i)].key, Ahead(N, s, i), dist[i])
  BY DEF IsChain, half
\* A place that is free now was free before, or is a gap that was not filled.
<1>4. ASSUME NEW q \in 0..(N - 1), u[Ahead(N, s, q)].key = NULL
      PROVE  \/ t[Ahead(N, s, q)].key = NULL
             \/ q \in G /\ \A j \in (q + 1)..len : ~ FillsPlace(dist, q, j)
  <2>1. CASE q \notin G /\ u[Ahead(N, s, q)] = t[Ahead(N, s, q)]
    BY <1>4, <2>1
  <2>2. CASE \E i \in (q + 1)..len :
                q \in G /\ FillsPlace(dist, q, i) /\ u[Ahead(N, s, q)] = t[Ahead(N, s, i)]
    <3>1. PICK i \in (q + 1)..len : u[Ahead(N, s, q)] = t[Ahead(N, s, i)]
      BY <2>2
    <3>2. i \in 0..len
      BY <1>3
    <3> QED BY <1>3, <1>4, <3>1, <3>2
  <2> QED BY <2>1, <2>2 DEF Shifted
<1>5. ASSUME NEW p \in 0..(N - 1), u[Ahead(N, s, p)].key # NULL
      PROVE  \E d \in 0..(half - 1) :
                 ReachedIn(h, N, u, u[Ahead(N, s, p)].key, Ahead(N, s, p), d)
  <2>1. PICK i \in 0..(N - 1) : /\ Moved(len, dist, G, p, i) /\ p <= i /\ i # 0
                                /\ u[Ahead(N, s, p)] = t[Ahead(N, s, i)]
    BY <1>2, <1>5
  <2> DEFINE k == u[Ahead(N, s, p)].key
             d == dist[i] - (i - p)
  <2>2. /\ dist[i] \in 0..(half - 1)
        /\ h[k] % N = Back(N, Ahead(N, s, i), dist[i])
        /\ \A l \in 1..dist[i] : t[Back(N, Ahead(N, s, i), l)].key # NULL
    BY <1>3, <1>5, <2>1 DEF ReachedIn
  <2>3. i = p \/ (p \in G /\ i \in (p + 1)..len /\ dist[i] >= i - p)
    BY <2>1 DEF Moved, FillsPlace
  <2>4. d \in 0..(half - 1) /\ dist[i] = d + (i - p) /\ i - p \in Nat
    BY <1>1, <2>1, <2>2, <2>3
  <2> HIDE DEF d, k
  <2>5. Back(N, Ahead(N, s, i), dist[i]) = Back(N, Ahead(N, s, p), d)
    BY <1>1, <1>3, <2>1, <2>2, <2>4 DEF Ahead, Back
  <2>6. ASSUME NEW l \in 1..d
        PROVE  u[Back(N, Ahead(N, s, p), l)].key # NULL
    <3> DEFINE q == Back(N, p, l)
    <3>1. /\ l \in Nat /\ l >= 1 /\ l < half
          /\ q \in 0..(N - 1) /\ Back(N, Ahead(N, s, p), l) = Ahead(N, s, q)
          /\ l + (i - p) \in 1..dist[i]
          /\ Back(N, Ahead(N, s, i), l + (i - p)) = Ahead(N, s, q)
      BY <1>1, <1>3, <2>1, <2>2, <2>4 DEF Ahead, Back
    <3>2. t[Ahead(N, s, q)].key # NULL
      BY <2>2, <3>1
    <3>3. SUFFICES ASSUME u[Ahead(N, s, q)].key = NULL
                   PROVE  FALSE
      BY <3>1
    <3>4. q \in G /\ \A j \in (q + 1)..len : ~ FillsPlace(dist, q, j)
      BY <1>4, <3>1, <3>2, <3>3
    <3>5. q \in 0..len /\ q = p - l
      <4>1. q \in 0..len
        BY <1>1, <3>4
      <4>2. q = p - l \/ q = p - l + N
        BY DEF Back
      <4>3. p \in Nat /\ p - l + N > len
        BY <1>1, <1>3, <3>1
      <4> QED BY <1>1, <4>1, <4>2, <4>3
    <3> HIDE DEF q
    <3>6. CASE i > len
      <4>1. i = p /\ q <= len /\ q = i - l
        BY <1>1, <2>3, <3>5, <3>1, <3>6
      <4>2. i # len + 1
        BY <1>3, <1>5, <2>1
      <4>3. i - (len + 1) \in 1..dist[i]
        BY <1>1, <2>4, <3>1, <3>6, <4>1, <4>2
      <4>4. Back(N, Ahead(N, s, i), i - (len + 1)) = Ahead(N, s, len + 1)
        BY <1>1, <1>3, <3>6, <4>2 DEF Ahead, Back
      <4> QED BY <1>3, <2>2, <4>3, <4>4
    <3>7. CASE i <= len
      <4>1. i \in 0..len /\ q < i /\ dist[i] >= i - q /\ len \in Nat
        BY <1>1, <2>1, <2>4, <3>1, <3>5, <3>7
      <4>2. PICK j \in (q + 1)..i : FillsPlace(dist, q, j)
        BY <1>1, <3>5, <4>1, GapIsFilled
      <4>3. j \in (q + 1)..len
        BY <1>1, <3>5, <4>1
      <4> QED BY <3>4, <4>2, <4>3
    <3> QED BY <1>1, <3>6, <3>7
  <2> QED BY <2>2, <2>4, <2>5, <2>6 DEF ReachedIn, k
<1>6. ASSUME NEW a \in 0..(N - 1), u[a].key # NULL
      PROVE  \E d \in 0..(half - 1) : ReachedIn(h, N, u, u[a].key, a, d)
  <2>1. PICK p \in 0..(N - 1) : a = Ahead(N, s, p)
    BY <1>1
  <2> QED BY <1>5, <1>6, <2>1
<1> QED
  BY <1>6 DEF Reachable, half

\* The chain behind an entry of a table that is at most half full ends at a free
\* slot within half of the table.
LEMMA ChainIs ==
    ASSUME NEW h, NEW N, NEW t, Sound(h, N, t), NEW s \in 0..(N - 1), t[s].key # NULL,
           2 * Cardinality(Entries(t)) <= N
    PROVE  /\ ChainLen(t, s) \in Nat
           /\ ChainLen(t, s) + 1 <= N \div 2
           /\ \A i \in 0..ChainLen(t, s) : t[Ahead(N, s, i)].key # NULL
           /\ t[Ahead(N, s, ChainLen(t, s) + 1)].key = NULL
<1> DEFINE half == N \div 2
           len == ChainLen(t, s)
           Ends(n) == n + 1 = N \/ t[Behind(t, s, n + 1)].key = NULL
           T == {n \in 0..(N - 1) : Ends(n)}
           Is(n) == (\A i \in 1..n : t[Behind(t, s, i)].key # NULL) /\ Ends(n)
<1>1. /\ IsTable(N, t) /\ N \in Nat /\ N > 0 /\ Size(t) = N /\ DOMAIN t = 0..(N - 1)
      /\ \A i \in 0..(N - 1) : t[i] \in Entry
      /\ half \in Nat /\ 2 * half <= N /\ N < 2 * half + 2
  <2>1. IsTable(N, t) /\ N \in Nat /\ \A i \in 0..(N - 1) : t[i] \in Entry
    BY DEF Sound, IsTable
  <2>2. N > 0 /\ Size(t) = N /\ DOMAIN t = 0..(N - 1)
    BY <2>1, TableSize
  <2>3. half \in Nat /\ 2 * half <= N /\ N < 2 * half + 2
    BY <2>1, Halves
  <2> QED BY <2>1, <2>2, <2>3
<1> HIDE DEF half
<1>2. \A i \in 0..(N - 1) : Behind(t, s, i) = Ahead(N, s, i)
  BY <1>1, Circle DEF Behind
<1>3. \E n \in 0..(N - 1) : Is(n)
  <2>1. T \subseteq Nat /\ N - 1 \in T
    BY <1>1
  <2>2. PICK n \in T : \A m \in T : n <= m
    <3> HIDE DEF T
    <3> QED BY <2>1, SmallestElement
  <2>3. n \in 0..(N - 1) /\ Ends(n)
    BY <2>2
  <2>4. ASSUME NEW i \in 1..n
        PROVE  t[Behind(t, s, i)].key # NULL
    <3>1. i - 1 \in 0..(N - 1) /\ ~ (n <= i - 1) /\ (i - 1) + 1 = i
      BY <1>1, <2>3
    <3>2. ~ Ends(i - 1)
      BY <2>2, <3>1
    <3> QED BY <3>1, <3>2
  <2> QED BY <2>3, <2>4
<1>4. len \in 0..(N - 1) /\ Is(len)
  BY <1>1, <1>3 DEF ChainLen
<1> HIDE DEF len
<1>5. \A i \in 0..len : i \in 0..(N - 1) /\ Ahead(N, s, i) \in 0..(N - 1) /\ t[Ahead(N, s, i)].key # NULL
  <2>1. \A i \in 0..len : i \in 0..(N - 1) /\ (i = 0 \/ i \in 1..len)
    BY <1>1, <1>4
  <2>2. Ahead(N, s, 0) = s
    BY <1>1 DEF Ahead
  <2>3. ASSUME NEW i \in 0..len
        PROVE  Ahead(N, s, i) \in 0..(N - 1)
    BY <1>1, <2>1, Circle
  <2> QED BY <1>2, <1>4, <2>1, <2>2, <2>3
<1> DEFINE f == [i \in 0..len |-> t[Ahead(N, s, i)]]
<1>6. f \in Injection(0..len, Entries(t))
  <2>1. f \in [0..len -> Entries(t)]
    BY <1>1, <1>5, EntryShape DEF Entries
  <2>2. ASSUME NEW i \in 0..len, NEW j \in 0..len, f[i] = f[j]
        PROVE  i = j
    <3>1. Ahead(N, s, i) = Ahead(N, s, j)
      BY <1>5, <2>2 DEF Sound, Distinct
    <3> QED BY <1>1, <1>5, <3>1 DEF Ahead
  <2> HIDE DEF f
  <2> QED BY <2>1, <2>2 DEF Injection, IsInjective
<1>7. len + 1 <= half
  <2>1. IsFiniteSet(Entries(t)) /\ Cardinality(Entries(t)) \in Nat
    BY <1>1, EntriesAreTaken
  <2>2. Cardinality(0..len) <= Cardinality(Entries(t))
    <3> HIDE DEF f
    <3> QED BY <1>6, <2>1, FS_Injection
  <2>3. len \in Nat /\ 0 \in Int /\ len \in Int
    BY <1>1, <1>4
  <2>4. Cardinality(0..len) = IF 0 > len THEN 0 ELSE len - 0 + 1
    BY <2>3, FS_Interval
  <2>5. Cardinality(0..len) = len + 1
    BY <2>3, <2>4
  <2> QED BY <1>1, <2>1, <2>2, <2>3, <2>5
<1>8. t[Ahead(N, s, len + 1)].key = NULL
  <2>1. len \in Nat /\ len + 1 \in 0..(N - 1) /\ len + 1 # N
    BY <1>1, <1>4, <1>7
  <2> QED BY <1>2, <1>4, <2>1
<1> QED
  BY <1>4, <1>5, <1>7, <1>8, <1>1 DEF half, len

\* HASHMAP_INDEX_LE tells whether an entry of the chain may move to a place: its
\* home is not behind that place.
LEMMA MayFillIs ==
    ASSUME NEW N, NEW t, hash \in [Keys -> HashValues], Sound(hash, N, t), NEW s, NEW len, NEW dist,
           IsChain(hash, N, t, s, len, dist), NEW g \in 0..len, NEW i \in 0..len, g < i
    PROVE  MayFill(t, s, g, i) <=> dist[i] >= i - g
<1> DEFINE half == N \div 2
           k == t[Ahead(N, s, i)].key
           a == hash[k] % N
           b == Ahead(N, s, g)
<1>1. /\ N \in Nat /\ Size(t) = N /\ half \in Nat /\ 2 * half <= N
      /\ s \in 0..(N - 1) /\ len \in Nat /\ len + 1 <= half
  BY TableSize, Halves DEF Sound, IsTable, IsChain
<1>2. /\ dist[i] \in 0..(half - 1)
      /\ a = Back(N, Ahead(N, s, i), dist[i])
  <2>1. i \in 0..(N - 1) /\ k # NULL
    BY <1>1 DEF IsChain
  <2>2. dist[i] \in 0..(half - 1) /\ ReachedIn(hash, N, t, k, Ahead(N, s, i), dist[i])
    BY <2>1 DEF IsChain
  <2> QED BY <2>2 DEF ReachedIn
<1> HIDE DEF half, a, b
<1>3. g \in 0..(N - 1) /\ i \in 0..(N - 1) /\ g \in Nat /\ i \in Nat /\ N > 0
  BY <1>1
<1>4. Behind(t, s, g) = b /\ Behind(t, s, i) = Ahead(N, s, i) /\ b \in 0..(N - 1)
  <2>1. (s + g) % N = Ahead(N, s, g) /\ Ahead(N, s, g) \in 0..(N - 1)
    BY <1>1, <1>3, Around
  <2>2. (s + i) % N = Ahead(N, s, i)
    BY <1>1, <1>3, Around
  <2> QED BY <1>1, <2>1, <2>2 DEF Behind, b
<1>5. MayFill(t, s, g, i) <=> (b = a \/ (a - b) % N >= half)
  BY <1>1, <1>4 DEF MayFill, IndexLE, Home, a, half
<1>6. a \in 0..(N - 1)
  BY <1>1, <1>2, <1>3 DEF Ahead, Back
<1>7. (a - b) % N = IF a - b >= 0 THEN a - b ELSE a - b + N
  <2>1. a - b \in Int /\ (a - b >= 0 => a - b \in 0..(N - 1)) /\ (a - b < 0 => a - b \in (-N)..(-1))
    BY <1>1, <1>4, <1>6
  <2> QED BY <1>1, <1>3, <2>1, Wraps
<1>8. (b = a \/ (a - b) % N >= half) <=> dist[i] >= i - g
  <2> DEFINE e == Ahead(N, s, i)
             d == dist[i]
             m == (a - b) % N
  <2>1. e = s + i \/ e = s + i - N
    BY DEF Ahead
  <2>2. a = e - d \/ a = e - d + N
    BY <1>2 DEF Back
  <2>3. b = s + g \/ b = s + g - N
    BY DEF Ahead, b
  <2>4. (m = a - b \/ m = a - b + N) /\ m \in 0..(N - 1)
    BY <1>1, <1>4, <1>6, <1>7
  <2>5. d \in 0..(half - 1) /\ i <= len
    BY <1>1, <1>2
  <2> HIDE DEF e, d, m
  <2>6. (b = a \/ m >= half) <=> d >= i - g
    <3>1. d >= i - g => b = a \/ m >= half
      BY <1>1, <1>3, <1>4, <1>6, <2>1, <2>2, <2>3, <2>4, <2>5
    <3>2. d < i - g => b # a /\ m < half
      BY <1>1, <1>3, <1>4, <1>6, <2>1, <2>2, <2>3, <2>4, <2>5
    <3>3. d >= i - g \/ d < i - g
      BY <1>3, <1>1, <2>5
    <3>4. m >= half <=> ~ (m < half)
      BY <1>1, <2>4
    <3> QED BY <3>1, <3>2, <3>3, <3>4
  <2> QED BY <2>6 DEF d, m
<1> QED
  BY <1>5, <1>8

\* G are the gaps of EntryRemove, and what it puts into each slot.
IsGapsOf(G, N, t, s) ==
    LET len == ChainLen(t, s)
        fill(i) == {j \in (i + 1)..len : Fills(t, s, i, j)}
        After(i) == IF i > len \/ i \notin G THEN t[Behind(t, s, i)]
                    ELSE IF fill(i) = {} THEN Empty
                    ELSE t[Behind(t, s, CHOOSE j \in fill(i) : TRUE)]
    IN  /\ G \subseteq 0..len
        /\ \A i \in 0..len : i \in G <=> i = 0 \/ \E g \in 0..(i - 1) : Fills(t, s, g, i) /\ g \in G
        /\ EntryRemove(t, s) = [slot \in 0..(N - 1) |-> After((slot - s) % N)]

\* The recursive definition of the gaps in EntryRemove has a value.
LEMMA GapsExist ==
    ASSUME NEW N, NEW t, IsTable(N, t), NEW s \in 0..(N - 1), ChainLen(t, s) \in Nat
    PROVE  \E G : IsGapsOf(G, N, t, s)
<1> DEFINE len == ChainLen(t, s)
           Step(f, i) == i = 0 \/ \E g \in 0..(i - 1) : Fills(t, s, g, i) /\ f[g]
           IsGaps(f, n) == f = [i \in 0..n |-> Step(f, i)]
           T == {n \in 0..len : ~ \E f : IsGaps(f, n)}
<1>1. Size(t) = N /\ DOMAIN t = 0..(N - 1) /\ N \in Nat /\ len \in Nat
  BY TableSize DEF IsTable
<1>2. ASSUME T # {}
      PROVE  FALSE
  <2> HIDE DEF len
  <2>1. T \subseteq Nat
    BY <1>1
  <2>2. PICK m \in T : \A n \in T : m <= n
    <3> HIDE DEF T
    <3> QED BY <1>2, <2>1, SmallestElement
  <2>3. m \in 0..len /\ m \in Nat
    BY <1>1, <2>2
  <2>4. m # 0
    <3> DEFINE f == [i \in 0..0 |-> TRUE]
    <3>1. \A i \in 0..0 : Step(f, i) = TRUE
      OBVIOUS
    <3>2. IsGaps(f, 0)
      <4> HIDE DEF Step
      <4> QED BY <3>1
    <3> HIDE DEF f, IsGaps
    <3> QED BY <2>2, <3>2
  <2>5. m - 1 \in 0..len /\ ~ (m <= m - 1)
    BY <1>1, <2>3, <2>4
  <2>6. m - 1 \notin T
    <3> HIDE DEF T
    <3> QED BY <2>2, <2>5
  <2>7. PICK f : IsGaps(f, m - 1)
    <3> HIDE DEF IsGaps
    <3> QED BY <2>5, <2>6
  <2> DEFINE g == [i \in 0..m |-> IF i = m THEN Step(f, m) ELSE f[i]]
  <2>8. g[m] = Step(f, m) /\ \A i \in 0..(m - 1) : g[i] = f[i] /\ f[i] = Step(f, i)
    <3>1. \A i \in 0..(m - 1) : i \in 0..m /\ i # m
      BY <2>3
    <3>2. \A i \in 0..(m - 1) : f[i] = Step(f, i)
      <4> HIDE DEF Step
      <4> QED BY <2>7
    <3> HIDE DEF Step
    <3> QED BY <2>3, <3>1, <3>2
  <2>9. ASSUME NEW i \in 0..m
        PROVE  g[i] = Step(g, i)
    <3>1. \A j \in 0..(i - 1) : j \in 0..(m - 1)
      BY <2>3
    <3>2. Step(g, i) = Step(f, i)
      <4>1. \A j \in 0..(i - 1) : g[j] = f[j]
        BY <2>8, <3>1
      <4> HIDE DEF g
      <4> QED BY <4>1
    <3>3. i = m \/ i \in 0..(m - 1)
      BY <2>3
    <3> HIDE DEF Step, g
    <3> QED BY <2>8, <3>2, <3>3
  <2>10. g = [i \in 0..m |-> g[i]]
    OBVIOUS
  <2>11. IsGaps(g, m)
    <3> HIDE DEF Step, g
    <3> QED BY <2>9, <2>10
  <2> HIDE DEF IsGaps, g
  <2> QED BY <2>2, <2>11
<1>3. \E f : IsGaps(f, len)
  <2> HIDE DEF IsGaps, len
  <2>1. len \in 0..len
    BY <1>1
  <2> QED BY <1>2, <2>1
<1> DEFINE gap == CHOOSE f : IsGaps(f, len)
<1>4. IsGaps(gap, len)
  <2> HIDE DEF IsGaps, len
  <2> QED BY <1>3
<1> DEFINE G == {i \in 0..len : gap[i]}
           fill(i) == {j \in (i + 1)..len : Fills(t, s, i, j)}
           After(i) == IF i > len \/ ~ gap[i] THEN t[Behind(t, s, i)]
                       ELSE IF fill(i) = {} THEN Empty
                       ELSE t[Behind(t, s, CHOOSE j \in fill(i) : TRUE)]
<1>5. EntryRemove(t, s) = [slot \in 0..(N - 1) |-> After((slot - s) % N)]
  <2>1. EntryRemove(t, s) = [slot \in DOMAIN t |-> After((slot - s) % Size(t))]
    BY DEF EntryRemove
  <2> HIDE DEF After
  <2> QED BY <1>1, <2>1
<1>6. \A i \in 0..len : i \in G <=> i = 0 \/ \E g \in 0..(i - 1) : Fills(t, s, g, i) /\ g \in G
  <2>1. \A i \in 0..len : gap[i] = Step(gap, i)
    <3> HIDE DEF gap, Step, len
    <3> QED BY <1>4
  <2>2. \A i \in 0..len : \A g \in 0..(i - 1) : g \in 0..len
    BY <1>1
  <2> HIDE DEF gap, len
  <2> QED BY <2>1, <2>2
<1> DEFINE AfterG(i) == IF i > len \/ i \notin G THEN t[Behind(t, s, i)]
                        ELSE IF fill(i) = {} THEN Empty
                        ELSE t[Behind(t, s, CHOOSE j \in fill(i) : TRUE)]
<1>7. ASSUME NEW slot \in 0..(N - 1)
      PROVE  After((slot - s) % N) = AfterG((slot - s) % N)
  <2> DEFINE i == (slot - s) % N
  <2>1. i > len \/ i \notin G <=> i > len \/ ~ gap[i]
    <3>1. i \in Nat
      BY <1>1, Wraps
    <3> HIDE DEF gap, i, len
    <3> QED BY <1>1, <3>1
  <2> HIDE DEF gap, G, i
  <2> QED BY <2>1 DEF i
<1>8. G \subseteq 0..len
  <2> HIDE DEF len
  <2> QED OBVIOUS
<1>9. EntryRemove(t, s) = [slot \in 0..(N - 1) |-> AfterG((slot - s) % N)]
  <2> HIDE DEF After, AfterG
  <2> QED BY <1>5, <1>7
<1> HIDE DEF G, gap
<1> QED
  BY <1>6, <1>8, <1>9 DEF IsGapsOf

\* hashmap_entry_remove keeps every other entry of a table that is at most half
\* full, and keeps it where it is found; no entry moves away from the gap.
LEMMA RemovalIsSound ==
    ASSUME NEW N, NEW t, hash \in [Keys -> HashValues], Sound(hash, N, t),
           NEW s \in 0..(N - 1), t[s].key # NULL, 2 * Cardinality(Entries(t)) <= N
    PROVE  /\ Sound(hash, N, EntryRemove(t, s))
           /\ Entries(EntryRemove(t, s)) = Entries(t) \ {t[s]}
           /\ \A p \in 0..(N - 1) : EntryRemove(t, s)[Ahead(N, s, p)].key # NULL =>
                 \E i \in p..(N - 1) : EntryRemove(t, s)[Ahead(N, s, p)] = t[Ahead(N, s, i)]
<1> DEFINE half == N \div 2
           len == ChainLen(t, s)
           u == EntryRemove(t, s)
           dist == [i \in 0..(N - 1) |-> CHOOSE d \in 0..(half - 1) :
                       ReachedIn(hash, N, t, t[Ahead(N, s, i)].key, Ahead(N, s, i), d)]
<1>1. /\ IsTable(N, t) /\ N \in Nat /\ N > 0 /\ Size(t) = N
      /\ \A i \in 0..(N - 1) : t[i] \in Entry
  <2>1. IsTable(N, t) /\ N \in Nat /\ \A i \in 0..(N - 1) : t[i] \in Entry
    BY DEF Sound, IsTable
  <2>2. N > 0 /\ Size(t) = N
    BY <2>1, TableSize
  <2> QED BY <2>1, <2>2
<1>2. half \in Nat /\ 2 * half <= N
  BY <1>1, Halves
<1>3. /\ len \in Nat /\ len + 1 <= half
      /\ \A i \in 0..len : t[Ahead(N, s, i)].key # NULL
      /\ t[Ahead(N, s, len + 1)].key = NULL
  BY ChainIs
<1>4. IsChain(hash, N, t, s, len, dist)
  <2>1. ASSUME NEW i \in 0..(N - 1), t[Ahead(N, s, i)].key # NULL
        PROVE  /\ dist[i] \in 0..(half - 1)
               /\ ReachedIn(hash, N, t, t[Ahead(N, s, i)].key, Ahead(N, s, i), dist[i])
    <3>1. Ahead(N, s, i) \in 0..(N - 1)
      BY <1>1, Circle
    <3>2. \E d \in 0..(half - 1) : ReachedIn(hash, N, t, t[Ahead(N, s, i)].key, Ahead(N, s, i), d)
      BY <2>1, <3>1 DEF Sound, Reachable
    <3> HIDE DEF half
    <3> QED BY <3>2
  <2> HIDE DEF dist, len
  <2> QED BY <1>3, <2>1 DEF IsChain
<1>5. PICK G : IsGapsOf(G, N, t, s)
  <2> HIDE DEF half, u, dist
  <2> QED BY <1>1, <1>3, GapsExist
<1> DEFINE fill(i) == {j \in (i + 1)..len : Fills(t, s, i, j)}
           After(i) == IF i > len \/ i \notin G THEN t[Behind(t, s, i)]
                       ELSE IF fill(i) = {} THEN Empty
                       ELSE t[Behind(t, s, CHOOSE j \in fill(i) : TRUE)]
<1>6. /\ G \subseteq 0..len
      /\ \A i \in 0..len : i \in G <=> i = 0 \/ \E g \in 0..(i - 1) : Fills(t, s, g, i) /\ g \in G
  BY <1>5 DEF IsGapsOf
<1>7. u = [slot \in 0..(N - 1) |-> u[slot]] /\ \A slot \in 0..(N - 1) : u[slot] = After((slot - s) % N)
  <2>1. u = [slot \in 0..(N - 1) |-> After((slot - s) % N)]
    BY <1>5 DEF IsGapsOf
  <2> HIDE DEF After, u
  <2> QED BY <2>1
<1> HIDE DEF fill, After
<1> HIDE DEF half, len, u, dist
<1>8. ASSUME NEW g \in 0..len, NEW i \in 0..len, g < i
      PROVE  Fills(t, s, g, i) <=> FillsPlace(dist, g, i)
  <2>1. MayFill(t, s, g, i) <=> dist[i] >= i - g
    BY <1>4, <1>8, MayFillIs
  <2>2. ASSUME NEW j \in (g + 1)..(i - 1)
        PROVE  MayFill(t, s, g, j) <=> ~ (dist[j] < j - g)
    <3>1. j \in 0..len /\ g < j /\ j - g \in Int
      BY <1>3
    <3>2. MayFill(t, s, g, j) <=> dist[j] >= j - g
      BY <1>4, <3>1, MayFillIs
    <3>3. dist[j] \in Nat
      <4>1. j \in 0..(N - 1) /\ t[Ahead(N, s, j)].key # NULL
        BY <1>1, <1>2, <1>3, <3>1
      <4>2. dist[j] \in 0..(half - 1)
        BY <1>4, <4>1 DEF IsChain, half
      <4> QED BY <1>2, <4>2
    <3> QED BY <3>1, <3>2, <3>3
  <2> QED BY <1>8, <2>1, <2>2 DEF Fills, FillsPlace
<1>9. AreGaps(dist, len, G)
  <2>1. 0 \in G
    BY <1>3, <1>6
  <2>2. ASSUME NEW i \in 1..len
        PROVE  i \in G <=> \E g \in G : FillsPlace(dist, g, i)
    <3>1. i \in 0..len /\ i # 0 /\ i \in Nat
      BY <1>3
    <3>2. \A g \in 0..(i - 1) : g \in 0..len /\ g < i
      BY <1>3, <3>1
    <3>3. \A g \in G : FillsPlace(dist, g, i) => g \in 0..(i - 1)
      BY <1>3, <1>6, <3>1 DEF FillsPlace
    <3>4. ASSUME i \in G
          PROVE  \E g \in G : FillsPlace(dist, g, i)
      <4>1. PICK g \in 0..(i - 1) : Fills(t, s, g, i) /\ g \in G
        BY <1>6, <3>1, <3>4
      <4> QED BY <1>8, <3>1, <3>2, <4>1
    <3>5. ASSUME NEW g \in G, FillsPlace(dist, g, i)
          PROVE  i \in G
      <4>1. g \in 0..(i - 1) /\ g \in 0..len /\ g < i
        BY <3>2, <3>3, <3>5
      <4>2. Fills(t, s, g, i)
        BY <1>8, <3>1, <3>5, <4>1
      <4> QED BY <1>6, <3>1, <4>1, <4>2
    <3> QED BY <3>4, <3>5
  <2> QED BY <1>6, <2>1, <2>2 DEF AreGaps
<1>10. \A i \in 0..(N - 1) : /\ Behind(t, s, i) = Ahead(N, s, i)
                            /\ Ahead(N, s, i) \in 0..(N - 1)
                            /\ (Ahead(N, s, i) - s) % N = i
  <2> TAKE i \in 0..(N - 1)
  <2>1. (s + i) % N = Ahead(N, s, i) /\ Ahead(N, s, i) \in 0..(N - 1) /\ Back(N, Ahead(N, s, i), s) = i
    BY <1>1, Around
  <2>2. (Ahead(N, s, i) - s) % N = Back(N, Ahead(N, s, i), s)
    BY <1>1, <2>1, Circle
  <2> QED BY <1>1, <2>1, <2>2 DEF Behind
<1>11. Shifted(N, t, s, len, dist, G, u)
  <2>1. ASSUME NEW p \in 0..(N - 1)
        PROVE  \/ p \notin G /\ u[Ahead(N, s, p)] = t[Ahead(N, s, p)]
               \/ /\ p \in G
                  /\ \A j \in (p + 1)..len : ~ FillsPlace(dist, p, j)
                  /\ u[Ahead(N, s, p)] = Empty
               \/ \E i \in (p + 1)..len :
                     p \in G /\ FillsPlace(dist, p, i) /\ u[Ahead(N, s, p)] = t[Ahead(N, s, i)]
    <3>1. u[Ahead(N, s, p)] = After(p)
      BY <1>7, <1>10
    <3>2. p > len => p \notin G
      BY <1>3, <1>6
    <3>3. CASE p \notin G
      BY <1>10, <3>1, <3>3 DEF After
    <3>4. CASE p \in G
      <4>1. p \in 0..len /\ ~ (p > len \/ p \notin G)
        BY <1>6, <3>2, <3>4
      <4>2. \A j \in (p + 1)..len : j \in 0..len /\ p < j /\ j \in 0..(N - 1)
        BY <1>1, <1>2, <1>3
      <4>3. \A j \in (p + 1)..len : Fills(t, s, p, j) <=> FillsPlace(dist, p, j)
        BY <1>8, <4>1, <4>2
      <4>4. CASE fill(p) = {}
        BY <3>1, <3>4, <4>1, <4>3, <4>4 DEF After, fill
      <4>5. CASE fill(p) # {}
        <5>1. PICK j \in fill(p) : u[Ahead(N, s, p)] = t[Behind(t, s, j)]
          BY <3>1, <4>1, <4>5 DEF After
        <5>2. j \in (p + 1)..len /\ FillsPlace(dist, p, j)
          <6>1. j \in (p + 1)..len /\ Fills(t, s, p, j)
            BY DEF fill
          <6> QED BY <4>3, <6>1
        <5>3. u[Ahead(N, s, p)] = t[Ahead(N, s, j)]
          BY <1>10, <4>2, <5>1, <5>2
        <5> QED BY <3>4, <5>2, <5>3
      <4> QED BY <4>4, <4>5
    <3> QED BY <3>3, <3>4
  <2>2. \A a \in 0..(N - 1) : \E p \in 0..(N - 1) : a = Ahead(N, s, p)
    <3>1. \A a \in 0..(N - 1) : Back(N, a, s) \in 0..(N - 1) /\ Ahead(N, s, Back(N, a, s)) = a
      BY <1>1, Around
    <3> QED BY <3>1
  <2>3. \A p \in 0..(N - 1) : u[Ahead(N, s, p)] \in Entry
    <3> TAKE p \in 0..(N - 1)
    <3>1. \A j \in (p + 1)..len : j \in 0..(N - 1)
      BY <1>1, <1>2, <1>3
    <3> QED BY <1>1, <1>10, <2>1, <3>1, EntryShape
  <2>4. \A a \in 0..(N - 1) : u[a] \in Entry
    BY <2>2, <2>3
  <2>5. u \in [0..(N - 1) -> Entry]
    BY <1>7, <2>4
  <2> QED BY <1>1, <2>1, <2>5 DEF Shifted, IsTable
<1>12. Distinct(N, u) /\ Entries(u) = Entries(t) \ {t[s]}
  BY <1>4, <1>9, <1>11, ShiftKeepsTheOthers
<1>13. \A p \in 0..(N - 1) : u[Ahead(N, s, p)].key # NULL =>
           \E i \in p..(N - 1) : u[Ahead(N, s, p)] = t[Ahead(N, s, i)]
  BY <1>4, <1>9, <1>11, ShiftKeepsTheOthers
<1>14. Reachable(hash, N, u)
  BY <1>4, <1>9, <1>11, ShiftKeepsWithinReach
<1>15. Sound(hash, N, u)
  BY <1>11, <1>12, <1>14 DEF Sound, Shifted
<1> QED
  BY <1>12, <1>13, <1>15 DEF u

-----------------------------------------------------------------------------
(* The table of a put.                                                      *)

LEMMA GrownIsSound ==
    ASSUME NEW N, NEW t, N > 0, hash \in [Keys -> HashValues], Sound(hash, N, t),
           NEW memory \in BOOLEAN
    PROVE  \E M \in Nat : /\ M >= N /\ (memory => M = 2 * N)
                          /\ Sound(hash, M, Grown(t, memory))
                          /\ Entries(Grown(t, memory)) = Entries(t)
<1>1. N \in Nat /\ Size(t) = N
  <2>1. IsTable(N, t)
    BY DEF Sound
  <2> QED BY <2>1, TableSize DEF IsTable
<1>2. /\ Sound(hash, 2 * N, Rehash(t, 2 * N))
      /\ Entries(Rehash(t, 2 * N)) = Entries(t)
      /\ Rehash(t, 2 * N) # <<>>
  BY RehashIsSound
<1>3. Grown(t, memory) = IF memory THEN Rehash(t, 2 * N) ELSE t
  BY <1>1, <1>2 DEF Grown
<1>4. CASE memory
  <2>1. 2 * N \in Nat /\ 2 * N >= N
    BY <1>1
  <2> QED BY <1>2, <1>3, <1>4, <2>1
<1>5. CASE ~ memory
  <2>1. N >= N
    BY <1>1
  <2> QED BY <1>1, <1>3, <1>5, <2>1
<1> QED
  BY <1>4, <1>5

LEMMA TableForIsSound ==
    ASSUME NEW N, N > 0, hash \in [Keys -> HashValues], Sound(hash, N, table),
           NEW k, NEW memory1 \in BOOLEAN, NEW memory2 \in BOOLEAN
    PROVE  \E M \in Nat : /\ M >= N
                          /\ Sound(hash, M, TableFor(k, memory1, memory2))
                          /\ Entries(TableFor(k, memory1, memory2)) = Entries(table)
<1> DEFINE t1 == IF MustGrow(table, num_entries) THEN Grown(table, memory1) ELSE table
<1>1. N \in Nat
  BY DEF Sound, IsTable
<1>2. PICK M \in Nat : M >= N /\ Sound(hash, M, t1) /\ Entries(t1) = Entries(table)
  <2>1. \E M \in Nat : /\ M >= N /\ Sound(hash, M, Grown(table, memory1))
                       /\ Entries(Grown(table, memory1)) = Entries(table)
    BY GrownIsSound
  <2>2. N >= N
    BY <1>1
  <2> QED BY <1>1, <2>1, <2>2
<1>3. TableFor(k, memory1, memory2) = IF EntryFind(t1, k) = NULL THEN Grown(t1, memory2) ELSE t1
  BY DEF TableFor
<1> HIDE DEF t1
<1>4. M > 0
  BY <1>1, <1>2
<1>5. PICK L \in Nat : /\ L >= M /\ Sound(hash, L, Grown(t1, memory2))
                       /\ Entries(Grown(t1, memory2)) = Entries(t1)
  BY <1>2, <1>4, GrownIsSound
<1>6. L >= N
  BY <1>1, <1>2, <1>5
<1> QED
  BY <1>2, <1>3, <1>5, <1>6

\* A table that may grow has a slot for every name: when the names around its
\* home take half of the table, the next table has room.
LEMMA ThereIsASlot ==
    ASSUME NEW N, N > 0, hash \in [Keys -> HashValues], Sound(hash, N, table), NEW k \in Keys,
           num_entries = Cardinality(Entries(table))
    PROVE  EntryFind(TableFor(k, TRUE, TRUE), k) # NULL
<1> DEFINE t1 == IF MustGrow(table, num_entries) THEN Grown(table, TRUE) ELSE table
           t2 == Grown(t1, TRUE)
           n == num_entries
<1>1. IsTable(N, table) /\ N \in Nat /\ Size(table) = N
  <2>1. IsTable(N, table)
    BY DEF Sound
  <2> QED BY <2>1, TableSize DEF IsTable
<1>2. n \in Nat /\ n <= N /\ n \div 3 \in Nat
  <2>1. n \in Nat /\ n <= N
    BY <1>1, EntriesAreTaken
  <2> HIDE DEF n
  <2> QED BY <2>1
<1>3. PICK M \in Nat :
          /\ Sound(hash, M, t1) /\ Entries(t1) = Entries(table)
          /\ (MustGrow(table, n) /\ M = 2 * N) \/ (~ MustGrow(table, n) /\ M = N)
  <2>1. CASE MustGrow(table, n)
    <3>1. \E M \in Nat : /\ M = 2 * N /\ Sound(hash, M, Grown(table, TRUE))
                         /\ Entries(Grown(table, TRUE)) = Entries(table)
      BY GrownIsSound
    <3> QED BY <2>1, <3>1
  <2>2. CASE ~ MustGrow(table, n)
    BY <1>1, <2>2
  <2> QED BY <2>1, <2>2
<1>4. TableFor(k, TRUE, TRUE) = IF EntryFind(t1, k) = NULL THEN t2 ELSE t1
  BY DEF TableFor
<1> HIDE DEF t1
<1>5. M > 0
  BY <1>1, <1>3
<1>6. SUFFICES ASSUME EntryFind(t1, k) = NULL, EntryFind(t2, k) = NULL
               PROVE  FALSE
  <2>1. EntryFind(t1, k) # NULL => TableFor(k, TRUE, TRUE) = t1
    BY <1>4
  <2>2. EntryFind(t1, k) = NULL => TableFor(k, TRUE, TRUE) = t2
    BY <1>4
  <2> HIDE DEF t2
  <2> QED BY <2>1, <2>2
<1>7. \E L \in Nat : L = 2 * M /\ Sound(hash, L, t2) /\ Entries(t2) = Entries(t1)
  BY <1>3, <1>5, GrownIsSound
<1> HIDE DEF t2
<1>8. Sound(hash, 2 * M, t2) /\ Entries(t2) = Entries(table)
  BY <1>3, <1>7
<1>9. M \div 2 <= n
  BY <1>3, <1>5, <1>6, NoSlotMeansHalfFull
<1>10. M <= n
  <2>1. 2 * M > 0 /\ (2 * M) \div 2 = M
    BY <1>3, <1>5
  <2>2. (2 * M) \div 2 <= Cardinality(Entries(t2))
    BY <1>6, <1>8, <2>1, NoSlotMeansHalfFull
  <2> QED BY <1>8, <2>1, <2>2
<1>11. ~ MustGrow(table, n) => N > n + n \div 3
  BY <1>1, <1>2 DEF MustGrow, MinSize
<1> HIDE DEF n
<1> QED
  BY <1>1, <1>2, <1>3, <1>10, <1>11

-----------------------------------------------------------------------------
(* The invariant.                                                           *)

\* The table is sound, num_entries counts its entries, and of the names of its
\* entries there is one copy each.
MapInv ==
    /\ hash \in [Keys -> HashValues]
    /\ \E N \in Nat : Sound(hash, N, table)
    /\ num_entries = Cardinality(Entries(table))
    /\ copies = [k \in Keys |-> IF \E e \in Entries(table) : e.key = k THEN 1 ELSE 0]
    /\ victims \subseteq Keys

\* The slots that the iterator has passed, all of them when it is done, hold none
\* of the names that the loop removes; a loop runs in a sparse table only.
LoopInv ==
    /\ Idle => \A i \in DOMAIN table : table[i].key \notin victims
    /\ ~ Idle => /\ iter \in DOMAIN table
                 /\ table[iter].key # NULL
                 /\ Sparse
                 /\ \A i \in DOMAIN table : i < iter => table[i].key \notin victims

HashmapInv == MapInv /\ LoopInv

-----------------------------------------------------------------------------
(* What the invariant says.                                                 *)

LEMMA TableFacts ==
    ASSUME MapInv
    PROVE  \E N \in Nat : /\ Sound(hash, N, table) /\ IsTable(N, table)
                          /\ Size(table) = N /\ DOMAIN table = 0..(N - 1)
                          /\ (Alive <=> N > 0)
                          /\ \A i \in 0..(N - 1) : table[i] \in Entry
<1>1. PICK N \in Nat : Sound(hash, N, table)
  BY DEF MapInv
<1>2. IsTable(N, table)
  BY <1>1 DEF Sound
<1>3. Size(table) = N /\ DOMAIN table = 0..(N - 1) /\ \A i \in 0..(N - 1) : table[i] \in Entry
  BY <1>2, TableSize DEF IsTable
<1>4. Alive <=> N > 0
  <2>1. ASSUME N > 0
        PROVE  0 \in 0..(N - 1)
    BY <2>1
  <2>2. ASSUME ~ N > 0
        PROVE  0..(N - 1) = {}
    BY <2>2
  <2> QED BY <1>3, <2>1, <2>2 DEF Alive
<1> QED
  BY <1>1, <1>2, <1>3, <1>4

LEMMA EntriesAreSlots ==
    ASSUME NEW N, NEW t, NEW h, Sound(h, N, t)
    PROVE  /\ \A e \in Entries(t) : /\ \E i \in 0..(N - 1) : t[i] = e
                                    /\ e.key \in Keys /\ e.data \in Data /\ e.key # NULL
                                    /\ e = [key |-> e.key, data |-> e.data]
           /\ \A i \in 0..(N - 1) : t[i].key # NULL => t[i] \in Entries(t)
           /\ \A d, e \in Entries(t) : d.key = e.key => d = e
<1>1. IsTable(N, t) /\ DOMAIN t = 0..(N - 1) /\ \A i \in 0..(N - 1) : t[i] \in Entry
  <2>1. IsTable(N, t)
    BY DEF Sound
  <2> QED BY <2>1, TableSize DEF IsTable
<1>2. \A i \in 0..(N - 1) : t[i].key # NULL => t[i] \in Entries(t)
  BY <1>1, EntryShape DEF Entries
<1>3. ASSUME NEW e \in Entries(t)
      PROVE  /\ \E i \in 0..(N - 1) : t[i] = e
             /\ e.key \in Keys /\ e.data \in Data /\ e.key # NULL
             /\ e = [key |-> e.key, data |-> e.data]
  <2>1. PICK i \in 0..(N - 1) : t[i] = e /\ e # Empty /\ e \in Entry
    BY <1>1 DEF Entries
  <2>2. e \in [key : Keys, data : Data]
    BY <2>1 DEF Entry
  <2> QED BY <2>1, <2>2, NULLAssumption
<1>4. ASSUME NEW d \in Entries(t), NEW e \in Entries(t), d.key = e.key
      PROVE  d = e
  <2>1. PICK i \in 0..(N - 1), j \in 0..(N - 1) : t[i] = d /\ t[j] = e /\ t[i].key # NULL
    BY <1>3
  <2> QED BY <1>4, <2>1 DEF Sound, Distinct
<1> QED
  BY <1>2, <1>3, <1>4

LEMMA EachNameHasOneSlot ==
    ASSUME MapInv, NEW k \in Keys
    PROVE  Cardinality({i \in DOMAIN table : table[i].key = k}) =
               IF \E e \in Entries(table) : e.key = k THEN 1 ELSE 0
<1> DEFINE S == {i \in DOMAIN table : table[i].key = k}
<1>1. PICK N \in Nat : Sound(hash, N, table) /\ DOMAIN table = 0..(N - 1)
  BY TableFacts
<1>2. CASE \E e \in Entries(table) : e.key = k
  <2>1. PICK i \in 0..(N - 1) : table[i].key = k
    BY <1>1, <1>2, EntriesAreSlots
  <2>2. S = {i}
    BY <1>1, <2>1, NULLAssumption DEF Sound, Distinct
  <2>3. Cardinality({i}) = 1
    BY FS_Singleton
  <2> HIDE DEF S
  <2> QED BY <1>2, <2>2, <2>3 DEF S
<1>3. CASE ~ \E e \in Entries(table) : e.key = k
  <2>1. S = {}
    BY <1>1, <1>3, EntriesAreSlots, NULLAssumption
  <2>2. Cardinality({}) = 0
    BY FS_EmptySet
  <2> HIDE DEF S
  <2> QED BY <1>3, <2>1, <2>2 DEF S
<1> QED
  BY <1>2, <1>3

LEMMA OwnedFromInv ==
    ASSUME MapInv
    PROVE  NamesAreOwned
BY EachNameHasOneSlot DEF MapInv, NamesAreOwned

LEMMA FindsFromInv ==
    ASSUME MapInv
    PROVE  FindsWhatIsStored
<1>1. PICK N \in Nat : Sound(hash, N, table) /\ DOMAIN table = 0..(N - 1)
  BY TableFacts
<1>2. ASSUME NEW i \in 0..(N - 1), table[i].key # NULL
      PROVE  EntryFind(table, table[i].key) = i
  <2>1. hash \in [Keys -> HashValues] /\ N > 0
    BY DEF MapInv
  <2> QED BY <1>1, <1>2, <2>1, SoundTablesFind
<1> QED
  BY <1>1, <1>2 DEF FindsWhatIsStored

LEMMA SlotFromInv ==
    ASSUME MapInv
    PROVE  EveryNameHasASlot
<1>1. PICK N \in Nat : Sound(hash, N, table) /\ (Alive <=> N > 0)
  BY TableFacts
<1> QED
  BY <1>1, ThereIsASlot DEF EveryNameHasASlot, MapInv

LEMMA CompleteFromInv ==
    ASSUME HashmapInv
    PROVE  CleanupIsComplete
BY DEF HashmapInv, LoopInv, CleanupIsComplete, Stored

-----------------------------------------------------------------------------
(* What a call does to the entries, their number and the copies of names.   *)

Keeps == Entries(table') = Entries(table) /\ UNCHANGED <<num_entries, copies>>

Adds(e) ==
    /\ Entries(table') = Entries(table) \cup {e}
    /\ num_entries' = num_entries + 1
    /\ AllocKey(e.key)

Drops(e) ==
    /\ Entries(table') = Entries(table) \ {e}
    /\ num_entries' = num_entries - 1
    /\ FreeKey(e.key)

DropsAll == Entries(table') = {} /\ num_entries' = 0 /\ FreeKeys

Holds(k) == \E e \in Entries(table) : e.key = k

\* The table stays sound and the hash function the same.
StaysSound == hash' = hash /\ \E M \in Nat : Sound(hash, M, table')

LEMMA EntriesCount ==
    ASSUME MapInv
    PROVE  /\ IsFiniteSet(Entries(table)) /\ num_entries \in Nat
           /\ num_entries = Cardinality(Entries(table))
BY TableFacts, EntriesAreTaken DEF MapInv

LEMMA KeepingIsSafe ==
    ASSUME MapInv, StaysSound, Keeps, victims' \subseteq Keys
    PROVE  MapInv'
BY DEF MapInv, StaysSound, Keeps

LEMMA AddingIsSafe ==
    ASSUME MapInv, StaysSound, NEW e \in [key : Keys, data : Data], Adds(e), ~ Holds(e.key),
           victims' \subseteq Keys
    PROVE  MapInv'
<1>1. e \notin Entries(table) /\ IsFiniteSet(Entries(table)) /\ e.key \in Keys
  BY EntriesCount DEF Holds
<1>2. num_entries' = Cardinality(Entries(table'))
  <2>1. Cardinality(Entries(table) \cup {e}) = Cardinality(Entries(table)) + 1
    BY <1>1, FS_AddElement
  <2> QED BY <2>1 DEF Adds, MapInv
<1>3. copies' = [k \in Keys |-> IF \E f \in Entries(table') : f.key = k THEN 1 ELSE 0]
  <2>1. copies' = [copies EXCEPT ![e.key] = @ + 1]
    BY DEF Adds, AllocKey
  <2>2. copies = [k \in Keys |-> IF \E f \in Entries(table) : f.key = k THEN 1 ELSE 0]
    BY DEF MapInv
  <2>3. copies[e.key] = 0
    BY <1>1, <2>2 DEF Holds
  <2>4. \A k \in Keys : (\E f \in Entries(table') : f.key = k) <=>
                        (k = e.key \/ \E f \in Entries(table) : f.key = k)
    BY DEF Adds
  <2>5. ASSUME NEW k \in Keys
        PROVE  copies'[k] = IF \E f \in Entries(table') : f.key = k THEN 1 ELSE 0
    <3>1. CASE k = e.key
      BY <2>1, <2>2, <2>3, <2>4, <3>1
    <3>2. CASE k # e.key
      BY <2>1, <2>2, <2>4, <3>2
    <3> QED BY <3>1, <3>2
  <2>6. copies' = [k \in Keys |-> copies'[k]]
    BY <2>1, <2>2
  <2> QED BY <2>5, <2>6
<1> QED
  BY <1>2, <1>3 DEF MapInv, StaysSound

LEMMA DroppingIsSafe ==
    ASSUME MapInv, StaysSound, NEW e \in Entries(table), Drops(e), victims' \subseteq Keys
    PROVE  MapInv'
<1>1. /\ IsFiniteSet(Entries(table)) /\ e.key \in Keys
      /\ \A f \in Entries(table) : f.key = e.key => f = e
  BY EntriesCount, EntriesAreSlots DEF MapInv
<1>2. num_entries' = Cardinality(Entries(table'))
  <2>1. Cardinality(Entries(table) \ {e}) = Cardinality(Entries(table)) - 1
    BY <1>1, FS_RemoveElement
  <2> QED BY <2>1 DEF Drops, MapInv
<1>3. copies' = [k \in Keys |-> IF \E f \in Entries(table') : f.key = k THEN 1 ELSE 0]
  <2>1. copies' = [copies EXCEPT ![e.key] = @ - 1]
    BY DEF Drops, FreeKey
  <2>2. copies = [k \in Keys |-> IF \E f \in Entries(table) : f.key = k THEN 1 ELSE 0]
    BY DEF MapInv
  <2>3. copies[e.key] = 1
    BY <1>1, <2>2
  <2>4. \A k \in Keys : (\E f \in Entries(table') : f.key = k) <=>
                        (k # e.key /\ \E f \in Entries(table) : f.key = k)
    BY <1>1 DEF Drops
  <2>5. ASSUME NEW k \in Keys
        PROVE  copies'[k] = IF \E f \in Entries(table') : f.key = k THEN 1 ELSE 0
    <3>1. CASE k = e.key
      BY <2>1, <2>2, <2>3, <2>4, <3>1
    <3>2. CASE k # e.key
      BY <2>1, <2>2, <2>4, <3>2
    <3> QED BY <3>1, <3>2
  <2>6. copies' = [k \in Keys |-> copies'[k]]
    BY <2>1, <2>2
  <2> QED BY <2>5, <2>6
<1> QED
  BY <1>2, <1>3 DEF MapInv, StaysSound

LEMMA DroppingAllIsSafe ==
    ASSUME MapInv, StaysSound, DropsAll, victims' \subseteq Keys
    PROVE  MapInv'
<1>1. num_entries' = Cardinality(Entries(table'))
  BY FS_EmptySet DEF DropsAll
<1>2. copies' = [k \in Keys |-> 0]
  <2>1. ASSUME NEW k \in Keys
        PROVE  copies[k] - Cardinality({i \in DOMAIN table : table[i].key = k}) = 0
    <3>1. copies[k] \in Nat /\ copies[k] = Cardinality({i \in DOMAIN table : table[i].key = k})
      BY EachNameHasOneSlot DEF MapInv
    <3> HIDE DEF MapInv
    <3> QED BY <3>1
  <2> QED BY <2>1 DEF DropsAll, FreeKeys
<1>3. copies' = [k \in Keys |-> IF \E f \in Entries(table') : f.key = k THEN 1 ELSE 0]
  BY <1>2 DEF DropsAll
<1> QED
  BY <1>1, <1>3 DEF MapInv, StaysSound

-----------------------------------------------------------------------------
(* The effect of each call.                                                 *)

LEMMA Lookup ==
    ASSUME NEW N, NEW t, N > 0, hash \in [Keys -> HashValues], Sound(hash, N, t), NEW k \in Keys
    PROVE  \/ /\ EntryFind(t, k) \in 0..(N - 1) /\ EntryFind(t, k) # NULL
              /\ t[EntryFind(t, k)].key = k /\ t[EntryFind(t, k)].key # NULL
              /\ t[EntryFind(t, k)] \in Entries(t)
           \/ /\ EntryFind(t, k) = NULL \/ t[EntryFind(t, k)].key = NULL
              /\ \A e \in Entries(t) : e.key # k
<1> DEFINE s == EntryFind(t, k)
<1>1. /\ \A i \in 0..(N - 1) : t[i].key # NULL => EntryFind(t, t[i].key) = i
      /\ s = NULL \/ s \in 0..(N - 1)
      /\ s # NULL /\ t[s].key # NULL => t[s].key = k
  BY SoundTablesFind
<1>2. k # NULL /\ \A i \in 0..(N - 1) : i # NULL
  BY NULLAssumption DEF Sound, IsTable
<1> HIDE DEF s
<1>3. CASE s # NULL /\ t[s].key # NULL
  <2>1. t[s] \in Entries(t)
    BY <1>1, <1>3, EntriesAreSlots
  <2> QED BY <1>1, <1>3, <2>1 DEF s
<1>4. CASE s = NULL \/ t[s].key = NULL
  <2>1. ASSUME NEW e \in Entries(t), e.key = k
        PROVE  FALSE
    <3>1. PICK i \in 0..(N - 1) : t[i] = e
      BY EntriesAreSlots
    <3>2. s = i
      BY <1>1, <1>2, <2>1, <3>1 DEF s
    <3> QED BY <1>2, <1>4, <2>1, <3>1, <3>2
  <2> QED BY <1>4, <2>1 DEF s
<1> QED
  BY <1>3, <1>4

LEMMA PutEffect ==
    ASSUME MapInv, NEW k \in Keys, NEW d \in Data, Put(k, d)
    PROVE  /\ StaysSound
           /\ \/ Keeps /\ \E e \in Entries(table) : e.key = k /\ result' = e.data
              \/ Keeps /\ ~ Holds(k) /\ result' = NULL
              \/ Adds([key |-> k, data |-> d]) /\ ~ Holds(k) /\ result' = d
<1>1. PICK memory1 \in Memory, memory2 \in Memory, memory3 \in Memory :
          LET t == TableFor(k, memory1, memory2)
              s == EntryFind(t, k)
          IN  IF s # NULL /\ t[s].key = NULL /\ memory3
              THEN /\ table' = [t EXCEPT ![s] = [key |-> k, data |-> d]]
                   /\ num_entries' = num_entries + 1
                   /\ AllocKey(k)
                   /\ result' = d
              ELSE /\ table' = t
                   /\ result' = IF s = NULL THEN NULL ELSE t[s].data
                   /\ UNCHANGED <<num_entries, copies>>
  BY DEF Put
<1>2. hash' = hash /\ hash \in [Keys -> HashValues] /\ Alive
  BY DEF Put, MapInv
<1>3. PICK N \in Nat : Sound(hash, N, table) /\ N > 0
  BY <1>2, TableFacts
<1>4. memory1 \in BOOLEAN /\ memory2 \in BOOLEAN
  BY MemoryAssumption
<1> DEFINE t == TableFor(k, memory1, memory2)
           s == EntryFind(t, k)
           e == [key |-> k, data |-> d]
<1>5. PICK M \in Nat : M >= N /\ Sound(hash, M, t) /\ Entries(t) = Entries(table)
  BY <1>2, <1>3, <1>4, TableForIsSound
<1>6. M > 0 /\ e \in [key : Keys, data : Data] /\ e.key = k
  BY <1>3, <1>5
<1> HIDE DEF t, e
<1>7. \/ /\ s # NULL /\ t[s].key = k /\ t[s].key # NULL /\ t[s] \in Entries(t)
      \/ /\ s = NULL \/ t[s].key = NULL
         /\ \A f \in Entries(t) : f.key # k
  BY <1>2, <1>5, <1>6, Lookup
<1>8. CASE s # NULL /\ t[s].key = NULL /\ memory3
  <2>1. table' = [t EXCEPT ![s] = e] /\ num_entries' = num_entries + 1 /\ AllocKey(k) /\ result' = d
    BY <1>1, <1>8 DEF t, e
  <2>2. Sound(hash, M, [t EXCEPT ![s] = e]) /\ Entries([t EXCEPT ![s] = e]) = Entries(t) \cup {e}
    BY <1>2, <1>5, <1>6, <1>8, PutIsSound
  <2> HIDE DEF s
  <2>3. StaysSound
    BY <1>2, <1>5, <2>1, <2>2 DEF StaysSound
  <2>4. Adds(e)
    BY <1>5, <1>6, <2>1, <2>2 DEF Adds
  <2> QED BY <1>5, <1>7, <1>8, <2>1, <2>3, <2>4 DEF Holds, e
<1>9. CASE ~ (s # NULL /\ t[s].key = NULL /\ memory3)
  <2>1. /\ table' = t /\ UNCHANGED <<num_entries, copies>>
        /\ result' = IF s = NULL THEN NULL ELSE t[s].data
    BY <1>1, <1>9 DEF t, e
  <2> HIDE DEF s
  <2>2. StaysSound /\ Keeps
    BY <1>2, <1>5, <2>1 DEF StaysSound, Keeps
  <2>3. CASE s # NULL /\ t[s].key = k /\ t[s].key # NULL /\ t[s] \in Entries(t)
    BY <1>5, <2>1, <2>2, <2>3
  <2>4. CASE (s = NULL \/ t[s].key = NULL) /\ \A f \in Entries(t) : f.key # k
    <3>1. ~ Holds(k)
      BY <1>5, <2>4 DEF Holds
    <3>2. result' = NULL
      <4>1. CASE s = NULL
        BY <2>1, <4>1
      <4>2. CASE s # NULL
        <5>1. s \in 0..(M - 1) /\ t[s] \in Entry
          BY <1>2, <1>5, <1>6, <4>2, SoundTablesFind DEF Sound, IsTable, s
        <5> QED BY <2>1, <2>4, <4>2, <5>1, EntryShape
      <4> QED BY <4>1, <4>2
    <3> QED BY <2>2, <3>1, <3>2
  <2> QED BY <1>7, <2>3, <2>4 DEF s
<1> QED
  BY <1>8, <1>9

LEMMA RemovalFacts ==
    ASSUME MapInv, NEW s \in DOMAIN table, table[s].key # NULL, Sparse, RemoveSlot(s),
           NEW N \in Nat, Sound(hash, N, table)
    PROVE  /\ Sound(hash, N, table')
           /\ Entries(table') = Entries(table) \ {table[s]}
           /\ \A p \in 0..(N - 1) : table'[Ahead(N, s, p)].key # NULL =>
                 \E i \in p..(N - 1) : table'[Ahead(N, s, p)] = table[Ahead(N, s, i)]
<1>1. Size(table) = N /\ s \in 0..(N - 1)
  BY TableSize DEF Sound
<1>2. hash \in [Keys -> HashValues] /\ 2 * Cardinality(Entries(table)) <= N
  BY <1>1 DEF MapInv, Sparse
<1> DEFINE u == EntryRemove(table, s)
<1>3. /\ Sound(hash, N, u)
      /\ Entries(u) = Entries(table) \ {table[s]}
      /\ \A p \in 0..(N - 1) : u[Ahead(N, s, p)].key # NULL =>
            \E i \in p..(N - 1) : u[Ahead(N, s, p)] = table[Ahead(N, s, i)]
  BY <1>1, <1>2, RemovalIsSound
<1>4. table' = u
  BY DEF RemoveSlot
<1> HIDE DEF u
<1> QED
  BY <1>3, <1>4

LEMMA RemoveSlotEffect ==
    ASSUME MapInv, NEW s \in DOMAIN table, table[s].key # NULL, Sparse, RemoveSlot(s), hash' = hash
    PROVE  /\ StaysSound /\ Drops(table[s]) /\ table[s] \in Entries(table)
           /\ DOMAIN table' = DOMAIN table
           /\ \A i \in DOMAIN table : i < s /\ table'[i].key # NULL =>
                 \E j \in DOMAIN table : j < s /\ table'[i] = table[j]
<1>1. PICK N \in Nat : /\ Sound(hash, N, table) /\ IsTable(N, table)
                       /\ Size(table) = N /\ DOMAIN table = 0..(N - 1)
  BY TableFacts
<1>2. num_entries' = num_entries - 1 /\ FreeKey(table[s].key)
  BY DEF RemoveSlot
<1>3. /\ Sound(hash, N, table')
      /\ Entries(table') = Entries(table) \ {table[s]}
      /\ \A p \in 0..(N - 1) : table'[Ahead(N, s, p)].key # NULL =>
            \E i \in p..(N - 1) : table'[Ahead(N, s, p)] = table[Ahead(N, s, i)]
  BY <1>1, RemovalFacts
<1>4. table[s] \in Entries(table) /\ DOMAIN table' = 0..(N - 1)
  BY <1>1, <1>3, EntriesAreSlots DEF Sound, IsTable
<1>5. ASSUME NEW i \in 0..(N - 1), i < s, table'[i].key # NULL
      PROVE  \E j \in 0..(N - 1) : j < s /\ table'[i] = table[j]
  <2> DEFINE p == i - s + N
  <2>1. p \in 0..(N - 1) /\ Ahead(N, s, p) = i
    BY <1>1, <1>5 DEF Ahead
  <2> HIDE DEF p
  <2>2. PICK l \in p..(N - 1) : table'[i] = table[Ahead(N, s, l)]
    BY <1>3, <1>5, <2>1
  <2>3. Ahead(N, s, l) \in 0..(N - 1) /\ Ahead(N, s, l) < s
    <3>1. l \in Nat /\ l < N /\ l >= i - s + N /\ s \in Nat /\ s < N /\ i \in Nat
      BY <1>1, <1>5, <2>1 DEF p
    <3> QED BY <1>1, <1>5, <3>1 DEF Ahead
  <2> QED BY <2>2, <2>3
<1>6. StaysSound /\ Drops(table[s])
  BY <1>1, <1>2, <1>3 DEF StaysSound, Drops
<1> QED
  BY <1>1, <1>4, <1>5, <1>6

LEMMA RemoveKeyEffect ==
    ASSUME MapInv, Sparse, NEW k \in Keys, RemoveKey(k)
    PROVE  /\ StaysSound
           /\ \/ Keeps /\ ~ Holds(k) /\ result' = NULL
              \/ \E e \in Entries(table) : Drops(e) /\ e.key = k /\ result' = e.data
<1>1. hash' = hash /\ hash \in [Keys -> HashValues] /\ Alive
  BY DEF RemoveKey, MapInv
<1>2. PICK N \in Nat : Sound(hash, N, table) /\ N > 0 /\ DOMAIN table = 0..(N - 1)
  BY <1>1, TableFacts
<1> DEFINE s == EntryFind(table, k)
<1>3. \/ s \in 0..(N - 1) /\ s # NULL /\ table[s].key = k /\ table[s].key # NULL
      \/ (s = NULL \/ table[s].key = NULL) /\ ~ Holds(k)
  BY <1>1, <1>2, Lookup DEF Holds
<1>4. IF s = NULL \/ table[s].key = NULL
      THEN result' = NULL /\ UNCHANGED <<table, num_entries, copies>>
      ELSE result' = table[s].data /\ RemoveSlot(s)
  BY DEF RemoveKey
<1> HIDE DEF s
<1>5. CASE s = NULL \/ table[s].key = NULL
  BY <1>1, <1>2, <1>3, <1>4, <1>5 DEF StaysSound, Keeps
<1>6. CASE ~ (s = NULL \/ table[s].key = NULL)
  BY <1>1, <1>2, <1>3, <1>4, <1>6, RemoveSlotEffect
<1> QED
  BY <1>5, <1>6

LEMMA ClearEffect ==
    ASSUME MapInv, Clear \/ Reset \/ Destroy
    PROVE  StaysSound /\ DropsAll
<1>1. PICK N \in Nat : Sound(hash, N, table) /\ Size(table) = N
  BY TableFacts
<1>2. PICK M \in Nat : table' = EmptyTable(M)
  <2>1. CASE Clear
    BY <1>1, <2>1 DEF Clear
  <2>2. CASE Reset
    BY <1>1, <2>2, SizeAssumption DEF Reset
  <2>3. CASE Destroy
    BY <2>3 DEF Destroy
  <2> QED BY <2>1, <2>2, <2>3
<1>3. hash' = hash /\ FreeKeys /\ num_entries' = 0
  BY DEF Clear, Reset, Destroy
<1> QED
  BY <1>2, <1>3, EmptyTableSound DEF StaysSound, DropsAll

LEMMA CreateEffect ==
    ASSUME MapInv, Create
    PROVE  StaysSound /\ Keeps
<1>1. hash' = hash /\ table' = EmptyTable(SizeDefault) /\ UNCHANGED <<num_entries, copies>> /\ DOMAIN table = {}
  BY DEF Create, Alive
<1>2. SizeDefault \in Nat
  BY SizeAssumption
<1>3. Entries(table) = {}
  BY <1>1 DEF Entries
<1> QED
  BY <1>1, <1>2, <1>3, EmptyTableSound DEF StaysSound, Keeps

-----------------------------------------------------------------------------
(* The invariant is inductive.                                              *)

LEMMA PopulatedIs ==
    ASSUME NEW N, NEW t, IsTable(N, t), NEW s \in Nat
    PROVE  \/ /\ Populated(t, s) = NULL
              /\ \A i \in 0..(N - 1) : i >= s => t[i].key = NULL
           \/ /\ Populated(t, s) \in 0..(N - 1) /\ Populated(t, s) >= s
              /\ Populated(t, s) # NULL /\ t[Populated(t, s)].key # NULL
              /\ \A i \in 0..(N - 1) : i >= s /\ i < Populated(t, s) => t[i].key = NULL
<1> DEFINE rest == {i \in DOMAIN t : i >= s /\ t[i].key # NULL}
<1>1. N \in Nat /\ DOMAIN t = 0..(N - 1)
  BY DEF IsTable
<1>2. CASE rest = {}
  BY <1>1, <1>2 DEF Populated
<1>3. CASE rest # {}
  <2>1. rest \subseteq Nat
    BY <1>1
  <2>2. Populated(t, s) = Min(rest)
    BY <1>3 DEF Populated
  <2> HIDE DEF rest
  <2>3. \E m \in rest : \A i \in rest : m <= i
    BY <1>3, <2>1, SmallestElement
  <2>4. Min(rest) \in rest /\ \A i \in rest : Min(rest) <= i
    BY <2>3 DEF Min
  <2>5. Populated(t, s) \in Nat /\ Populated(t, s) # NULL
    BY <2>1, <2>2, <2>4, NULLAssumption
  <2>6. ASSUME NEW i \in 0..(N - 1), i >= s, i < Populated(t, s)
        PROVE  t[i].key = NULL
    <3>1. i \notin rest
      BY <2>2, <2>4, <2>5, <2>6
    <3> QED BY <1>1, <2>6, <3>1 DEF rest
  <2> QED BY <1>1, <2>2, <2>4, <2>5, <2>6 DEF rest
<1> QED
  BY <1>2, <1>3

LEMMA InitHolds ==
    ASSUME Init
    PROVE  HashmapInv
<1>1. SizeDefault \in Nat
  BY SizeAssumption
<1>2. Sound(hash, SizeDefault, table) /\ Entries(table) = {}
  BY <1>1, EmptyTableSound DEF Init
<1>3. Cardinality({}) = 0
  BY FS_EmptySet
<1> QED
  BY <1>1, <1>2, <1>3 DEF Init, HashmapInv, MapInv, LoopInv, Idle

LEMMA PutKeepsInv ==
    ASSUME HashmapInv, NEW k \in Keys, NEW d \in Data, Put(k, d)
    PROVE  HashmapInv'
<1>1. /\ StaysSound
      /\ \/ Keeps
         \/ Adds([key |-> k, data |-> d]) /\ ~ Holds(k)
  BY PutEffect DEF HashmapInv
<1>2. victims' = {} /\ Idle'
  BY DEF Put, Idle
<1>3. MapInv'
  <2> DEFINE e == [key |-> k, data |-> d]
  <2>1. e \in [key : Keys, data : Data] /\ e.key = k
    OBVIOUS
  <2> HIDE DEF e
  <2>2. MapInv /\ victims' \subseteq Keys
    BY <1>2 DEF HashmapInv
  <2>3. Keeps \/ (Adds(e) /\ ~ Holds(e.key))
    BY <1>1, <2>1 DEF e
  <2> QED BY <1>1, <2>1, <2>2, <2>3, KeepingIsSafe, AddingIsSafe
<1>4. LoopInv'
  BY <1>2 DEF LoopInv
<1> QED
  BY <1>3, <1>4 DEF HashmapInv

LEMMA RemoveKeyKeepsInv ==
    ASSUME HashmapInv, Sparse, NEW k \in Keys, RemoveKey(k)
    PROVE  HashmapInv'
<1>1. victims' = {} /\ Idle' /\ MapInv
  BY DEF RemoveKey, Idle, HashmapInv
<1>2. StaysSound /\ (Keeps \/ \E e \in Entries(table) : Drops(e))
  BY <1>1, RemoveKeyEffect
<1>3. MapInv'
  BY <1>1, <1>2, KeepingIsSafe, DroppingIsSafe
<1>4. LoopInv'
  BY <1>1 DEF LoopInv
<1> QED
  BY <1>3, <1>4 DEF HashmapInv

LEMMA ClearKeepsInv ==
    ASSUME HashmapInv, Clear \/ Reset \/ Destroy
    PROVE  HashmapInv'
<1>1. victims' = {} /\ Idle' /\ MapInv
  BY DEF Clear, Reset, Destroy, Idle, HashmapInv
<1>2. MapInv'
  BY <1>1, ClearEffect, DroppingAllIsSafe
<1>3. LoopInv'
  BY <1>1 DEF LoopInv
<1> QED
  BY <1>2, <1>3 DEF HashmapInv

LEMMA CreateKeepsInv ==
    ASSUME HashmapInv, Create
    PROVE  HashmapInv'
<1>1. MapInv /\ UNCHANGED <<iter, victims>> /\ victims \subseteq Keys
  BY DEF Create, HashmapInv, MapInv
<1>2. Idle /\ Idle'
  BY <1>1 DEF HashmapInv, LoopInv, Create, Alive, Idle
<1>3. MapInv' /\ Entries(table') = {}
  <2>1. StaysSound /\ Keeps
    BY <1>1, CreateEffect
  <2>2. Entries(table) = {}
    BY DEF Create, Alive, Entries
  <2> QED BY <1>1, <2>1, <2>2, KeepingIsSafe DEF Keeps
<1>4. \A i \in DOMAIN table' : table'[i].key \notin victims'
  <2>1. \A i \in DOMAIN table' : table'[i].key = NULL
    BY <1>3, EntryShape DEF Entries
  <2> QED BY <1>1, <2>1, NULLAssumption
<1> QED
  BY <1>2, <1>3, <1>4 DEF HashmapInv, LoopInv

LEMMA BeginCleanupKeepsInv ==
    ASSUME HashmapInv, Sparse, NEW ks \in SUBSET Stored, BeginCleanup(ks)
    PROVE  HashmapInv'
<1>1. PICK N \in Nat : /\ IsTable(N, table) /\ DOMAIN table = 0..(N - 1)
                       /\ \A i \in 0..(N - 1) : table[i] \in Entry
  BY TableFacts DEF HashmapInv
<1>2. victims' \subseteq Keys /\ NULL \notin victims' /\ UNCHANGED <<hash, table, num_entries, copies>>
  <2>1. victims' = ks /\ UNCHANGED <<hash, table, num_entries, copies>>
    BY DEF BeginCleanup
  <2>2. NULL \notin Stored /\ Stored \subseteq Keys
    BY <1>1, EntryShape DEF Stored
  <2> QED BY <2>1, <2>2
<1>3. MapInv'
  BY <1>2 DEF HashmapInv, MapInv
<1>4. LoopInv'
  <2>1. CASE num_entries = 0
    <3>1. Entries(table) = {}
      BY <2>1, EntriesCount, FS_EmptySet DEF HashmapInv
    <3>2. \A i \in DOMAIN table : table[i].key = NULL
      BY <3>1, EntryShape DEF Entries
    <3> QED BY <1>2, <2>1, <3>2 DEF BeginCleanup, LoopInv, Idle
  <2>2. CASE num_entries # 0
    <3>1. iter' = Populated(table, 0)
      BY <2>2 DEF BeginCleanup
    <3>2. \/ iter' = NULL /\ \A i \in 0..(N - 1) : table[i].key = NULL
          \/ /\ iter' \in 0..(N - 1) /\ iter' # NULL /\ table[iter'].key # NULL
             /\ \A i \in 0..(N - 1) : i < iter' => table[i].key = NULL
      <4>1. \/ iter' = NULL /\ \A i \in 0..(N - 1) : i >= 0 => table[i].key = NULL
            \/ /\ iter' \in 0..(N - 1) /\ iter' # NULL /\ table[iter'].key # NULL
               /\ \A i \in 0..(N - 1) : i >= 0 /\ i < iter' => table[i].key = NULL
        BY <1>1, <3>1, PopulatedIs
      <4>2. \A i \in 0..(N - 1) : i >= 0
        OBVIOUS
      <4> QED BY <4>1, <4>2
    <3> QED BY <1>1, <1>2, <3>2 DEF LoopInv, Idle, Sparse, Size
  <2> QED BY <2>1, <2>2
<1> QED
  BY <1>3, <1>4 DEF HashmapInv

LEMMA CleanupKeepKeepsInv ==
    ASSUME HashmapInv, CleanupKeep
    PROVE  HashmapInv'
<1>1. PICK N \in Nat : IsTable(N, table) /\ DOMAIN table = 0..(N - 1)
  BY TableFacts DEF HashmapInv
<1>2. /\ UNCHANGED <<hash, table, num_entries, copies, victims>>
      /\ iter' = Populated(table, iter + 1) /\ table[iter].key \notin victims
      /\ iter \in 0..(N - 1) /\ Sparse
      /\ \A i \in 0..(N - 1) : i < iter => table[i].key \notin victims
  BY <1>1 DEF CleanupKeep, HashmapInv, LoopInv
<1>3. MapInv'
  BY <1>2 DEF HashmapInv, MapInv
<1>4. LoopInv'
  <2>1. NULL \notin victims
    BY NULLAssumption DEF HashmapInv, MapInv
  <2>2. \/ iter' = NULL /\ \A i \in 0..(N - 1) : i >= iter + 1 => table[i].key = NULL
        \/ /\ iter' \in 0..(N - 1) /\ iter' # NULL /\ table[iter'].key # NULL
           /\ \A i \in 0..(N - 1) : i >= iter + 1 /\ i < iter' => table[i].key = NULL
    BY <1>1, <1>2, PopulatedIs
  <2>3. ASSUME NEW i \in 0..(N - 1), Idle' \/ i < iter'
        PROVE  table[i].key \notin victims
    <3>1. i < iter \/ i = iter \/ i >= iter + 1
      BY <1>2
    <3> QED BY <1>2, <2>1, <2>2, <2>3, <3>1, NULLAssumption DEF Idle
  <2> QED BY <1>1, <1>2, <2>2, <2>3 DEF LoopInv, Idle, Sparse, Size
<1> QED
  BY <1>3, <1>4 DEF HashmapInv

LEMMA CleanupRemoveKeepsInv ==
    ASSUME HashmapInv, CleanupRemove
    PROVE  /\ HashmapInv' /\ StaysSound
           /\ \E e \in Entries(table) : Drops(e) /\ e.key \in victims
<1>1. /\ UNCHANGED <<hash, victims>> /\ RemoveSlot(iter) /\ iter' = Populated(table', iter)
      /\ table[iter].key \in victims /\ iter \in DOMAIN table /\ table[iter].key # NULL /\ Sparse
      /\ \A i \in DOMAIN table : i < iter => table[i].key \notin victims
      /\ MapInv
  BY DEF CleanupRemove, HashmapInv, LoopInv
<1>2. /\ StaysSound /\ Drops(table[iter]) /\ table[iter] \in Entries(table)
      /\ DOMAIN table' = DOMAIN table
      /\ \A i \in DOMAIN table : i < iter /\ table'[i].key # NULL =>
            \E j \in DOMAIN table : j < iter /\ table'[i] = table[j]
  BY <1>1, RemoveSlotEffect
<1>3. MapInv'
  <2>1. victims' \subseteq Keys
    BY <1>1 DEF MapInv
  <2> QED BY <1>1, <1>2, <2>1, DroppingIsSafe
<1>4. PICK N \in Nat : IsTable(N, table') /\ DOMAIN table' = 0..(N - 1)
  <2>1. PICK M \in Nat : Sound(hash, M, table')
    BY <1>2 DEF StaysSound
  <2> QED BY <2>1, TableSize DEF Sound
<1>5. LoopInv'
  <2>1. NULL \notin victims /\ iter \in Nat
    BY <1>1, <1>2, <1>4, NULLAssumption DEF MapInv
  <2>2. \/ iter' = NULL /\ \A i \in 0..(N - 1) : i >= iter => table'[i].key = NULL
        \/ /\ iter' \in 0..(N - 1) /\ iter' # NULL /\ table'[iter'].key # NULL
           /\ \A i \in 0..(N - 1) : i >= iter /\ i < iter' => table'[i].key = NULL
    BY <1>1, <1>4, <2>1, PopulatedIs
  <2>3. ASSUME NEW i \in 0..(N - 1), Idle' \/ i < iter'
        PROVE  table'[i].key \notin victims
    <3>1. CASE table'[i].key = NULL
      BY <2>1, <3>1
    <3>2. CASE table'[i].key # NULL
      <4>1. i < iter
        BY <2>1, <2>2, <2>3, <3>2 DEF Idle
      <4> QED BY <1>1, <1>2, <1>4, <3>2, <4>1
    <3> QED BY <3>1, <3>2
  <2>4. Sparse'
    <3>1. num_entries' = num_entries - 1 /\ num_entries \in Nat /\ Size(table') = Size(table)
      BY <1>1, <1>2, EntriesCount DEF Drops, Size
    <3>2. Size(table) \in Nat
      BY <1>1, TableFacts
    <3> QED BY <1>1, <3>1, <3>2 DEF Sparse
  <2> QED BY <1>1, <1>4, <2>2, <2>3, <2>4 DEF LoopInv, Idle
<1> QED
  BY <1>1, <1>2, <1>3, <1>5 DEF HashmapInv

LEMMA StepKeepsInv ==
    ASSUME HashmapInv, SparseNext
    PROVE  HashmapInv'
<1>1. ASSUME NEW k \in Keys, NEW d \in Data, Put(k, d)
      PROVE  HashmapInv'
  BY <1>1, PutKeepsInv
<1>2. CASE Clear \/ Reset \/ Destroy
  BY <1>2, ClearKeepsInv
<1>3. CASE Create
  BY <1>3, CreateKeepsInv
<1>4. ASSUME Sparse, NEW k \in Keys, RemoveKey(k)
      PROVE  HashmapInv'
  BY <1>4, RemoveKeyKeepsInv
<1>5. ASSUME Sparse, NEW ks \in SUBSET Stored, BeginCleanup(ks)
      PROVE  HashmapInv'
  BY <1>5, BeginCleanupKeepsInv
<1>6. CASE CleanupRemove
  BY <1>6, CleanupRemoveKeepsInv
<1>7. CASE CleanupKeep
  BY <1>7, CleanupKeepKeepsInv
<1> QED
  BY <1>1, <1>2, <1>3, <1>4, <1>5, <1>6, <1>7 DEF SparseNext, Insertion, Removal, Cleanup

\* Every behaviour whose removals start in a sparse table keeps the invariant.
THEOREM HashmapInvHolds == SparseSpec => []HashmapInv
<1>1. Init => HashmapInv
  BY InitHolds
<1>2. HashmapInv /\ [SparseNext]_vars => HashmapInv'
  <2> SUFFICES ASSUME HashmapInv, [SparseNext]_vars
               PROVE  HashmapInv'
    OBVIOUS
  <2>1. CASE SparseNext
    BY <2>1, StepKeepsInv
  <2>2. CASE UNCHANGED vars
    BY <2>2 DEF vars, HashmapInv, MapInv, LoopInv, Idle, Sparse
  <2> QED BY <2>1, <2>2
<1> QED
  BY <1>1, <1>2, PTL DEF SparseSpec

\* hashmap_get finds every entry that was put and not removed, in tables of any
\* size with any hash function.
THEOREM FindsWhatIsStoredHolds == SparseSpec => []FindsWhatIsStored
<1>1. HashmapInv => FindsWhatIsStored
  BY FindsFromInv DEF HashmapInv
<1> QED
  BY <1>1, HashmapInvHolds, PTL

\* put fails for lack of memory only.
THEOREM EveryNameHasASlotHolds == SparseSpec => []EveryNameHasASlot
<1>1. HashmapInv => EveryNameHasASlot
  BY SlotFromInv DEF HashmapInv
<1> QED
  BY <1>1, HashmapInvHolds, PTL

\* When leave_scope's loop is over nothing it was to remove is left.
THEOREM CleanupIsCompleteHolds == SparseSpec => []CleanupIsComplete
<1>1. HashmapInv => CleanupIsComplete
  BY CompleteFromInv
<1> QED
  BY <1>1, HashmapInvHolds, PTL

-----------------------------------------------------------------------------
(* The table implements SymbolMap.                                          *)

\* hashmap_get shows the entries of the table and nothing else.
Shows ==
    /\ ShownMap = [k \in {e.key : e \in Entries(table)} |-> ShownMap[k]]
    /\ \A e \in Entries(table) : ShownMap[e.key] = e.data

LEMMA ShownAreEntries == MapInv => Shows
<1> SUFFICES ASSUME MapInv
             PROVE  Shows
  OBVIOUS
<1>1. PICK N \in Nat : Sound(hash, N, table) /\ IsTable(N, table) /\ Size(table) = N
  BY TableFacts
<1>2. /\ hash \in [Keys -> HashValues]
      /\ \A e \in Entries(table) : e.key \in Keys /\ e.data \in Data /\ e.data # NULL
      /\ \A d, e \in Entries(table) : d.key = e.key => d = e
  BY <1>1, EntriesAreSlots, NULLAssumption DEF MapInv
<1>3. ASSUME NEW k \in Keys
      PROVE  \/ \E e \in Entries(table) : e.key = k /\ Get(table, k) = e.data
             \/ Get(table, k) = NULL /\ ~ Holds(k)
  <2>1. CASE N > 0
    <3> DEFINE s == EntryFind(table, k)
    <3>1. \/ s \in 0..(N - 1) /\ s # NULL /\ table[s].key = k /\ table[s] \in Entries(table)
          \/ (s = NULL \/ table[s].key = NULL) /\ ~ Holds(k)
      BY <1>1, <1>2, <2>1, Lookup DEF Holds
    <3>2. s = NULL \/ (s \in 0..(N - 1) /\ table[s] \in Entry)
      BY <1>1, <1>2, <2>1, SoundTablesFind DEF IsTable
    <3>3. Get(table, k) = IF s = NULL THEN NULL ELSE table[s].data
      BY DEF Get
    <3> HIDE DEF s
    <3> QED BY <3>1, <3>2, <3>3, EntryShape
  <2>2. CASE N = 0
    <3>1. ProbeLen(table) = 0
      BY <1>1, <2>2 DEF ProbeLen
    <3>2. EntryFind(table, k) = NULL
      BY <3>1 DEF EntryFind
    <3>3. DOMAIN table = {}
      BY <1>1, <2>2, TableSize
    <3> QED BY <3>2, <3>3 DEF Get, Holds, Entries
  <2> QED BY <2>1, <2>2
<1>4. \A k : (k \in Keys /\ Get(table, k) # NULL) <=> \E e \in Entries(table) : e.key = k
  BY <1>2, <1>3 DEF Holds
<1>5. {k \in Keys : Get(table, k) # NULL} = {e.key : e \in Entries(table)}
  BY <1>4
<1>6. ASSUME NEW e \in Entries(table)
      PROVE  Get(table, e.key) = e.data
  BY <1>2, <1>3 DEF Holds
<1>7. ShownMap = [k \in {e.key : e \in Entries(table)} |-> Get(table, k)]
  BY <1>5 DEF ShownMap
<1> QED
  BY <1>6, <1>7 DEF Shows

LEMMA ShownAreEntriesNext ==
    ASSUME MapInv'
    PROVE  Shows'
BY ShownAreEntries, PTL

LEMMA ShownKeeps ==
    ASSUME Shows, Shows', Entries(table') = Entries(table)
    PROVE  ShownMap' = ShownMap
BY DEF Shows

LEMMA ShownAdds ==
    ASSUME Shows, Shows', NEW e, ~ Holds(e.key), Entries(table') = Entries(table) \cup {e}
    PROVE  /\ e.key \notin DOMAIN ShownMap
           /\ ShownMap' = [j \in DOMAIN ShownMap \cup {e.key} |->
                               IF j = e.key THEN e.data ELSE ShownMap[j]]
<1>1. DOMAIN ShownMap = {f.key : f \in Entries(table)}
  BY DEF Shows
<1>2. {f.key : f \in Entries(table')} = DOMAIN ShownMap \cup {e.key}
  BY <1>1
<1>3. e.key \notin DOMAIN ShownMap
  BY <1>1 DEF Holds
<1>4. ShownMap' = [j \in DOMAIN ShownMap \cup {e.key} |-> ShownMap'[j]]
  BY <1>2 DEF Shows
<1>5. ASSUME NEW j \in DOMAIN ShownMap \cup {e.key}
      PROVE  ShownMap'[j] = IF j = e.key THEN e.data ELSE ShownMap[j]
  <2>1. CASE j = e.key
    BY <2>1 DEF Shows
  <2>2. CASE j # e.key
    <3>1. PICK f \in Entries(table) : f.key = j
      BY <1>1, <2>2
    <3> QED BY <2>2, <3>1 DEF Shows
  <2> QED BY <2>1, <2>2
<1> QED
  BY <1>3, <1>4, <1>5

LEMMA ShownDrops ==
    ASSUME Shows, Shows', NEW e \in Entries(table), Entries(table') = Entries(table) \ {e},
           \A f \in Entries(table) : f.key = e.key => f = e
    PROVE  /\ e.key \in DOMAIN ShownMap /\ ShownMap[e.key] = e.data
           /\ ShownMap' = [j \in DOMAIN ShownMap \ {e.key} |-> ShownMap[j]]
<1>1. DOMAIN ShownMap = {f.key : f \in Entries(table)}
  BY DEF Shows
<1>2. {f.key : f \in Entries(table')} = DOMAIN ShownMap \ {e.key}
  BY <1>1
<1>3. ShownMap' = [j \in DOMAIN ShownMap \ {e.key} |-> ShownMap'[j]]
  BY <1>2 DEF Shows
<1>4. ASSUME NEW j \in DOMAIN ShownMap \ {e.key}
      PROVE  ShownMap'[j] = ShownMap[j]
  <2>1. PICK f \in Entries(table) : f.key = j
    BY <1>1
  <2>2. f \in Entries(table')
    BY <2>1
  <2> QED BY <2>1, <2>2 DEF Shows
<1> QED
  BY <1>1, <1>3, <1>4 DEF Shows

LEMMA InitIsMapInit ==
    ASSUME Init
    PROVE  Map!Init
<1>1. MapInv /\ Shows
  BY InitHolds, ShownAreEntries DEF HashmapInv
<1>2. Entries(table) = {}
  <2>1. SizeDefault \in Nat
    BY SizeAssumption
  <2> QED BY <2>1, EmptyTableSound DEF Init
<1>3. ShownMap = [k \in {} |-> NULL]
  BY <1>1, <1>2 DEF Shows
<1> QED
  BY <1>3 DEF Init, Map!Init

LEMMA PutIsMapPut ==
    ASSUME HashmapInv, HashmapInv', NEW k \in Keys, NEW d \in Data, Put(k, d)
    PROVE  Map!Put(k, d) \/ Map!PutFails(k)
<1>1. Shows /\ Shows'
  BY ShownAreEntries, ShownAreEntriesNext DEF HashmapInv
<1>2. DOMAIN ShownMap = {e.key : e \in Entries(table)}
  BY <1>1 DEF Shows
<1>3. /\ \/ Keeps /\ \E e \in Entries(table) : e.key = k /\ result' = e.data
         \/ Keeps /\ ~ Holds(k) /\ result' = NULL
         \/ Adds([key |-> k, data |-> d]) /\ ~ Holds(k) /\ result' = d
      /\ victims' = {}
  BY PutEffect DEF HashmapInv, Put
<1>4. ASSUME Keeps, NEW e \in Entries(table), e.key = k, result' = e.data
      PROVE  Map!Put(k, d)
  <2>1. ShownMap' = ShownMap /\ k \in DOMAIN ShownMap /\ ShownMap[k] = e.data
    BY <1>1, <1>2, <1>4, ShownKeeps DEF Keeps, Shows
  <2> QED BY <1>3, <1>4, <2>1 DEF Map!Put, Keeps
<1>5. ASSUME Keeps, ~ Holds(k), result' = NULL
      PROVE  Map!PutFails(k)
  <2>1. ShownMap' = ShownMap /\ k \notin DOMAIN ShownMap
    BY <1>1, <1>2, <1>5, ShownKeeps DEF Keeps, Holds
  <2> QED BY <1>3, <1>5, <2>1 DEF Map!PutFails, Keeps
<1>6. ASSUME Adds([key |-> k, data |-> d]), ~ Holds(k), result' = d
      PROVE  Map!Put(k, d)
  <2> DEFINE e == [key |-> k, data |-> d]
  <2>1. e.key = k /\ e.data = d
    OBVIOUS
  <2>2. Entries(table') = Entries(table) \cup {e} /\ num_entries' = num_entries + 1
    BY <1>6 DEF Adds
  <2> HIDE DEF e
  <2>3. /\ e.key \notin DOMAIN ShownMap
        /\ ShownMap' = [j \in DOMAIN ShownMap \cup {e.key} |->
                            IF j = e.key THEN e.data ELSE ShownMap[j]]
    BY <1>1, <1>6, <2>1, <2>2, ShownAdds
  <2> QED BY <1>3, <1>6, <2>1, <2>2, <2>3 DEF Map!Put
<1> QED
  BY <1>3, <1>4, <1>5, <1>6

LEMMA DropIsMapDelete ==
    ASSUME MapInv, MapInv', NEW e \in Entries(table), Drops(e)
    PROVE  e.key \in DOMAIN ShownMap /\ ShownMap[e.key] = e.data /\ Map!Delete(e.key)
<1>1. Shows /\ Shows'
  BY ShownAreEntries, ShownAreEntriesNext
<1>2. \A f \in Entries(table) : f.key = e.key => f = e
  BY EntriesAreSlots DEF MapInv
<1>3. /\ e.key \in DOMAIN ShownMap /\ ShownMap[e.key] = e.data
      /\ ShownMap' = [j \in DOMAIN ShownMap \ {e.key} |-> ShownMap[j]]
  BY <1>1, <1>2, ShownDrops DEF Drops
<1> QED
  BY <1>3 DEF Drops, Map!Delete

LEMMA RemoveKeyIsMapRemoveKey ==
    ASSUME HashmapInv, HashmapInv', Sparse, NEW k \in Keys, RemoveKey(k)
    PROVE  Map!RemoveKey(k)
<1>1. MapInv /\ MapInv' /\ Shows /\ Shows'
  BY ShownAreEntries, ShownAreEntriesNext DEF HashmapInv
<1>2. /\ \/ Keeps /\ ~ Holds(k) /\ result' = NULL
         \/ \E e \in Entries(table) : Drops(e) /\ e.key = k /\ result' = e.data
      /\ victims' = {}
  BY <1>1, RemoveKeyEffect DEF RemoveKey
<1>3. ASSUME Keeps, ~ Holds(k), result' = NULL
      PROVE  Map!RemoveKey(k)
  <2>1. ShownMap' = ShownMap /\ k \notin DOMAIN ShownMap
    BY <1>1, <1>3, ShownKeeps DEF Keeps, Holds, Shows
  <2> QED BY <1>2, <1>3, <2>1 DEF Map!RemoveKey, Keeps
<1>4. ASSUME NEW e \in Entries(table), Drops(e), e.key = k, result' = e.data
      PROVE  Map!RemoveKey(k)
  <2>1. k \in DOMAIN ShownMap /\ ShownMap[k] = e.data /\ Map!Delete(k)
    BY <1>1, <1>4, DropIsMapDelete
  <2> QED BY <1>2, <1>4, <2>1 DEF Map!RemoveKey
<1> QED
  BY <1>2, <1>3, <1>4

LEMMA ClearIsMapClear ==
    ASSUME HashmapInv, HashmapInv', Clear \/ Reset \/ Destroy
    PROVE  Map!Clear
<1>1. Shows' /\ DropsAll
  BY ShownAreEntriesNext, ClearEffect DEF HashmapInv
<1>2. ShownMap' = [k \in {} |-> NULL]
  BY <1>1 DEF Shows, DropsAll
<1>3. num_entries' = 0 /\ victims' = {} /\ UNCHANGED result
  BY DEF Clear, Reset, Destroy
<1> QED
  BY <1>2, <1>3 DEF Map!Clear

LEMMA StepIsMapStep ==
    ASSUME HashmapInv, HashmapInv', SparseNext
    PROVE  [Map!Next]_(Map!vars)
<1>1. ASSUME NEW k \in Keys, NEW d \in Data, Put(k, d)
      PROVE  Map!Next
  BY <1>1, PutIsMapPut DEF Map!Next
<1>2. CASE Clear \/ Reset \/ Destroy
  BY <1>2, ClearIsMapClear DEF Map!Next
<1>3. CASE Create
  <2>1. Entries(table') = Entries(table) /\ UNCHANGED <<num_entries, victims, result>>
    BY <1>3, CreateEffect DEF HashmapInv, Create, Keeps
  <2>2. ShownMap' = ShownMap
    BY <2>1, ShownAreEntries, ShownAreEntriesNext, ShownKeeps DEF HashmapInv
  <2> QED BY <2>1, <2>2 DEF Map!vars
<1>4. ASSUME Sparse, NEW k \in Keys, RemoveKey(k)
      PROVE  Map!Next
  BY <1>4, RemoveKeyIsMapRemoveKey DEF Map!Next
<1>5. ASSUME NEW ks \in SUBSET Stored, BeginCleanup(ks)
      PROVE  Map!Next
  <2>1. victims' = ks /\ UNCHANGED <<table, num_entries, result>> /\ victims' \subseteq Keys
    BY <1>5 DEF BeginCleanup, HashmapInv, MapInv
  <2>2. ShownMap' = ShownMap
    BY <2>1, ShownAreEntries, ShownAreEntriesNext, ShownKeeps DEF HashmapInv
  <2>3. ks \in SUBSET Keys
    BY <2>1
  <2> QED BY <2>1, <2>2, <2>3 DEF Map!BeginCleanup, Map!Next
<1>6. CASE CleanupRemove
  <2>1. PICK e \in Entries(table) : Drops(e) /\ e.key \in victims
    BY <1>6, CleanupRemoveKeepsInv
  <2>2. e.key \in DOMAIN ShownMap /\ Map!Delete(e.key)
    BY <2>1, DropIsMapDelete DEF HashmapInv
  <2>3. UNCHANGED <<victims, result>>
    BY <1>6 DEF CleanupRemove
  <2> QED BY <2>1, <2>2, <2>3 DEF Map!Discard, Map!Next
<1>7. CASE CleanupKeep
  <2>1. UNCHANGED <<table, num_entries, victims, result>>
    BY <1>7 DEF CleanupKeep
  <2>2. ShownMap' = ShownMap
    BY <2>1, ShownAreEntries, ShownAreEntriesNext, ShownKeeps DEF HashmapInv
  <2> QED BY <2>1, <2>2 DEF Map!vars
<1> QED
  BY <1>1, <1>2, <1>3, <1>4, <1>5, <1>6, <1>7 DEF SparseNext, Insertion, Removal, Cleanup

\* Through put, get and remove the table is the finite map of SymbolMap.
THEOREM TableIsSymbolMap == SparseSpec => IsSymbolMap
<1>1. Init => Map!Init
  BY InitIsMapInit
<1>2. HashmapInv /\ HashmapInv' /\ [SparseNext]_vars => [Map!Next]_(Map!vars)
  <2> SUFFICES ASSUME HashmapInv, HashmapInv', [SparseNext]_vars
               PROVE  [Map!Next]_(Map!vars)
    OBVIOUS
  <2>1. CASE SparseNext
    BY <2>1, StepIsMapStep
  <2>2. CASE UNCHANGED vars
    <3>1. ShownMap' = ShownMap
      BY <2>2, ShownAreEntries, ShownAreEntriesNext, ShownKeeps DEF HashmapInv, vars
    <3> QED BY <2>2, <3>1 DEF vars, Map!vars
  <2> QED BY <2>1, <2>2
<1> QED
  BY <1>1, <1>2, HashmapInvHolds, PTL DEF SparseSpec, IsSymbolMap, Map!Spec

-----------------------------------------------------------------------------
(* hashmap_foreach.                                                         *)

\* A walk is outside the cleanup loops, in a sparse table, at an entry.
WalkInv ==
    /\ others \in BOOLEAN
    /\ Walking => /\ Idle /\ Sparse /\ victims = {}
                  /\ entry \in DOMAIN table /\ table[entry].key # NULL

\* Nothing comes into the table during a walk, and as long as func has removed
\* no other entry than its own, every name that it was not called with is still
\* ahead.
ReachInv ==
    Walking => /\ Stored \subseteq present /\ called \subseteq present /\ NULL \notin present
               /\ ~ others => \A k \in present \ called :
                                  \E i \in DOMAIN table : i >= entry /\ table[i].key = k

ForeachInv == HashmapInv /\ WalkInv /\ ReachInv

LEMMA RemovalMovesBack ==
    ASSUME MapInv, NEW s \in DOMAIN table, table[s].key # NULL, Sparse, RemoveSlot(s),
           NEW i \in DOMAIN table, i > s, table[i].key # NULL
    PROVE  \E j \in DOMAIN table : j >= s /\ table'[j] = table[i]
<1>1. PICK N \in Nat : Sound(hash, N, table) /\ DOMAIN table = 0..(N - 1)
  BY TableFacts
<1>2. s \in 0..(N - 1) /\ i \in 0..(N - 1)
  BY <1>1
<1>3. /\ Sound(hash, N, table')
      /\ Entries(table') = Entries(table) \ {table[s]}
      /\ \A p \in 0..(N - 1) : table'[Ahead(N, s, p)].key # NULL =>
            \E l \in p..(N - 1) : table'[Ahead(N, s, p)] = table[Ahead(N, s, l)]
  BY <1>1, RemovalFacts
<1>4. table[i] \in Entries(table')
  <2>1. table[i] \in Entries(table)
    BY <1>1, EntriesAreSlots
  <2>2. table[i] # table[s]
    BY <1>1 DEF Sound, Distinct
  <2> QED BY <1>3, <2>1, <2>2
<1>5. PICK a \in 0..(N - 1) : table'[a] = table[i]
  BY <1>3, <1>4, EntriesAreSlots
<1> DEFINE p == Back(N, a, s)
<1>6. p \in 0..(N - 1) /\ Ahead(N, s, p) = a
  BY <1>2, Around
<1> HIDE DEF p
<1>7. PICK l \in p..(N - 1) : table'[a] = table[Ahead(N, s, l)]
  BY <1>3, <1>5, <1>6
<1>8. Ahead(N, s, l) = i
  <2>1. l \in 0..(N - 1)
    BY <1>1, <1>6
  <2>2. Ahead(N, s, l) \in 0..(N - 1)
    BY <1>2, <2>1, Around
  <2> QED BY <1>1, <1>2, <1>5, <1>7, <2>2 DEF Sound, Distinct
<1>9. a >= s
  BY <1>1, <1>2, <1>6, <1>8 DEF Ahead
<1> QED
  BY <1>1, <1>5, <1>9

\* The names that are stored are those of the entries.
StoredIs == Stored = {e.key : e \in Entries(table)}

LEMMA StoredAreEntries == MapInv => StoredIs
<1> SUFFICES ASSUME MapInv
             PROVE  StoredIs
  OBVIOUS
<1>1. PICK N \in Nat : Sound(hash, N, table) /\ DOMAIN table = 0..(N - 1)
  BY TableFacts
<1> QED
  BY <1>1, EntriesAreSlots DEF Stored, StoredIs

LEMMA StoredAreEntriesNext ==
    ASSUME MapInv'
    PROVE  StoredIs'
BY StoredAreEntries, PTL

LEMMA BeginForeachKeepsInv ==
    ASSUME ForeachInv, Sparse, BeginForeach
    PROVE  ForeachInv' /\ Entries(table') = Entries(table)
<1>1. PICK N \in Nat : IsTable(N, table) /\ DOMAIN table = 0..(N - 1)
  BY TableFacts DEF ForeachInv, HashmapInv
<1>2. /\ UNCHANGED <<hash, table, num_entries, copies, iter>> /\ victims' = {} /\ Idle
      /\ entry' = Populated(table, 0) /\ present' = Stored /\ called' = {} /\ others' = FALSE
  BY DEF BeginForeach
<1>3. HashmapInv'
  BY <1>2 DEF ForeachInv, HashmapInv, MapInv, LoopInv, Idle
<1>4. \/ entry' = NULL
      \/ /\ entry' \in 0..(N - 1) /\ table[entry'].key # NULL
         /\ \A i \in 0..(N - 1) : i >= 0 /\ i < entry' => table[i].key = NULL
  BY <1>1, <1>2, PopulatedIs
<1>5. WalkInv'
  BY <1>1, <1>2, <1>4 DEF WalkInv, Walking, Idle, Sparse, Size
<1>6. ReachInv'
  <2>1. ASSUME entry' # NULL, NEW k \in Stored
        PROVE  \E i \in DOMAIN table : i >= entry' /\ table[i].key = k
    <3>1. PICK i \in 0..(N - 1) : table[i].key = k /\ k # NULL
      BY <1>1 DEF Stored
    <3> QED BY <1>1, <1>4, <2>1, <3>1
  <2>2. Stored' = Stored /\ NULL \notin Stored
    BY <1>2 DEF Stored
  <2>3. /\ Stored' \subseteq present' /\ called' \subseteq present' /\ NULL \notin present'
        /\ present' \ called' = Stored /\ table' = table
    BY <1>2, <2>2
  <2> QED BY <2>1, <2>3 DEF ReachInv, Walking
<1> QED
  BY <1>2, <1>3, <1>5, <1>6 DEF ForeachInv

LEMMA StopKeepsInv ==
    ASSUME ForeachInv, NEW code, Stop(code)
    PROVE  ForeachInv'
BY DEF ForeachInv, HashmapInv, MapInv, LoopInv, WalkInv, ReachInv, Stop, Visit, Walking, Idle, vars, Sparse, Stored

LEMMA KeepKeepsInv ==
    ASSUME ForeachInv, Keep
    PROVE  ForeachInv' /\ (entry' = NULL /\ rc' = 0 /\ ~ others' => called' = present)
<1>1. PICK N \in Nat : IsTable(N, table) /\ DOMAIN table = 0..(N - 1)
  BY TableFacts DEF ForeachInv, HashmapInv
<1>2. /\ UNCHANGED <<hash, table, num_entries, copies, iter, victims, result, present, others>>
      /\ called' = called \cup {table[entry].key}
      /\ Walking /\ Idle /\ Sparse /\ victims = {} /\ others \in BOOLEAN
      /\ entry \in 0..(N - 1) /\ table[entry].key # NULL
      /\ Stored \subseteq present /\ called \subseteq present /\ NULL \notin present
      /\ ~ others => \A k \in present \ called :
                         \E i \in 0..(N - 1) : i >= entry /\ table[i].key = k
  BY <1>1 DEF Keep, Visit, vars, ForeachInv, WalkInv, ReachInv
<1>3. entry' = Populated(table, entry + 1)
  BY <1>2 DEF Keep, GoOn
<1>4. HashmapInv'
  BY <1>2 DEF ForeachInv, HashmapInv, MapInv, LoopInv, Idle
<1>5. \/ /\ entry' = NULL
         /\ \A i \in 0..(N - 1) : i >= entry + 1 => table[i].key = NULL
      \/ /\ entry' \in 0..(N - 1) /\ entry' # NULL /\ table[entry'].key # NULL
         /\ \A i \in 0..(N - 1) : i >= entry + 1 /\ i < entry' => table[i].key = NULL
  BY <1>1, <1>2, <1>3, PopulatedIs
<1>6. WalkInv'
  BY <1>1, <1>2, <1>5 DEF WalkInv, Walking, Idle, Sparse, Size
<1>7. Stored' = Stored /\ table[entry].key \in Stored
  BY <1>1, <1>2 DEF Stored
<1>8. called' \subseteq present'
  BY <1>2, <1>7
<1>9. ASSUME ~ others, NEW k \in present \ called'
      PROVE  entry' # NULL /\ \E i \in 0..(N - 1) : i >= entry' /\ table[i].key = k
  <2>1. PICK i \in 0..(N - 1) : i >= entry /\ table[i].key = k
    BY <1>2, <1>9
  <2>2. i >= entry + 1
    BY <1>2, <1>9, <2>1
  <2>3. k # NULL
    BY <1>2, <1>9
  <2> QED BY <1>2, <1>5, <2>1, <2>2, <2>3
<1>10. ReachInv'
  BY <1>1, <1>2, <1>7, <1>8, <1>9 DEF ReachInv, Walking
<1> QED
  BY <1>2, <1>4, <1>6, <1>8, <1>9, <1>10 DEF ForeachInv

LEMMA RemoveInFuncKeepsInv ==
    ASSUME ForeachInv, NEW k \in Keys, RemoveInFunc(k)
    PROVE  /\ ForeachInv' /\ StaysSound
           /\ \E e \in Entries(table) : Drops(e) /\ e.key = k /\ result' = e.data
           /\ entry' = NULL /\ rc' = 0 /\ ~ others' => called' = present
<1> DEFINE s == EntryFind(table, k)
<1>1. /\ UNCHANGED <<hash, iter, victims, present>>
      /\ called' = called \cup {table[entry].key}
      /\ others' = (others \/ k # table[entry].key)
      /\ s # NULL /\ table[s].key # NULL /\ RemoveSlot(s) /\ result' = table[s].data
      /\ GoOn(entry, table', table[entry].key)
      /\ Walking /\ Idle /\ Sparse /\ victims = {} /\ others \in BOOLEAN /\ MapInv
      /\ entry \in DOMAIN table /\ table[entry].key # NULL
      /\ Stored \subseteq present /\ called \subseteq present /\ NULL \notin present
      /\ ~ others => \A j \in present \ called :
                         \E i \in DOMAIN table : i >= entry /\ table[i].key = j
  BY DEF RemoveInFunc, Visit, ForeachInv, HashmapInv, WalkInv, ReachInv
<1>2. PICK N \in Nat : /\ Sound(hash, N, table) /\ DOMAIN table = 0..(N - 1)
                       /\ (Alive <=> N > 0)
  BY <1>1, TableFacts
<1>3. s \in DOMAIN table /\ table[s].key = k
  <2>1. hash \in [Keys -> HashValues] /\ N > 0
    BY <1>1, <1>2 DEF MapInv
  <2> QED BY <1>1, <1>2, <2>1, Lookup
<1> HIDE DEF s
<1>4. /\ StaysSound /\ Drops(table[s]) /\ table[s] \in Entries(table)
      /\ DOMAIN table' = DOMAIN table
  BY <1>1, <1>3, RemoveSlotEffect
<1>5. MapInv'
  BY <1>1, <1>4, DroppingIsSafe
<1>6. HashmapInv'
  BY <1>1, <1>5 DEF HashmapInv, LoopInv, Idle
<1>7. PICK M \in Nat : IsTable(M, table') /\ DOMAIN table' = 0..(M - 1)
  <2>1. PICK M \in Nat : Sound(hash, M, table')
    BY <1>4 DEF StaysSound
  <2> QED BY <2>1, TableSize DEF Sound
<1>8. num_entries' = num_entries - 1 /\ num_entries \in Nat /\ num_entries' # num_entries
  BY <1>1, <1>4, EntriesCount DEF Drops
<1>9. Sparse'
  <2>1. Size(table') = Size(table) /\ Size(table) \in Nat
    BY <1>1, <1>4, TableFacts DEF Size
  <2> QED BY <1>1, <1>8, <2>1 DEF Sparse
<1>10. /\ table'[entry].key # table[entry].key => entry' = Populated(table', entry) /\ rc' = 0
       /\ table'[entry].key = table[entry].key => entry' = NULL /\ rc' = -1
  BY <1>1, <1>8 DEF GoOn
<1>11. \/ /\ Populated(table', entry) = NULL
          /\ \A i \in DOMAIN table : i >= entry => table'[i].key = NULL
       \/ /\ Populated(table', entry) \in DOMAIN table
          /\ Populated(table', entry) # NULL /\ table'[Populated(table', entry)].key # NULL
          /\ \A i \in DOMAIN table :
                i >= entry /\ i < Populated(table', entry) => table'[i].key = NULL
  <2>1. entry \in Nat
    BY <1>1, <1>2
  <2> QED BY <1>4, <1>7, <2>1, PopulatedIs
<1>12. WalkInv'
  BY <1>1, <1>4, <1>9, <1>10, <1>11 DEF WalkInv, Walking, Idle
<1>13. Stored' \subseteq present /\ called' \subseteq present
  <2>1. Stored' \subseteq Stored
    BY <1>1, <1>4, <1>5, StoredAreEntries, StoredAreEntriesNext DEF StoredIs, Drops
  <2>2. table[entry].key \in Stored
    BY <1>1 DEF Stored
  <2> QED BY <1>1, <2>1, <2>2
<1>14. ASSUME ~ others', NEW j \in present \ called'
       PROVE  \E i \in DOMAIN table : i >= entry /\ table'[i].key = j
  <2>1. ~ others /\ k = table[entry].key
    BY <1>1, <1>14
  <2>2. s = entry
    BY <1>1, <1>2, <1>3, <2>1 DEF Sound, Distinct
  <2>3. j \in present \ called /\ j # table[entry].key /\ j # NULL
    BY <1>1, <1>14
  <2>4. PICK i \in DOMAIN table : i >= entry /\ table[i].key = j
    BY <1>1, <2>1, <2>3
  <2>5. i > entry
    BY <1>1, <1>2, <2>3, <2>4
  <2>6. \E l \in DOMAIN table : l >= s /\ table'[l] = table[i]
    BY <1>1, <1>3, <2>2, <2>3, <2>4, <2>5, RemovalMovesBack
  <2> QED BY <2>2, <2>4, <2>6
<1>15. ASSUME ~ others', NEW j \in present \ called', rc' = 0
       PROVE  entry' # NULL /\ \E i \in DOMAIN table : i >= entry' /\ table'[i].key = j
  <2>1. PICK i \in DOMAIN table : i >= entry /\ table'[i].key = j /\ j # NULL
    BY <1>1, <1>14, <1>15
  <2>2. entry' = Populated(table', entry)
    BY <1>10, <1>15
  <2>3. entry' # NULL /\ entry' \in DOMAIN table /\ ~ (i < entry')
    BY <1>11, <2>1, <2>2
  <2>4. i >= entry'
    BY <1>2, <2>1, <2>3
  <2> QED BY <2>1, <2>3, <2>4
<1>16. ReachInv'
  <2>1. Walking' => rc' = 0
    BY <1>10 DEF Walking
  <2> QED BY <1>1, <1>4, <1>13, <1>15, <2>1 DEF ReachInv
<1>17. entry' = NULL /\ rc' = 0 /\ ~ others' => called' = present
  BY <1>13, <1>15
<1>18. \E e \in Entries(table) : Drops(e) /\ e.key = k /\ result' = e.data
  BY <1>1, <1>3, <1>4
<1> QED
  BY <1>4, <1>6, <1>12, <1>16, <1>17, <1>18 DEF ForeachInv

LEMMA OutsideAWalk ==
    ASSUME ForeachInv, ~ Walking, SparseNext, ForgetWalk
    PROVE  ForeachInv'
<1>1. HashmapInv'
  BY StepKeepsInv DEF ForeachInv
<1>2. WalkInv' /\ ReachInv'
  BY DEF ForgetWalk, WalkInv, ReachInv, Walking
<1> QED
  BY <1>1, <1>2 DEF ForeachInv

LEMMA ForeachStepKeepsInv == ForeachInv /\ [ForeachNext]_<<vars, walk>> => ForeachInv'
<1> SUFFICES ASSUME ForeachInv, [ForeachNext]_<<vars, walk>>
             PROVE  ForeachInv'
  OBVIOUS
<1>1. CASE ~ Walking /\ SparseNext /\ ForgetWalk
  BY <1>1, OutsideAWalk
<1>2. CASE Sparse /\ BeginForeach
  BY <1>2, BeginForeachKeepsInv
<1>3. CASE Keep
  BY <1>3, KeepKeepsInv
<1>4. ASSUME NEW k \in Keys, RemoveInFunc(k)
      PROVE  ForeachInv'
  BY <1>4, RemoveInFuncKeepsInv
<1>5. ASSUME NEW code \in {-1, 1}, Stop(code)
      PROVE  ForeachInv'
  BY <1>5, StopKeepsInv
<1>6. CASE UNCHANGED <<vars, walk>>
  <2>1. HashmapInv'
    BY <1>6 DEF ForeachInv, HashmapInv, MapInv, LoopInv, vars, Idle, Sparse
  <2>2. WalkInv' /\ ReachInv'
    BY <1>6 DEF ForeachInv, WalkInv, ReachInv, vars, walk, Walking, Idle, Sparse, Stored
  <2> QED BY <2>1, <2>2 DEF ForeachInv
<1> QED
  BY <1>1, <1>2, <1>3, <1>4, <1>5, <1>6 DEF ForeachNext, WalkStep

\* Walks with a function that removes entries keep the invariant, too.
THEOREM ForeachInvHolds == ForeachSpec => []ForeachInv
<1>1. ForeachInit => ForeachInv
  <2> SUFFICES ASSUME ForeachInit
               PROVE  ForeachInv
    OBVIOUS
  <2>1. HashmapInv
    BY InitHolds DEF ForeachInit
  <2>2. WalkInv /\ ReachInv
    BY DEF ForeachInit, NoWalk, WalkInv, ReachInv, Walking
  <2> QED BY <2>1, <2>2 DEF ForeachInv
<1> QED
  BY <1>1, ForeachStepKeepsInv, PTL DEF ForeachSpec

\* Of every stored name there is one copy and no other copy is left, through
\* growth, failed puts, removals that shift entries, and clearing.
THEOREM NamesAreOwnedHolds == ForeachSpec => []NamesAreOwned
<1>1. ForeachInv => NamesAreOwned
  BY OwnedFromInv DEF ForeachInv, HashmapInv
<1> QED
  BY <1>1, ForeachInvHolds, PTL

LEMMA ForeachStepIsMapStep ==
    ASSUME ForeachInv, ForeachInv', ForeachNext
    PROVE  [Map!Next]_(Map!vars)
<1>1. MapInv /\ MapInv' /\ Shows /\ Shows'
  BY ShownAreEntries, ShownAreEntriesNext DEF ForeachInv, HashmapInv
<1>2. CASE ~ Walking /\ SparseNext /\ ForgetWalk
  BY <1>2, StepIsMapStep DEF ForeachInv
<1>3. CASE Sparse /\ BeginForeach
  <2>1. victims' = {} /\ UNCHANGED <<table, num_entries, result>>
    BY <1>3 DEF BeginForeach
  <2>2. ShownMap' = ShownMap
    BY <1>1, <2>1, ShownKeeps
  <2> QED BY <2>1, <2>2 DEF Map!BeginCleanup, Map!Next
<1>4. ASSUME UNCHANGED vars
      PROVE  UNCHANGED Map!vars
  <2>1. UNCHANGED <<table, num_entries, victims, result>>
    BY <1>4 DEF vars
  <2>2. ShownMap' = ShownMap
    BY <1>1, <2>1, ShownKeeps
  <2> QED BY <2>1, <2>2 DEF Map!vars
<1>5. ASSUME NEW k \in Keys, RemoveInFunc(k)
      PROVE  Map!Next
  <2>1. PICK e \in Entries(table) : Drops(e) /\ e.key = k /\ result' = e.data
    BY <1>5, RemoveInFuncKeepsInv
  <2>2. k \in DOMAIN ShownMap /\ ShownMap[k] = e.data /\ Map!Delete(k)
    BY <1>1, <2>1, DropIsMapDelete
  <2>3. victims' = {}
    BY <1>5 DEF RemoveInFunc, Visit, ForeachInv, WalkInv
  <2> QED BY <2>1, <2>2, <2>3 DEF Map!RemoveKey, Map!Next
<1>6. CASE Keep
  BY <1>4, <1>6 DEF Keep
<1>7. ASSUME NEW code \in {-1, 1}, Stop(code)
      PROVE  UNCHANGED Map!vars
  BY <1>4, <1>7 DEF Stop
<1> QED
  BY <1>2, <1>3, <1>5, <1>6, <1>7 DEF ForeachNext, WalkStep

\* hashmap_foreach, too, is a sequence of operations of the finite map.
THEOREM ForeachIsSymbolMap == ForeachSpec => IsSymbolMap
<1>1. ForeachInit => Map!Init
  BY InitIsMapInit DEF ForeachInit
<1>2. ForeachInv /\ ForeachInv' /\ [ForeachNext]_<<vars, walk>> => [Map!Next]_(Map!vars)
  <2> SUFFICES ASSUME ForeachInv, ForeachInv', [ForeachNext]_<<vars, walk>>
               PROVE  [Map!Next]_(Map!vars)
    OBVIOUS
  <2>1. CASE ForeachNext
    BY <2>1, ForeachStepIsMapStep
  <2>2. CASE UNCHANGED <<vars, walk>>
    <3>1. ShownMap' = ShownMap
      BY <2>2, ShownAreEntries, ShownAreEntriesNext, ShownKeeps DEF ForeachInv, HashmapInv, vars
    <3> QED BY <2>2, <3>1 DEF vars, Map!vars
  <2> QED BY <2>1, <2>2
<1> QED
  BY <1>1, <1>2, ForeachInvHolds, PTL DEF ForeachSpec, IsSymbolMap, Map!Spec

\* hashmap_foreach comes to its end only when its function was called for every
\* name, if the function removes no other name than the one it is called for.
THEOREM ForeachReachesAllHolds == ForeachSpec => ForeachReachesAll
<1>1. ForeachInv => [Walking /\ entry' = NULL /\ rc' = 0 /\ ~ others' /\ WalkStep
                        => called' = present]_<<vars, walk>>
  <2> SUFFICES ASSUME ForeachInv, entry' = NULL, rc' = 0, ~ others', WalkStep
               PROVE  called' = present
    OBVIOUS
  <2>1. CASE Keep
    BY <2>1, KeepKeepsInv
  <2>2. ASSUME NEW k \in Keys, RemoveInFunc(k)
        PROVE  called' = present
    BY <2>2, RemoveInFuncKeepsInv
  <2> QED BY <2>1, <2>2 DEF WalkStep
<1> QED
  BY <1>1, ForeachInvHolds, PTL DEF ForeachReachesAll

=============================================================================
