------------------------------- MODULE Hashmap -------------------------------
(***************************************************************************)
(* hashmap.c: open addressing with linear probing over at most half of the *)
(* table, removal that closes the gap in the chain, growth at three        *)
(* quarters of the capacity, and the loop that leave_scope and cleanup run *)
(* with hashmap_iter_remove.                                               *)
(*                                                                         *)
(* The hash function is any function: it is chosen in the initial state.   *)
(* A step is a call; the caller is one thread.                             *)
(***************************************************************************)
EXTENDS Integers, FiniteSets, FiniteSetsExt

CONSTANTS
    Keys,         \* names
    Data,         \* pointers to entries
    NULL,         \* no entry, no iterator
    SizeDefault,  \* HASHMAP_SIZE_DEFAULT
    HashValues,   \* the values of the hash function
    Memory        \* whether an allocation may fail: {TRUE}, or {TRUE, FALSE}

ASSUME SizeAssumption == SizeDefault \in Nat /\ \E n \in 1..SizeDefault : SizeDefault = 2^n
ASSUME NULLAssumption == NULL \notin Keys /\ NULL \notin Data /\ NULL \notin Nat
ASSUME HashAssumption == HashValues \subseteq Nat
ASSUME MemoryAssumption == Memory \subseteq BOOLEAN

VARIABLES
    hash,         \* map->hash
    table,        \* map->table; table_size is the number of its slots
    num_entries,  \* map->num_entries
    copies,       \* how many copies of each name key_alloc made and key_free did not free
    iter,         \* the iterator of the loop that runs
    victims,      \* the names that this loop removes
    result        \* the value that the last call returned

vars == <<hash, table, num_entries, copies, iter, victims, result>>

-----------------------------------------------------------------------------

Empty == [key |-> NULL, data |-> NULL]

Size(t) == Cardinality(DOMAIN t)

EmptyTable(size) == [i \in 0..(size - 1) |-> Empty]

Home(t, k) == hash[k] % Size(t)

\* The slots that hashmap_entry_find looks at, as steps from the home slot.
ProbeLen(t) == Size(t) \div 2
Probe(t, k, i) == (Home(t, k) + i) % Size(t)

\* hashmap_entry_find: the first slot that holds k or nothing, or NULL.
EntryFind(t, k) ==
    LET Ends(i) == t[Probe(t, k, i)].key \in {k, NULL}
        first == {i \in 0..(ProbeLen(t) - 1) : Ends(i) /\ \A j \in 0..(i - 1) : ~ Ends(j)}
    IN  IF first = {} THEN NULL ELSE Probe(t, k, CHOOSE i \in first : TRUE)

Stored == {table[i].key : i \in DOMAIN table} \ {NULL}

\* hashmap_get.
Get(t, k) == LET s == EntryFind(t, k) IN IF s = NULL THEN NULL ELSE t[s].data

\* Faulty variant: slots are compared as numbers.
IndexLEUnwrapped(t, a, b) == b <= a

\* HASHMAP_INDEX_LE: a test of one bit of the difference.
IndexLE(t, a, b) == a = b \/ (b - a) % Size(t) >= Size(t) \div 2

\* The slot i steps behind slot s.
Behind(t, s, i) == (s + i) % Size(t)

\* The number of entries behind slot s, up to the end of the chain.
ChainLen(t, s) ==
    CHOOSE n \in 0..(Size(t) - 1) :
        /\ \A i \in 1..n : t[Behind(t, s, i)].key # NULL
        /\ n + 1 = Size(t) \/ t[Behind(t, s, n + 1)].key = NULL

\* Whether the i-th entry behind s may move to the g-th place behind s, and
\* whether it is the first behind that place that may.
MayFill(t, s, g, i) == IndexLE(t, Behind(t, s, g), Home(t, t[Behind(t, s, i)].key))
Fills(t, s, g, i) == MayFill(t, s, g, i) /\ \A j \in (g + 1)..(i - 1) : ~ MayFill(t, s, g, j)

\* hashmap_entry_remove: the gap at slot s is filled with the first entry behind
\* it that may move there, the gap that this leaves with the next, and so on to
\* the end of the chain.
EntryRemove(t, s) ==
    LET len == ChainLen(t, s)
        gap[i \in 0..len] == i = 0 \/ \E g \in 0..(i - 1) : Fills(t, s, g, i) /\ gap[g]
        After(i) ==
            LET fill == {j \in (i + 1)..len : Fills(t, s, i, j)}
            IN  IF i > len \/ ~ gap[i] THEN t[Behind(t, s, i)]
                ELSE IF fill = {} THEN Empty
                ELSE t[Behind(t, s, CHOOSE j \in fill : TRUE)]
    IN  [slot \in DOMAIN t |-> After((slot - s) % Size(t))]

\* Faulty variant: entries keep their slots when the table grows.
RehashInPlace(t, size) ==
    [i \in 0..(size - 1) |-> IF i \in DOMAIN t THEN t[i] ELSE Empty]

\* hashmap_rehash puts an entry e of the old table into the new one; <<>> if one
\* of them finds no slot.
PutAgain(new, e) ==
    LET s == EntryFind(new, e.key)
    IN  IF new = <<>> \/ e.data = NULL THEN new
        ELSE IF s = NULL THEN <<>>
        ELSE [new EXCEPT ![s] = e]

\* hashmap_rehash: the entries are put into a new table in the order of their
\* slots.
Rehash(t, size) ==
    LET new[i \in 0..Size(t)] ==
            IF i = 0 THEN EmptyTable(size) ELSE PutAgain(new[i - 1], t[i - 1])
    IN  new[Size(t)]

\* hashmap_table_min_size_calc.
MinSize(n) == n + n \div 3

\* The load is close to three quarters.
MustGrow(t, n) == Size(t) <= MinSize(n)

\* A table of twice the size; t if there is no memory or no slot for an entry.
Grown(t, memory) ==
    LET new == Rehash(t, 2 * Size(t))
    IN  IF memory /\ new # <<>> THEN new ELSE t

-----------------------------------------------------------------------------
(* Calls.                                                                   *)

Idle == iter = NULL

\* hashmap_destroy leaves a map without a table.
Alive == DOMAIN table # {}

\* key_alloc, hashmap_alloc_key_string, and key_free, free, of one name.
AllocKey(k) == copies' = [copies EXCEPT ![k] = @ + 1]
FreeKey(k) == copies' = [copies EXCEPT ![k] = @ - 1]

\* hashmap_free_keys: the name in every slot.
FreeKeys ==
    copies' = [k \in Keys |-> copies[k] - Cardinality({i \in DOMAIN table : table[i].key = k})]

\* Faulty variant: the table grows for its load only.
TableForLoad(k, memory1, memory2) ==
    IF MustGrow(table, num_entries) THEN Grown(table, memory1) ELSE table

\* The table to put k into: grown for the load, and once more when k finds no
\* slot in it.
TableFor(k, memory1, memory2) ==
    LET t1 == IF MustGrow(table, num_entries) THEN Grown(table, memory1) ELSE table
    IN  IF EntryFind(t1, k) = NULL THEN Grown(t1, memory2) ELSE t1

\* Faulty variant: the name is copied before the entry is looked at.
PutCopyFirst(k, d) ==
    /\ Idle /\ Alive
    /\ LET t == TableFor(k, TRUE, TRUE)
           s == EntryFind(t, k)
       IN  /\ table' = IF t[s].key = NULL THEN [t EXCEPT ![s] = [key |-> k, data |-> d]] ELSE t
           /\ num_entries' = IF t[s].key = NULL THEN num_entries + 1 ELSE num_entries
           /\ result' = IF t[s].key = NULL THEN d ELSE t[s].data
    /\ AllocKey(k)
    /\ victims' = {}
    /\ UNCHANGED <<hash, iter>>

\* hashmap_put.  The table stays grown when there is no memory for the name.
Put(k, d) ==
    /\ Idle /\ Alive
    /\ \E memory1, memory2, memory3 \in Memory :
          LET t == TableFor(k, memory1, memory2)
              s == EntryFind(t, k)
          IN  IF s # NULL /\ t[s].key = NULL /\ memory3
              THEN /\ table' = [t EXCEPT ![s] = [key |-> k, data |-> d]]
                   /\ num_entries' = num_entries + 1
                   /\ AllocKey(k)
                   /\ result' = d
              ELSE /\ table' = t
                   /\ result' = IF s = NULL THEN NULL ELSE t[s].data
                   /\ UNCHANGED <<num_entries, copies>>
    /\ victims' = {}
    /\ UNCHANGED <<hash, iter>>

\* hashmap_entry_remove frees the name and closes the gap.
RemoveSlot(s) ==
    /\ FreeKey(table[s].key)
    /\ table' = EntryRemove(table, s)
    /\ num_entries' = num_entries - 1

\* hashmap_remove.
RemoveKey(k) ==
    LET s == EntryFind(table, k)
    IN  /\ Idle /\ Alive
        /\ IF s = NULL \/ table[s].key = NULL
           THEN result' = NULL /\ UNCHANGED <<table, num_entries, copies>>
           ELSE result' = table[s].data /\ RemoveSlot(s)
        /\ victims' = {}
        /\ UNCHANGED <<hash, iter>>

\* hashmap_clear.
Clear ==
    /\ Idle /\ Alive
    /\ FreeKeys
    /\ table' = EmptyTable(Size(table))
    /\ num_entries' = 0
    /\ victims' = {}
    /\ UNCHANGED <<hash, iter, result>>

\* hashmap_reset: the table has its first size again, if realloc can shrink it.
Reset ==
    /\ Idle /\ Alive
    /\ FreeKeys
    /\ \E memory \in Memory : table' = EmptyTable(IF memory THEN SizeDefault ELSE Size(table))
    /\ num_entries' = 0
    /\ victims' = {}
    /\ UNCHANGED <<hash, iter, result>>

\* hashmap_destroy, at the end of generate.
Destroy ==
    /\ Idle /\ Alive
    /\ FreeKeys
    /\ table' = EmptyTable(0)
    /\ num_entries' = 0
    /\ victims' = {}
    /\ UNCHANGED <<hash, iter, result>>

\* hashmap_init, for the next file.
Create ==
    /\ ~ Alive
    /\ table' = EmptyTable(SizeDefault)
    /\ UNCHANGED <<hash, num_entries, copies, iter, victims, result>>

\* hashmap_entry_get_populated: the next entry, from slot s on.
Populated(t, s) ==
    LET rest == {i \in DOMAIN t : i >= s /\ t[i].key # NULL}
    IN  IF rest = {} THEN NULL ELSE Min(rest)

\* The loops of leave_scope and cleanup start with hashmap_iter.
BeginCleanup(ks) ==
    /\ Idle /\ Alive
    /\ victims' = ks
    /\ iter' = IF num_entries = 0 THEN NULL ELSE Populated(table, 0)
    /\ UNCHANGED <<hash, table, num_entries, copies, result>>

\* Faulty variant: the iterator moves on past the slot that was filled again.
CleanupRemoveAndSkip ==
    /\ ~ Idle
    /\ table[iter].key \in victims
    /\ RemoveSlot(iter)
    /\ iter' = Populated(table', iter + 1)
    /\ UNCHANGED <<hash, victims, result>>

\* hashmap_iter_remove: the iterator stays where it is, since another entry may
\* have been shifted there.
CleanupRemove ==
    /\ ~ Idle
    /\ table[iter].key \in victims
    /\ RemoveSlot(iter)
    /\ iter' = Populated(table', iter)
    /\ UNCHANGED <<hash, victims, result>>

\* hashmap_iter_next.
CleanupKeep ==
    /\ ~ Idle
    /\ table[iter].key \notin victims
    /\ iter' = Populated(table, iter + 1)
    /\ UNCHANGED <<hash, table, num_entries, copies, victims, result>>

Init ==
    /\ hash \in [Keys -> HashValues]
    /\ table = EmptyTable(SizeDefault)
    /\ num_entries = 0
    /\ copies = [k \in Keys |-> 0]
    /\ iter = NULL
    /\ victims = {}
    /\ result = NULL

Cleanup == CleanupRemove \/ CleanupKeep

Insertion ==
    \/ \E k \in Keys, d \in Data : Put(k, d)
    \/ Clear \/ Reset \/ Destroy \/ Create

Removal ==
    \/ \E k \in Keys : RemoveKey(k)
    \/ \E ks \in SUBSET Stored : BeginCleanup(ks)

Next == Insertion \/ Removal \/ Cleanup

\* A loop of the one thread that runs goes on.
Fairness == WF_vars(Cleanup)

Spec == Init /\ [][Next]_vars /\ Fairness

\* At most half of the slots are taken, so no chain is longer than that.
Sparse == 2 * num_entries <= Size(table)

\* The caller starts to remove only while the table is sparse: the program with
\* at most 128 symbols.
SparseNext == Insertion \/ (Sparse /\ Removal) \/ Cleanup

SparseSpec == Init /\ [][SparseNext]_vars /\ Fairness

-----------------------------------------------------------------------------
(* Properties.                                                              *)

Entry == [key : Keys, data : Data] \cup {Empty}

\* Every variable holds a value of its type, and the table size is a power of 2.
TypeOK ==
    /\ hash \in [Keys -> HashValues]
    /\ \E size \in {0} \cup {SizeDefault * 2^n : n \in 0..Cardinality(Keys)} : table \in [0..(size - 1) -> Entry]
    /\ num_entries = Cardinality({i \in DOMAIN table : table[i].key # NULL})
    /\ iter \in DOMAIN table \cup {NULL}
    /\ iter # NULL => table[iter].key # NULL
    /\ victims \subseteq Keys
    /\ result \in Data \cup {NULL}

\* The table owns its names: of every name that is stored there is one copy, and
\* none of any other, through growth, failed puts, removals that shift entries,
\* and clearing.  None is lost, none freed twice or while it is stored.
NamesAreOwned ==
    copies = [k \in Keys |-> Cardinality({i \in DOMAIN table : table[i].key = k})]

\* hashmap_get finds every entry that was put and not removed: probing reaches
\* it, whatever was removed in front of it and whatever the chain wraps around.
FindsWhatIsStored ==
    \A i \in DOMAIN table : table[i].key # NULL => EntryFind(table, table[i].key) = i

\* put fails for lack of memory only: if the table can grow there is a slot for
\* every name within half of it, however poor the hash function.
EveryNameHasASlot ==
    Alive => \A k \in Keys : EntryFind(TableFor(k, TRUE, TRUE), k) # NULL

\* When a cleanup loop is over, none of what it was to remove is left, although
\* removals move entries under the iterator.
CleanupIsComplete == Idle => Stored \cap victims = {}

\* The map that hashmap_get shows.
ShownMap == [k \in {k \in Keys : Get(table, k) # NULL} |-> Get(table, k)]

Map == INSTANCE SymbolMap WITH map <- ShownMap, size <- num_entries

\* Seen through hashmap_get, the table is a map.
IsSymbolMap == Map!Spec

=============================================================================
