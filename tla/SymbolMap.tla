------------------------------ MODULE SymbolMap ------------------------------
(***************************************************************************)
(* What the symbol table promises its users, populate_symbol_table,        *)
(* get_symbol_from_ident, leave_scope and cleanup: a finite map from names *)
(* to entries.  hashmap.c, the module Hashmap, is to implement it.         *)
(***************************************************************************)
EXTENDS FiniteSets, Integers

CONSTANTS
    Keys,    \* names
    Data,    \* pointers to entries
    NULL     \* no entry

VARIABLES
    map,      \* the entry of every name that has one
    size,     \* hashmap_size
    victims,  \* the names that a cleanup loop removes
    result    \* the value that the last call returned

vars == <<map, size, victims, result>>

Init ==
    /\ map = [k \in {} |-> NULL]
    /\ size = 0
    /\ victims = {}
    /\ result = NULL

\* An entry is never overwritten: put returns the one that is there.
Put(k, d) ==
    /\ victims' = {}
    /\ IF k \in DOMAIN map
       THEN result' = map[k] /\ UNCHANGED <<map, size>>
       ELSE /\ result' = d
            /\ size' = size + 1
            /\ map' = [j \in DOMAIN map \cup {k} |-> IF j = k THEN d ELSE map[j]]

\* put returns NULL when there is no memory, and changes nothing.
PutFails(k) ==
    /\ k \notin DOMAIN map
    /\ result' = NULL
    /\ victims' = {}
    /\ UNCHANGED <<map, size>>

Delete(k) ==
    /\ size' = size - 1
    /\ map' = [j \in DOMAIN map \ {k} |-> map[j]]

RemoveKey(k) ==
    /\ victims' = {}
    /\ IF k \in DOMAIN map
       THEN result' = map[k] /\ Delete(k)
       ELSE result' = NULL /\ UNCHANGED <<map, size>>

\* A loop over the entries announces what it removes, removes it in any order,
\* and loses nothing else.
BeginCleanup(ks) ==
    /\ victims' = ks
    /\ UNCHANGED <<map, size, result>>

Discard ==
    /\ UNCHANGED <<victims, result>>
    /\ \E k \in victims \cap DOMAIN map : Delete(k)

Clear ==
    /\ size' = 0
    /\ victims' = {}
    /\ UNCHANGED result
    /\ map' = [k \in {} |-> NULL]

Next ==
    \/ \E k \in Keys, d \in Data : Put(k, d)
    \/ \E k \in Keys : PutFails(k) \/ RemoveKey(k)
    \/ \E ks \in SUBSET Keys : BeginCleanup(ks)
    \/ Discard
    \/ Clear

Spec == Init /\ [][Next]_vars

=============================================================================
