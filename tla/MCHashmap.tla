------------------------------ MODULE MCHashmap ------------------------------
(* Instances of Hashmap for TLC.                                            *)
EXTENDS Hashmap

FillKeys == 0..128

\* The names 0, 1, 2, ..., with these hashes, are put one after the other; when
\* more than half of the table is taken, the first is removed.
FillSpec ==
    /\ hash = [k \in Keys |-> k]
    /\ Init
    /\ [][ \/ \E k \in Keys, d \in Data : k = num_entries /\ Put(k, d)
           \/ ~ Sparse /\ RemoveKey(0)
         ]_vars

=============================================================================
