-------------------------- MODULE MCHashmapForeach --------------------------
(* An instance of HashmapForeach for TLC.                                   *)
EXTENDS HashmapForeach

\* Nothing tells one name from another but its hash: of the assignments of
\* hashes that differ by a permutation of the names one is enough.
OrderedInit ==
    /\ ForeachInit
    /\ \A j, k \in Keys : j <= k => hash[j] <= hash[k]

OrderedSpec == OrderedInit /\ [][ForeachNext]_<<vars, walk>> /\ ForeachFairness

=============================================================================
