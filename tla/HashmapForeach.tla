--------------------------- MODULE HashmapForeach ---------------------------
(***************************************************************************)
(* hashmap_foreach: a walk over the slots of the table that calls func for *)
(* each entry, while func may remove entries from the table.               *)
(*                                                                         *)
(* A step is one call of func with what the walk does after it.  func may  *)
(* do nothing, stop the walk, or remove one entry.  That it puts an entry  *)
(* is left out: when the table grows the walk goes on in freed memory.     *)
(***************************************************************************)
EXTENDS Hashmap

VARIABLES
    entry,   \* the slot the walk is at, NULL outside a walk
    present, \* the names in the table when the walk began
    called,  \* those that func was called with
    others,  \* whether func has removed another entry than its own
    rc       \* what the walk returned

walk == <<entry, present, called, others, rc>>

NoWalk == entry = NULL /\ present = {} /\ called = {} /\ others = FALSE /\ rc = 0

ForgetWalk == entry' = NULL /\ present' = {} /\ called' = {} /\ others' = FALSE /\ rc' = 0

ForeachInit == Init /\ NoWalk

Walking == entry # NULL

\* The walk is none of the cleanup loops: victims is empty from here on.
BeginForeach ==
    /\ Idle /\ Alive /\ ~ Walking
    /\ entry' = Populated(table, 0)
    /\ present' = Stored
    /\ called' = {}
    /\ others' = FALSE
    /\ rc' = 0
    /\ victims' = {}
    /\ UNCHANGED <<hash, table, num_entries, copies, iter, result>>

Visit == Walking /\ called' = called \cup {table[entry].key} /\ UNCHANGED present

\* func returns a number other than 0.
Stop(code) ==
    /\ Visit
    /\ entry' = NULL
    /\ UNCHANGED others
    /\ rc' = IF code < 0 THEN code ELSE 0
    /\ UNCHANGED vars

\* Faulty variant: the walk goes on behind an entry that was removed.
GoOnPast(s, t, k) ==
    /\ entry' = Populated(t, s + 1)
    /\ rc' = 0

\* Faulty variant: the end of the table is not the end of the walk.
GoOnAround(s, t, k) ==
    /\ entry' = IF Populated(t, s + 1) = NULL THEN Populated(t, 0) ELSE Populated(t, s + 1)
    /\ rc' = 0

\* After a call of func at slot s for the name k: the slot once more when it
\* holds another name now.
GoOn(s, t, k) ==
    IF t[s].key # k THEN entry' = Populated(t, s) /\ rc' = 0
    ELSE IF num_entries' # num_entries THEN entry' = NULL /\ rc' = -1
    ELSE entry' = Populated(t, s + 1) /\ rc' = 0

Keep ==
    /\ Visit
    /\ UNCHANGED <<vars, others>>
    /\ GoOn(entry, table, table[entry].key)

\* func calls hashmap_remove.
RemoveInFunc(k) ==
    /\ Visit
    /\ others' = (others \/ k # table[entry].key)
    /\ LET s == EntryFind(table, k)
       IN  /\ s # NULL /\ table[s].key # NULL
           /\ RemoveSlot(s)
           /\ result' = table[s].data
    /\ GoOn(entry, table', table[entry].key)
    /\ UNCHANGED <<hash, iter, victims>>

WalkStep == Keep \/ \E k \in Keys : RemoveInFunc(k)

ForeachNext ==
    \/ ~ Walking /\ SparseNext /\ ForgetWalk
    \/ Sparse /\ BeginForeach
    \/ WalkStep
    \/ \E code \in {-1, 1} : Stop(code)

\* A loop of the one thread that runs goes on.
ForeachFairness ==
    /\ WF_<<vars, walk>>(Cleanup /\ ForgetWalk)
    /\ WF_<<vars, walk>>(WalkStep)

ForeachSpec == ForeachInit /\ [][ForeachNext]_<<vars, walk>> /\ ForeachFairness

\* hashmap.c: "this function supports calls to hashmap_remove() during
\* iteration", of the current entry.  A walk that comes to its end has called
\* func for every name that was there when it began, although removals shift
\* entries to and fro.
ForeachReachesAll ==
    [][Walking /\ entry' = NULL /\ rc' = 0 /\ ~ others' /\ WalkStep
        => called' = present]_<<vars, walk>>

\* A cleanup loop (hashmap_iter, hashmap_iter_remove) and a walk come to their
\* end, although removals move entries and a slot may be visited again.
LoopsEnd == (~ Idle ~> Idle) /\ (Walking ~> ~ Walking)

=============================================================================
