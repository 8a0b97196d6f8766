----------------------------- MODULE MCSortPipeline -----------------------------
(* SortPipeline for TLC. *)
EXTENDS SortPipeline

MCFragments == [list : 1 .. 4, place : 1 .. 2, ts : 1 .. 3]

\* A batch from the timestamps of its lists.
Stamped(tss) ==
    [l \in DOMAIN tss |-> [i \in DOMAIN tss[l] |-> [list |-> l, place |-> i, ts |-> tss[l][i]]]]

MCBatches == {Stamped(b) : b \in {
    << <<>> >>,                                     \* a complete flush, no barrier
    << <<2, 1>> >>,                                 \* barriers of two sources
    << <<1, 1>>, <<1, 2>> >>,
    << <<1, 2>>, <<2>>, <<1>>, <<1, 2>> >> }}

\* Up to three lists of up to two fragments with three timestamps.
SmallLists == {<<t>> : t \in 1 .. 3} \cup {<<t, u>> : t \in 1 .. 3, u \in 1 .. 3}
SortedLists == {l \in SmallLists : Len(l) = 2 => l[1] <= l[2]}

MCTrials == {Stamped(b) : b \in UNION {[1 .. n -> SortedLists] : n \in 1 .. 3}}
=================================================================================
