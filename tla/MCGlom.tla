--------------------------------- MODULE MCGlom ---------------------------------
(* Glom for TLC. *)
EXTENDS Glom

Fragment(kind, bar, ts) == [kind |-> kind, bar |-> bar, ts |-> ts]

\* Two timestamps within the window and one outside; the sum of two of the largest
\* is one Word.
MCFragments ==
    {Fragment("PHYSICS", 0, t) : t \in {0, 2, 3}}
    \cup {Fragment("BEGIN", 1, 0), Fragment("END", 2, 0), Fragment("SCALER", 0, 0)}

\* Without building every policy is the same.
MCOptions == [policy : {"earliest", "latest", "average"}, build : {TRUE}]
             \cup {[policy |-> "earliest", build |-> FALSE]}
=================================================================================
