--------------------------------- MODULE Sums ---------------------------------
(* The sum of a sequence of numbers. *)
EXTENDS Integers, Sequences

Total(ts) ==
    LET sum[i \in 0 .. Len(ts)] == IF i = 0 THEN 0 ELSE sum[i - 1] + ts[i]
    IN  sum[Len(ts)]
===============================================================================
