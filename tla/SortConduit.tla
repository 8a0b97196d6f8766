------------------------------ MODULE SortConduit ------------------------------
(* What the sort and the output threads promise together: every batch of     *)
(* sorted lists that is handed to them comes out once, in the order in which *)
(* the batches were handed over, merged into one sorted list.                *)
EXTENDS Integers, Sequences

CONSTANT Batches

VARIABLES submitted, delivered

Init == submitted = <<>> /\ delivered = <<>>

\* The places of a batch's fragments.
Places(lists) == UNION {{<<l, i>> : i \in DOMAIN lists[l]} : l \in DOMAIN lists}
Fragment(lists, p) == lists[p[1]][p[2]]

PlaceOf(lists, f) == CHOOSE p \in Places(lists) : Fragment(lists, p) = f

\* f may stand before g: no newer, and in front of it if they are of one list.
Before(lists, f, g) ==
    LET p == PlaceOf(lists, f)  q == PlaceOf(lists, g)
    IN  f.ts <= g.ts /\ (p[1] = q[1] => p[2] < q[2])

\* A list alone as it is; of several every fragment, by timestamp and those of a
\* list in their order, and once, as none may stand before itself.
IsMerge(out, lists) == IF Len(lists) = 1 THEN out = lists[1] ELSE
    /\ {out[k] : k \in DOMAIN out} = {Fragment(lists, p) : p \in Places(lists)}
    /\ \A j, k \in DOMAIN out : j < k => Before(lists, out[j], out[k])

Submit ==
    /\ \E b \in Batches : submitted' = Append(submitted, b)
    /\ UNCHANGED delivered

Deliver ==
    /\ Len(delivered) < Len(submitted)
    /\ Len(delivered') = Len(delivered) + 1
    /\ SubSeq(delivered', 1, Len(delivered)) = delivered
    /\ IsMerge(delivered'[Len(delivered) + 1], submitted[Len(delivered) + 1])
    /\ UNCHANGED submitted

Spec == Init /\ [][Submit \/ Deliver]_<<submitted, delivered>>
================================================================================
