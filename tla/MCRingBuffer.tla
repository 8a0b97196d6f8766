----------------------------- MODULE MCRingBuffer -----------------------------
(* Instances of RingBuffer for TLC. *)
EXTENDS RingBuffer

CONSTANTS P1, P2, C1, C2

Req(min, max) == [min |-> min, max |-> max]
Get12   == {Req(1, 2)}
GetAll  == {Req(1, 1), Req(1, 2), Req(2, 2), Req(2, 3)}

\* Every property holds by its own terms once a window is hit: the liveness run
\* need not look further.
NoWindowHit == races = {}
==============================================================================
