------------------------------ MODULE MCSbsReadout ------------------------------
(* SbsReadout for TLC: two threads of the trigger loop, so that a failed one can be
   on its way out when the next one runs. *)
EXTENDS SbsReadout

CONSTANTS W1, W2
Two == {W1, W2}
=================================================================================
