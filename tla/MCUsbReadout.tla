------------------------------ MODULE MCUsbReadout ------------------------------
(* UsbReadout for TLC: two acquisition threads, so that one can be on its way out
   when the next run begins. *)
EXTENDS UsbReadout

CONSTANTS W1, W2
Two == {W1, W2}
=================================================================================
