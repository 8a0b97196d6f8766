------------------------------ MODULE RingStream ------------------------------
(***************************************************************************)
(* What a ring buffer promises (CRingBuffer.cpp, the comments of put, get  *)
(* and allocateConsumer): the producer publishes an endless stream of      *)
(* bytes; a reader that opens the ring starts at the byte published next   *)
(* and is handed every later byte once, in order; publishing waits for the *)
(* slowest reader.  A byte is its position in the stream.                  *)
(***************************************************************************)
EXTENDS Integers, Sequences

CONSTANTS Readers, Capacity

VARIABLES
    sent,   \* number of bytes published
    open,   \* the readers attached
    pos,    \* how many bytes of the stream each open reader has consumed
    out,    \* bytes handed to a reader's caller and not yet consumed
    ok      \* FALSE once the implementation has made no promise any more

vars == <<sent, open, pos, out, ok>>

Init ==
    /\ sent = 0 /\ open = {} /\ pos \in [Readers -> {0}]
    /\ out = [r \in Readers |-> <<>>] /\ ok = TRUE

Publish ==
    \E n \in 1 .. Capacity :
        /\ \A r \in open : sent + n - pos[r] <= Capacity
        /\ sent' = sent + n
        /\ UNCHANGED <<open, pos, out>>

Open(r) ==
    /\ r \notin open
    /\ open' = open \cup {r} /\ pos' = [pos EXCEPT ![r] = sent]
    /\ UNCHANGED <<sent, out>>

Close(r) ==
    /\ r \in open
    /\ open' = open \ {r} /\ out' = [out EXCEPT ![r] = <<>>]
    /\ UNCHANGED <<sent, pos>>

Fetch(r) ==
    /\ r \in open /\ out[r] = <<>>
    /\ \E k \in 0 .. sent - pos[r] :
        out' = [out EXCEPT ![r] = [i \in 1 .. k |-> pos[r] + i - 1]]
    /\ UNCHANGED <<sent, open, pos>>

Consume(r) ==
    /\ r \in open
    /\ pos' = [pos EXCEPT ![r] = @ + Len(out[r])]
    /\ out' = [out EXCEPT ![r] = <<>>]
    /\ UNCHANGED <<sent, open>>

Step == Publish \/ \E r \in Readers : Open(r) \/ Close(r) \/ Fetch(r) \/ Consume(r)

Next == (ok' /\ ok /\ Step) \/ ~ok'

Spec == Init /\ [][Next]_vars
==============================================================================
