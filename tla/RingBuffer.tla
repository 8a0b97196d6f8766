------------------------------ MODULE RingBuffer ------------------------------
(***************************************************************************)
(* The shared memory ring of base/dataflow/CRingBuffer.cpp: one producer   *)
(* and up to MaxConsumers consumers, each a process that maps the ring and *)
(* reads and writes the client records of the others without a lock.  Only *)
(* attaching and detaching are serialised, by a POSIX record lock.         *)
(*                                                                         *)
(* An action is one access to a word another process may change: the       *)
(* offsets are volatile, so difference() loads the peer's offset twice and *)
(* Skip() stores its own twice.  Offsets are counted from s_dataOffset, so *)
(* the data cells are 0 .. Size-1 and s_topOffset is Size-1; an offset     *)
(* stored by the first half of Skip() may for a moment be larger.          *)
(***************************************************************************)
EXTENDS Integers, FiniteSets, Sequences

CONSTANTS
    Producers,      \* processes that construct a CRingBuffer in producer mode
    Consumers,      \* processes that construct one in consumer mode
    MaxConsumers,   \* s_maxConsumer, the number of consumer records
    Size,           \* s_dataBytes
    Word,           \* 2^64: a size_t below zero wraps to just below this
    NoClient,       \* s_pid = -1
    Joining,        \* s_pid = 0
    Mortal,         \* the processes that may die without their destructor
    MaxBytes,       \* bound: bytes written in a behaviour
    PutSizes,       \* bound: the nBytes passed to put
    GetSizes,       \* bound: the [min, max] passed to get
    Patience        \* kinds of timeout callers pass, of AnyPatience below

Procs == Producers \cup Consumers
Slots == 0 .. MaxConsumers - 1
NoSlot == MaxConsumers
AnyPatience == {"none", "some", "forever"}  \* 0, finite, ULONG_MAX

ASSUME ProcsAssumption ==
    /\ Producers \cap Consumers = {}
    /\ NoClient \notin Procs /\ Joining \notin Procs /\ NoClient # Joining
    /\ Mortal \subseteq Procs
    /\ Patience \subseteq AnyPatience
ASSUME SizeAssumption ==
    /\ Size \in Nat /\ Size > 1
    /\ MaxConsumers \in Nat /\ MaxConsumers > 0
    /\ MaxBytes \in Nat /\ PutSizes \subseteq Nat \ {0}
    /\ GetSizes \subseteq [min : Nat \ {0}, max : Nat]
    /\ \A r \in GetSizes : r.min <= r.max
    /\ Word \in Nat /\ Word > 4 * Size

VARIABLES
    prodPid,    \* s_producer.s_pid
    putOff,     \* s_producer.s_offset
    slotPid,    \* s_consumers[i].s_pid
    slotOff,    \* s_consumers[i].s_offset
    mem,        \* the data cells; a byte is its position in the stream
    lock,       \* holder of the record lock on the ring's header
    usage,      \* RingMaster's entries: who CONNECTed and not DISCONNECTed
    pc,         \* what each process will do next
    mySlot,     \* m_pClientInfo of a consumer
    want,       \* arguments of the call in progress
    scan,       \* locals of availablePutSpace in a producer
    take,       \* locals of get and peek in a consumer
    written,    \* ghost: bytes the producer has published
    readPos,    \* ghost: stream position of each consumer's get offset
    buf,        \* bytes get() has put in its caller's buffer
    races       \* ghost: which of the ring's unguarded windows were hit

shared == <<prodPid, putOff, slotPid, slotOff, mem, lock, usage>>
locals == <<pc, mySlot, want, scan, take, buf>>
ghosts == <<written, readPos, races>>
vars   == <<shared, locals, ghosts>>

Races == {"tornPut", "lapPut", "tornGet", "lapGet", "lateJoin", "transient", "staleRelease"}

\* Definitions named Bad... are mutations of the one that follows, a mistake one
\* could make in the code: the properties must refute them.
NoWant == [min |-> 0, max |-> 0, wait |-> "none"]
BadNoScan == [slot |-> 0, free |-> Size, c1 |-> 0]
NoScan == [slot |-> 0, free |-> Size - 1, c1 |-> 0]
NoTake == [stage |-> "wait", p1 |-> 0, size |-> 0, copied |-> 0]

Init ==
    /\ prodPid = NoClient /\ putOff = 0
    /\ slotPid = [s \in Slots |-> NoClient]
    /\ slotOff = [s \in Slots |-> 0]
    /\ mem = [x \in 0 .. Size - 1 |-> -1]
    /\ lock = NoClient /\ usage = {}
    /\ pc = [p \in Procs |-> "detached"]
    /\ mySlot = [c \in Consumers |-> NoSlot]
    /\ want = [p \in Procs |-> NoWant]
    /\ scan = [p \in Producers |-> NoScan]
    /\ take = [c \in Consumers |-> NoTake]
    /\ written = 0 /\ readPos = [c \in Consumers |-> 0]
    /\ buf = [c \in Consumers |-> <<>>]
    /\ races = {}

-----------------------------------------------------------------------------
(* Offsets and the arithmetic on them. *)

Min2(a, b) == IF a < b THEN a ELSE b

BadSizeT(x) == x
\* Conversion to size_t.
SizeT(x) == x % Word

\* The cell an offset up to one lap too large refers to.
Cell(x) == IF x >= Size THEN x - Size ELSE x

\* A byte at an offset; far enough outside the ring it is whatever is there.
Byte(x) == IF Cell(x) \in 0 .. Size - 1 THEN mem[Cell(x)] ELSE -1

\* difference(): the comparison uses the first loads of the two offsets, the
\* subtraction the second.
Difference(p1, c1, p2, c2) ==
    SizeT(IF p1 >= c1 THEN p2 - c2 ELSE (Size - c2) + p2)

Goto(p, l) == pc' = [pc EXCEPT ![p] = l]

HitIf(cond, race) == races' = IF cond THEN races \cup {race} ELSE races

\* Returning from put or get, with or without a transfer.
Return(p) == Goto(p, "idle") /\ want' = [want EXCEPT ![p] = NoWant]

-----------------------------------------------------------------------------
(* Construction and destruction, under the record lock. *)

BadLock(p) ==
    /\ pc[p] = "detached"
    /\ lock' = p /\ Goto(p, "attach")
    /\ UNCHANGED <<prodPid, putOff, slotPid, slotOff, mem, usage, mySlot, want,
                   scan, take, buf, ghosts>>

Lock(p) ==
    /\ pc[p] = "detached" /\ lock = NoClient
    /\ lock' = p /\ Goto(p, "attach")
    /\ UNCHANGED <<prodPid, putOff, slotPid, slotOff, mem, usage, mySlot, want,
                   scan, take, buf, ghosts>>

Refuse(p) ==    \* EACCES, ENOMEM: unlock and throw
    lock' = NoClient /\ Goto(p, "detached")

\* attach(): look at the record, then take it; only the lock makes the two one.
FindProducer(p) ==
    /\ pc[p] = "attach"
    /\ IF prodPid = NoClient THEN Goto(p, "claim") /\ UNCHANGED lock ELSE Refuse(p)
    /\ UNCHANGED <<prodPid, putOff, slotPid, slotOff, mem, usage, mySlot, want,
                   scan, take, buf, ghosts>>

ClaimProducer(p) ==
    /\ pc[p] = "claim"
    /\ prodPid' = p         \* the put offset is left where it was
    /\ Goto(p, "notify")
    /\ HitIf(putOff >= Size, "transient")
    /\ UNCHANGED <<putOff, slotPid, slotOff, mem, lock, usage, mySlot, want,
                   scan, take, buf, written, readPos>>

FirstFree(s) ==
    slotPid[s] = NoClient /\ \A t \in 0 .. s - 1 : slotPid[t] # NoClient

\* allocateConsumer()
FindSlot(c) ==
    /\ pc[c] = "attach"
    /\ IF \E s \in Slots : FirstFree(s)
       THEN /\ \E s \in Slots : FirstFree(s) /\ mySlot' = [mySlot EXCEPT ![c] = s]
            /\ Goto(c, "claim") /\ UNCHANGED lock
       ELSE Refuse(c) /\ UNCHANGED mySlot
    /\ UNCHANGED <<prodPid, putOff, slotPid, slotOff, mem, usage, want, scan, take,
                   buf, ghosts>>

ClaimSlot(c) ==
    /\ pc[c] = "claim"
    /\ slotPid' = [slotPid EXCEPT ![mySlot[c]] = Joining]
    /\ Goto(c, "compare")
    /\ UNCHANGED <<prodPid, putOff, slotOff, mem, lock, usage, mySlot, want, scan,
                   take, buf, ghosts>>

\* while (p->s_offset != put->s_offset) p->s_offset = put->s_offset;
CompareOffset(c) ==
    /\ pc[c] = "compare"
    /\ IF slotOff[mySlot[c]] # putOff
       THEN Goto(c, "copyoff") /\ UNCHANGED <<readPos, races>>
       ELSE /\ Goto(c, "publish")
            /\ readPos' = [readPos EXCEPT ![c] = written]
            /\ HitIf(putOff >= Size, "transient")
    /\ UNCHANGED <<shared, mySlot, want, scan, take, buf, written>>

CopyOffset(c) ==
    /\ pc[c] = "copyoff"
    /\ slotOff' = [slotOff EXCEPT ![mySlot[c]] = putOff]
    /\ Goto(c, "compare")
    /\ UNCHANGED <<prodPid, putOff, slotPid, mem, lock, usage, mySlot, want,
                   scan, take, buf, ghosts>>

PublishPid(c) ==
    /\ pc[c] = "publish"
    /\ slotPid' = [slotPid EXCEPT ![mySlot[c]] = c]
    /\ Goto(c, "notify")
    /\ UNCHANGED <<prodPid, putOff, slotOff, mem, lock, usage, mySlot, want,
                   scan, take, buf, ghosts>>

\* s_pid = -1 in whichever record m_pClientInfo points to, whoever has it now.
ReleaseRecord(p) ==
    IF p \in Producers
    THEN prodPid' = NoClient /\ UNCHANGED slotPid
    ELSE slotPid' = [slotPid EXCEPT ![mySlot[p]] = NoClient] /\ UNCHANGED prodPid

Forget(p) == mySlot' = [c \in Consumers |-> IF c = p THEN NoSlot ELSE mySlot[c]]

\* CONNECT is answered OK, or the exchange fails and the record is given back.
Notify(p) ==
    /\ pc[p] = "notify" /\ lock' = NoClient
    /\ \/ usage' = usage \cup {p} /\ Goto(p, "idle")
          /\ UNCHANGED <<prodPid, slotPid, mySlot>>
       \/ ReleaseRecord(p) /\ Goto(p, "detached") /\ Forget(p)
          /\ UNCHANGED usage
    /\ UNCHANGED <<putOff, slotOff, mem, want, scan, take, buf, ghosts>>

\* ~CRingBuffer: lock and clear the pid, then DISCONNECT, unmap and unlock.
Detach(p) ==
    /\ pc[p] = "idle" /\ lock = NoClient
    /\ lock' = p /\ ReleaseRecord(p) /\ Goto(p, "bye")
    /\ UNCHANGED <<putOff, slotOff, mem, usage, mySlot, want, scan, take, buf,
                   ghosts>>

Disconnect(p) ==
    /\ pc[p] = "bye"
    /\ lock' = NoClient /\ usage' = usage \ {p} /\ Forget(p)
    /\ Goto(p, "detached")
    /\ UNCHANGED <<prodPid, putOff, slotPid, slotOff, mem, want, scan, take, buf,
                   ghosts>>

-----------------------------------------------------------------------------
(* put(): wait for space, copy, Skip. *)

PutBegin(p) ==
    /\ pc[p] = "idle" /\ prodPid = p            \* validateTransferAccess
    /\ \E n \in PutSizes, w \in Patience :
        /\ n <= Size /\ written + n <= MaxBytes     \* else CRangeError
        /\ want' = [want EXCEPT ![p] = [min |-> n, max |-> n, wait |-> w]]
    /\ scan' = [scan EXCEPT ![p] = NoScan]
    /\ Goto(p, "test")
    /\ UNCHANGED <<shared, mySlot, take, buf, ghosts>>

\* if (pClients->s_pid == 0): sleep and restart at record 0, whose pid is then
\* not compared with 0 again.
ScanTest(p) ==
    /\ pc[p] = "test"
    /\ scan' = IF slotPid[scan[p].slot] = Joining
               THEN [scan EXCEPT ![p] = NoScan] ELSE scan
    /\ Goto(p, "use")
    /\ UNCHANGED <<shared, mySlot, want, take, buf, ghosts>>

BadNextSlot(p, free) ==
    /\ scan' = [scan EXCEPT ![p] = [slot |-> scan[p].slot + 1, free |-> free, c1 |-> 0]]
    /\ Goto(p, IF scan[p].slot + 2 >= MaxConsumers THEN "decide" ELSE "test")

NextSlot(p, free) ==
    /\ scan' = [scan EXCEPT ![p] = [slot |-> scan[p].slot + 1, free |-> free, c1 |-> 0]]
    /\ Goto(p, IF scan[p].slot + 1 = MaxConsumers THEN "decide" ELSE "test")

\* A record that is still joining but whose offset is already behind ours.
LeftBehind(s) ==
    \E c \in Consumers : /\ mySlot[c] = s /\ pc[c] = "publish"
                         /\ readPos[c] # written

\* if (pClients->s_pid > 0), and the first load of that client's offset.
ScanUse(p) ==
    /\ pc[p] = "use"
    /\ LET s == scan[p].slot IN
        IF slotPid[s] \in Procs
        THEN /\ scan' = [scan EXCEPT ![p] =
                           [slot |-> s, free |-> scan[p].free, c1 |-> slotOff[s]]]
             /\ Goto(p, "free") /\ UNCHANGED races
        ELSE /\ NextSlot(p, scan[p].free)
             /\ HitIf(slotPid[s] = Joining /\ LeftBehind(s), "lateJoin")
    /\ UNCHANGED <<shared, mySlot, want, take, buf, written, readPos>>

\* The second load, and minFree.  Its windows: the get offset wrapped between
\* the loads, or is not wrapped yet though it has passed the top.
ScanFree(p) ==
    /\ pc[p] = "free"
    /\ LET c1 == scan[p].c1
           c2 == slotOff[scan[p].slot]
           free == SizeT(Size - Difference(putOff, c1, putOff, c2) - 1)
       IN  /\ NextSlot(p, Min2(free, scan[p].free))
           /\ races' = races
                 \cup (IF putOff < c1 /\ c2 <= putOff THEN {"tornPut"} ELSE {})
                 \cup (IF putOff + Size < c2 THEN {"lapPut"} ELSE {})
    /\ UNCHANGED <<shared, mySlot, want, take, buf, written, readPos>>

BadPutReady(p) ==
    /\ pc[p] = "decide" /\ want[p].min < scan[p].free
    /\ Goto(p, "copy")
    /\ UNCHANGED <<shared, mySlot, want, scan, take, buf, ghosts>>

PutReady(p) ==
    /\ pc[p] = "decide" /\ want[p].min <= scan[p].free
    /\ Goto(p, "copy")
    /\ UNCHANGED <<shared, mySlot, want, scan, take, buf, ghosts>>

PutRetry(p) ==      \* pollblock and evaluate the predicate again
    /\ pc[p] = "decide" /\ want[p].min > scan[p].free /\ want[p].wait # "none"
    /\ scan' = [scan EXCEPT ![p] = NoScan] /\ Goto(p, "test")
    /\ UNCHANGED <<shared, mySlot, want, take, buf, ghosts>>

PutTimeout(p) ==    \* put returns 0
    /\ pc[p] = "decide" /\ want[p].min > scan[p].free /\ want[p].wait # "forever"
    /\ Return(p) /\ scan' = [scan EXCEPT ![p] = NoScan]
    /\ UNCHANGED <<shared, mySlot, take, buf, ghosts>>

\* memcpy in one or two chunks.  An offset outside the ring makes the size of
\* the first chunk negative: the process faults.
PutCopy(p) ==
    /\ pc[p] = "copy" /\ putOff < Size
    /\ mem' = [x \in 0 .. Size - 1 |->
                 LET i == IF x >= putOff THEN x - putOff ELSE x - putOff + Size
                 IN  IF i < want[p].min THEN written + i ELSE mem[x]]
    /\ Goto(p, "skip")
    /\ UNCHANGED <<prodPid, putOff, slotPid, slotOff, lock, usage, mySlot, want,
                   scan, take, buf, ghosts>>

\* s_offset += nBytes
PutSkip(p) ==
    /\ pc[p] = "skip"
    /\ putOff' = putOff + want[p].min /\ written' = written + want[p].min
    /\ IF putOff' >= Size
       THEN Goto(p, "wrap") /\ UNCHANGED <<want, scan>>
       ELSE Return(p) /\ scan' = [scan EXCEPT ![p] = NoScan]
    /\ UNCHANGED <<prodPid, slotPid, slotOff, mem, lock, usage, mySlot, take,
                   buf, readPos, races>>

\* s_offset = (s_offset - s_topOffset) + s_dataOffset - 1
PutWrap(p) ==
    /\ pc[p] = "wrap" /\ putOff' = putOff - Size
    /\ Return(p) /\ scan' = [scan EXCEPT ![p] = NoScan]
    /\ UNCHANGED <<prodPid, slotPid, slotOff, mem, lock, usage, mySlot, take,
                   buf, ghosts>>

-----------------------------------------------------------------------------
(* get(): wait for minBytes, decide the size, peek (copy), Skip.  Each of   *)
(* the three stages asks availableData(), which loads the put offset twice. *)

GetBegin(c) ==
    /\ pc[c] = "idle" /\ slotPid[mySlot[c]] = c     \* validateTransferAccess
    /\ readPos[c] <= MaxBytes
    /\ \E r \in GetSizes, w \in Patience :
        /\ r.min <= Size                               \* else CRangeError
        /\ want' = [want EXCEPT ![c] = [min |-> r.min, max |-> r.max, wait |-> w]]
    /\ Goto(c, "load1")
    /\ UNCHANGED <<shared, mySlot, scan, take, buf, ghosts>>

LoadFirst(c) ==
    /\ pc[c] = "load1"
    /\ take' = [take EXCEPT ![c].p1 = putOff]
    /\ Goto(c, "load2")
    /\ UNCHANGED <<shared, mySlot, want, scan, buf, ghosts>>

\* What availableData() returns if the second load happens now.
Available(c) == LET off == slotOff[mySlot[c]]
                IN  Difference(take[c].p1, off, putOff, off)

\* The windows of the two loads: the put offset wrapped between them, or it is
\* not wrapped yet though the get offset already is.
LoadRaces(c) ==
    LET off == slotOff[mySlot[c]]
    IN  (IF take[c].p1 >= off /\ putOff < off THEN {"tornGet"} ELSE {})
        \cup (IF putOff >= off + Size THEN {"lapGet"} ELSE {})

Stage(c, stage, size, l) ==
    /\ take' = [take EXCEPT ![c] =
                  [stage |-> stage, p1 |-> 0, size |-> size, copied |-> 0]]
    /\ Goto(c, l)

BadGetEnough(c) ==
    /\ pc[c] = "load2" /\ take[c].stage = "wait" /\ Available(c) > want[c].min
    /\ Stage(c, "size", 0, "load1")
    /\ races' = races \cup LoadRaces(c)
    /\ UNCHANGED <<shared, mySlot, want, scan, buf, written, readPos>>

GetEnough(c) ==
    /\ pc[c] = "load2" /\ take[c].stage = "wait" /\ Available(c) >= want[c].min
    /\ Stage(c, "size", 0, "load1")
    /\ races' = races \cup LoadRaces(c)
    /\ UNCHANGED <<shared, mySlot, want, scan, buf, written, readPos>>

GetRetry(c) ==      \* pollblock and evaluate the predicate again
    /\ pc[c] = "load2" /\ take[c].stage = "wait" /\ Available(c) < want[c].min
    /\ want[c].wait # "none"
    /\ Stage(c, "wait", 0, "load1")
    /\ UNCHANGED <<shared, mySlot, want, scan, buf, ghosts>>

GetTimeout(c) ==    \* get returns 0
    /\ pc[c] = "load2" /\ take[c].stage = "wait" /\ Available(c) < want[c].min
    /\ want[c].wait # "forever"
    /\ Return(c) /\ take' = [take EXCEPT ![c] = NoTake]
    /\ UNCHANGED <<shared, mySlot, scan, buf, ghosts>>

BadGetSize(c) ==
    /\ pc[c] = "load2" /\ take[c].stage = "size"
    /\ Stage(c, "peek", want[c].max, "check")
    /\ races' = races \cup LoadRaces(c)
    /\ UNCHANGED <<shared, mySlot, want, scan, buf, written, readPos>>

\* transferSize, then into peek().
GetSize(c) ==
    /\ pc[c] = "load2" /\ take[c].stage = "size"
    /\ Stage(c, "peek", Min2(Available(c), want[c].max), "check")
    /\ races' = races \cup LoadRaces(c)
    /\ UNCHANGED <<shared, mySlot, want, scan, buf, written, readPos>>

\* peek's own validateTransferAccess: throws if the record was taken away.
PeekCheck(c) ==
    /\ pc[c] = "check"
    /\ IF slotPid[mySlot[c]] = c
       THEN Goto(c, "load1") /\ UNCHANGED <<want, take>>
       ELSE Return(c) /\ take' = [take EXCEPT ![c] = NoTake]
    /\ UNCHANGED <<shared, mySlot, scan, buf, ghosts>>

\* peek's own size, which get does not look at.
PeekSize(c) ==
    /\ pc[c] = "load2" /\ take[c].stage = "peek"
    /\ take' = [take EXCEPT ![c] =
                  [stage |-> "peek", p1 |-> 0, size |-> take[c].size,
                   copied |-> Min2(Available(c), take[c].size)]]
    /\ Goto(c, "copy")
    /\ UNCHANGED <<shared, mySlot, want, scan, buf, ghosts>>

PeekCopy(c) ==
    /\ pc[c] = "copy" /\ (slotOff[mySlot[c]] < Size \/ take[c].copied = 0)
    /\ buf' = [buf EXCEPT ![c] = [i \in 1 .. take[c].copied |->
                                   Byte(slotOff[mySlot[c]] + i - 1)]]
    /\ Goto(c, "skip")
    /\ UNCHANGED <<shared, mySlot, want, scan, take, ghosts>>

GetReturn(c) ==
    /\ Return(c)
    /\ take' = [take EXCEPT ![c] = NoTake] /\ buf' = [buf EXCEPT ![c] = <<>>]

GetSkip(c) ==
    /\ pc[c] = "skip"
    /\ LET off == slotOff[mySlot[c]] + take[c].size
       IN  /\ slotOff' = [slotOff EXCEPT ![mySlot[c]] = off]
           /\ readPos' = [readPos EXCEPT ![c] = @ + take[c].size]
           /\ IF off >= Size THEN Goto(c, "wrap") /\ UNCHANGED <<want, take, buf>>
                             ELSE GetReturn(c)
    /\ UNCHANGED <<prodPid, putOff, slotPid, mem, lock, usage, mySlot, scan,
                   written, races>>

BadGetWrap(c) ==
    /\ pc[c] = "wrap"
    /\ slotOff' = [slotOff EXCEPT ![mySlot[c]] = @ - Size + 1]
    /\ GetReturn(c)
    /\ UNCHANGED <<prodPid, putOff, slotPid, mem, lock, usage, mySlot, scan, ghosts>>

GetWrap(c) ==
    /\ pc[c] = "wrap"
    /\ slotOff' = [slotOff EXCEPT ![mySlot[c]] = @ - Size]
    /\ GetReturn(c)
    /\ UNCHANGED <<prodPid, putOff, slotPid, mem, lock, usage, mySlot, scan, ghosts>>

-----------------------------------------------------------------------------
(* Death of a process, and what RingMaster then does for it. *)

\* About to copy from or to an offset outside the ring.
Faults(p) ==
    pc[p] = "copy" /\ IF p \in Producers THEN putOff >= Size
                      ELSE slotOff[mySlot[p]] >= Size /\ take[p].copied # 0

\* A client is killed, or faults in a memcpy at an offset outside the ring.
\* The kernel drops its record lock; nothing in the ring changes.
Die(p) ==
    /\ pc[p] \notin {"detached", "dead"}
    /\ p \in Mortal \/ Faults(p)
    /\ Goto(p, "dead")
    /\ lock' = IF lock = p THEN NoClient ELSE lock
    /\ want' = [want EXCEPT ![p] = NoWant]
    /\ scan' = IF p \in Producers THEN [scan EXCEPT ![p] = NoScan] ELSE scan
    /\ take' = IF p \in Consumers THEN [take EXCEPT ![p] = NoTake] ELSE take
    /\ buf' = IF p \in Consumers THEN [buf EXCEPT ![p] = <<>>] ELSE buf
    /\ UNCHANGED <<prodPid, putOff, slotPid, slotOff, mem, usage, mySlot, ghosts>>

\* End of file on the client's socket: RingMaster runs "ringbuffer disconnect"
\* for each entry it still has, which stores -1 without the lock and without
\* looking at the pid that is there.
ReleaseDead(p) ==
    /\ pc[p] = "dead" /\ p \in usage
    /\ usage' = usage \ {p} /\ Forget(p)
    /\ ReleaseRecord(p)
    /\ LET holder == IF p \in Producers THEN prodPid ELSE slotPid[mySlot[p]]
       IN  HitIf(holder \notin {p, NoClient}, "staleRelease")
    /\ UNCHANGED <<putOff, slotOff, mem, lock, pc, want, scan, take, buf,
                   written, readPos>>

-----------------------------------------------------------------------------
Put(p) == \/ PutBegin(p) \/ ScanTest(p) \/ ScanUse(p) \/ ScanFree(p)
          \/ PutReady(p) \/ PutRetry(p) \/ PutTimeout(p)
          \/ PutCopy(p) \/ PutSkip(p) \/ PutWrap(p)

Get(c) == \/ GetBegin(c) \/ LoadFirst(c)
          \/ GetEnough(c) \/ GetRetry(c) \/ GetTimeout(c) \/ GetSize(c)
          \/ PeekCheck(c) \/ PeekSize(c) \/ PeekCopy(c) \/ GetSkip(c) \/ GetWrap(c)

Join(c) == \/ FindSlot(c) \/ ClaimSlot(c)
           \/ CompareOffset(c) \/ CopyOffset(c) \/ PublishPid(c)

Next ==
    \/ \E p \in Procs : Lock(p) \/ Notify(p) \/ Detach(p) \/ Disconnect(p)
                        \/ Die(p) \/ ReleaseDead(p)
    \/ \E p \in Producers : FindProducer(p) \/ ClaimProducer(p) \/ Put(p)
    \/ \E c \in Consumers : Join(c) \/ Get(c)

Spec == Init /\ [][Next]_vars

\* A live process keeps executing the call it is in, RingMaster notices closed
\* sockets, and readers keep calling get; nobody has to attach, detach or put.
PutStep(p) == Put(p) /\ pc[p] # "idle"
FairSpec ==
    /\ Spec
    /\ \A p \in Procs : WF_vars(Notify(p)) /\ WF_vars(Disconnect(p))
                        /\ WF_vars(ReleaseDead(p))
    /\ \A p \in Producers : WF_vars(FindProducer(p) \/ ClaimProducer(p))
                            /\ WF_vars(PutStep(p))
    /\ \A c \in Consumers : WF_vars(Join(c)) /\ WF_vars(Get(c))

-----------------------------------------------------------------------------
(* Properties. *)

Labels == {"detached", "attach", "claim", "compare", "copyoff", "publish", "notify",
           "idle", "test", "use", "free", "decide", "load1", "load2", "check",
           "copy", "skip", "wrap", "bye", "dead"}

Wants == [min : Nat, max : Nat, wait : AnyPatience]
Scans == [slot : 0 .. MaxConsumers, free : Nat, c1 : Int]
Takes == [stage : {"wait", "size", "peek"}, p1 : Int, size : Nat, copied : Nat]

\* Every variable holds a value of its type; free is a size_t.
TypeOK ==
    /\ prodPid \in Producers \cup {NoClient} /\ putOff \in Int
    /\ slotPid \in [Slots -> Consumers \cup {NoClient, Joining}]
    /\ slotOff \in [Slots -> Int]
    /\ mem \in [0 .. Size - 1 -> Int]
    /\ lock \in Procs \cup {NoClient}
    /\ usage \subseteq Procs
    /\ pc \in [Procs -> Labels]
    /\ mySlot \in [Consumers -> Slots \cup {NoSlot}]
    /\ want \in [Procs -> Wants]
    /\ scan \in [Producers -> Scans]
    /\ take \in [Consumers -> Takes]
    /\ written \in Int /\ readPos \in [Consumers -> Int]
    /\ buf \in [Consumers -> Seq(Int)]
    /\ races \subseteq Races

\* The labels at which a process holds the record lock, and those at which a
\* consumer has a stream position that the producer must respect.
Locked  == {"attach", "claim", "compare", "copyoff", "publish", "notify", "bye"}
Reading == {"publish", "notify", "idle", "load1", "load2", "check", "copy",
            "skip", "wrap"}

\* Construction and destruction exclude each other (the comments of the
\* constructor and destructor: synchronized with other processes).
LockExclusive == \A p \in Procs : pc[p] \in Locked => lock = p

\* What a consumer still has to read fits in the ring, whatever the order of
\* the unlocked loads and stores, unless one of the known windows was hit.
NoOverrun ==
    races = {} => \A c \in Consumers :
        pc[c] \in Reading => written - readPos[c] \in 0 .. Size - 1

\* Every byte a consumer still has to read is in its cell, also while the
\* producer is in the middle of a put.
DataIntact ==
    races = {} => \A c \in Consumers : pc[c] \in Reading =>
        LET off == IF pc[c] = "wrap" THEN slotOff[mySlot[c]] - Size
                                     ELSE slotOff[mySlot[c]]
        IN  \A j \in 0 .. written - readPos[c] - 1 :
              Byte(off + j) = readPos[c] + j

\* get() hands over the next bytes of the stream, as many as it says and
\* between minBytes and maxBytes of them, though it looked at the put offset
\* six times.
GetIsExact ==
    races = {} => \A c \in Consumers : pc[c] = "skip" =>
        /\ Len(buf[c]) = take[c].size
        /\ take[c].size \in want[c].min .. want[c].max
        /\ \A i \in DOMAIN buf[c] : buf[c][i] = readPos[c] + i - 1

\* One producer, and no two consumers on one record.
RecordsExclusive ==
    races = {} =>
    /\ \A p \in Producers : pc[p] \notin {"detached", "attach", "claim", "bye", "dead"}
                             => prodPid = p
    /\ \A c \in Consumers : pc[c] \in Reading \ {"publish"}
                             => slotPid[mySlot[c]] = c

-----------------------------------------------------------------------------
(* An inductive invariant.  Until a window is hit, what is still unread of  *)
(* the stream is the distance between the two offsets, and the free space a *)
(* producer has computed so far leaves room for every record it has passed. *)

Active == Labels \ {"detached", "attach", "claim", "bye", "dead"}
Unread(c) == written - readPos[c]
MyOff(c) == slotOff[mySlot[c]]

\* The distance from one offset to the next, each up to a lap too large.
Distance(p, c) == IF Cell(p) >= Cell(c) THEN Cell(p) - Cell(c)
                                        ELSE Cell(p) - Cell(c) + Size

IndexInv ==
    /\ \A p \in Producers : pc[p] \in {"test", "use", "free"} => scan[p].slot \in Slots
    /\ \A c \in Consumers : pc[c] \notin {"detached", "attach", "dead"}
                             => mySlot[c] \in Slots

OwnsRing(p) ==
    /\ pc[p] = "claim" => prodPid = NoClient
    /\ pc[p] \in Active => prodPid = p
OwnsRecord(c) ==
    /\ pc[c] = "claim" => slotPid[mySlot[c]] = NoClient
    /\ pc[c] \in {"compare", "copyoff", "publish"} => slotPid[mySlot[c]] = Joining
    /\ pc[c] \in Reading \ {"publish"} => slotPid[mySlot[c]] = c
OwnInv == (\A p \in Producers : OwnsRing(p)) /\ (\A c \in Consumers : OwnsRecord(c))

\* The put offset of the one active producer; what it may still write.
PutOk(p) ==
    /\ pc[p] \in Active \ {"wrap"} => putOff \in 0 .. Size - 1
    /\ pc[p] = "wrap" => putOff \in Size .. 2 * Size - 1
    /\ pc[p] \in {"test", "use", "free", "decide", "copy", "skip"}
         => scan[p].free \in 0 .. Size - 1
    /\ pc[p] \in {"copy", "skip"} => want[p].min <= scan[p].free
PutInv == putOff \in 0 .. 2 * Size - 1 /\ \A p \in Producers : PutOk(p)

\* A consumer's offset marks its place in the stream.
ReadOk(c) == pc[c] \in Reading =>
    /\ Unread(c) = Distance(putOff, MyOff(c))
    /\ IF pc[c] = "wrap" THEN MyOff(c) \in Size .. 2 * Size - 1
                         ELSE MyOff(c) \in 0 .. Size - 1
ReadInv == \A c \in Consumers : ReadOk(c)

\* What get has learnt from its loads so far stays true.
TakeOk(c) ==
    /\ pc[c] = "load2" /\ take[c].p1 < MyOff(c) => putOff < MyOff(c)
    /\ pc[c] \in {"check", "load1", "load2", "copy", "skip"} /\ take[c].stage = "peek"
         => take[c].size <= Unread(c)
    /\ pc[c] \in {"check", "copy", "skip"} => take[c].stage = "peek"
    /\ pc[c] \notin {"load1", "load2", "check", "copy", "skip", "wrap"}
         => take[c] = NoTake
TakeInv == \A c \in Consumers : TakeOk(c)

Passed(p, s) == \/ pc[p] \in {"test", "use", "free"} /\ s < scan[p].slot
                \/ pc[p] \in {"decide", "copy", "skip"}

\* And so does what put has learnt from the records it has passed.
ScanOk(p, c) == pc[c] \in Reading =>
    /\ Passed(p, mySlot[c]) => Unread(c) + scan[p].free <= Size - 1
    /\ pc[p] = "free" /\ mySlot[c] = scan[p].slot /\ scan[p].c1 <= putOff
         => MyOff(c) <= putOff
ScanInv == \A p \in Producers, c \in Consumers : ScanOk(p, c)

RingInv ==
    /\ TypeOK /\ LockExclusive /\ IndexInv
    /\ races = {} => OwnInv /\ PutInv /\ ReadInv /\ TakeInv /\ ScanInv

\* What put has copied and not yet published is the next part of the stream.
FreshOk(p) ==
    /\ pc[p] \in {"test", "use", "free", "decide", "copy", "skip"} => want[p].min > 0
    /\ pc[p] = "skip" => \A i \in 0 .. want[p].min - 1 : Byte(putOff + i) = written + i
FreshInv == \A p \in Producers : FreshOk(p)

\* Every byte a consumer still has to read is in its cell.
UnreadOk(c) == pc[c] \in Reading =>
    \A j \in 0 .. Unread(c) - 1 : Byte(Cell(MyOff(c)) + j) = readPos[c] + j
UnreadInv == \A c \in Consumers : UnreadOk(c)

\* What get has decided with its six loads, and copied, answers its caller.
Getting == {"load1", "load2", "check", "copy", "skip"}
FetchOk(c) == pc[c] \in Getting =>
    /\ want[c].min <= want[c].max
    /\ take[c].stage = "size" => want[c].min <= Unread(c)
    /\ take[c].stage = "peek" => take[c].size \in want[c].min .. want[c].max
    /\ pc[c] \in {"copy", "skip"} => take[c].copied = take[c].size
    /\ pc[c] = "skip" => buf[c] = [i \in 1 .. take[c].size |-> readPos[c] + i - 1]
FetchInv == \A c \in Consumers : FetchOk(c)

StreamInv == RingInv /\ (races = {} => FreshInv /\ UnreadInv /\ FetchInv)

\* The ring is the stream of RingStream until one of its windows is hit.
Stream == INSTANCE RingStream WITH
    Readers <- Consumers, Capacity <- Size - 1,
    sent <- written, pos <- readPos, ok <- races = {},
    open <- {c \in Consumers : pc[c] \in Reading},
    out <- [c \in Consumers |-> IF pc[c] = "skip" THEN buf[c] ELSE <<>>]
IsStream == Stream!Spec

\* A get for which enough has been published returns, whatever the producer
\* and the other consumers do meanwhile.
GetCompletes ==
    \A c \in Consumers :
        (pc[c] = "load1" /\ written - readPos[c] >= want[c].min)
            ~> (pc[c] \in {"idle", "dead"} \/ races # {})

\* A put that waits forever returns while the readers go on reading one byte
\* or more, provided the consumer records come to rest and no window is hit:
\* a record found joining restarts the search for space.
PutCompletes ==
    <>[](\A s \in Slots : slotPid[s] # Joining) =>
        \A p \in Producers :
            (pc[p] = "test" /\ want[p].min < Size)
                ~> (pc[p] \in {"idle", "dead"} \/ races # {})
==============================================================================
