--------------------------- MODULE RingStreamProofs ---------------------------
(***************************************************************************)
(* What the ring hands out.  RingBufferProofs shows where the offsets are  *)
(* (RingInv); here are the bytes.  StreamInv adds three parts to RingInv:  *)
(* what put has copied and not yet published (FreshInv), what a consumer   *)
(* still has to read (UnreadInv), and what get has decided and copied      *)
(* (FetchInv).  DataIntact, GetIsExact and the refinement of RingStream    *)
(* follow from it.                                                         *)
(***************************************************************************)
EXTENDS RingBufferProofs

USE DEF Procs, shared, locals, ghosts

\* The steps that change an offset, a position or a byte of the ring.
Moves ==
    \/ \E p \in Producers : PutCopy(p) \/ PutSkip(p) \/ PutWrap(p)
    \/ \E c \in Consumers : CompareOffset(c) \/ CopyOffset(c) \/ GetSkip(c) \/ GetWrap(c)

\* All other steps leave the ring's contents and everybody's place in it alone.
LEMMA Still ==
    ASSUME [Next]_vars, ~Moves
    PROVE  UNCHANGED <<putOff, slotOff, mem, written, readPos>>
<1>1. ASSUME NEW p \in Procs, Lock(p) \/ Notify(p) \/ Detach(p) \/ Disconnect(p)
                              \/ Die(p) \/ ReleaseDead(p)
      PROVE  UNCHANGED <<putOff, slotOff, mem, written, readPos>>
    BY <1>1 DEF Lock, Notify, Detach, Disconnect, Die, ReleaseDead
<1>2. ASSUME NEW p \in Producers, FindProducer(p) \/ ClaimProducer(p) \/ Put(p)
      PROVE  UNCHANGED <<putOff, slotOff, mem, written, readPos>>
    BY <1>2 DEF Moves, Put, FindProducer, ClaimProducer, PutBegin, ScanTest, ScanUse,
                ScanFree, PutReady, PutRetry, PutTimeout
<1>3. ASSUME NEW c \in Consumers, Join(c) \/ Get(c)
      PROVE  UNCHANGED <<putOff, slotOff, mem, written, readPos>>
    BY <1>3 DEF Moves, Join, Get, FindSlot, ClaimSlot, PublishPid, GetBegin, LoadFirst,
                GetEnough, GetRetry, GetTimeout, GetSize, PeekCheck, PeekSize, PeekCopy
<1>4. CASE UNCHANGED vars
    BY <1>4 DEF vars
<1> QED
    BY <1>1, <1>2, <1>3, <1>4 DEF Next

\* And nobody starts to read or changes record.
LEMMA StillReading ==
    ASSUME TypeOK, [Next]_vars, ~Moves, NEW d \in Consumers, pc'[d] \in Reading
    PROVE  pc[d] \in Reading /\ mySlot'[d] = mySlot[d]
<1>a. pc \in [Procs -> Labels] /\ mySlot \in [Consumers -> Slots \cup {NoSlot}]
    BY DEF TypeOK
<1>1. ASSUME NEW p \in Procs, Lock(p) \/ Notify(p) \/ Detach(p) \/ Disconnect(p)
                              \/ Die(p) \/ ReleaseDead(p)
      PROVE  pc[d] \in Reading /\ mySlot'[d] = mySlot[d]
    BY <1>a, <1>1, ProcsAssumption
        DEF Lock, Notify, Detach, Disconnect, Die, ReleaseDead, Goto, Forget, Reading
<1>2. ASSUME NEW p \in Producers, FindProducer(p) \/ ClaimProducer(p) \/ Put(p)
      PROVE  pc[d] \in Reading /\ mySlot'[d] = mySlot[d]
    BY <1>a, <1>2, ProcsAssumption
        DEF Moves, Put, FindProducer, ClaimProducer, PutBegin, ScanTest, ScanUse,
            ScanFree, PutReady, PutRetry, PutTimeout, Goto, Refuse, NextSlot, Return
<1>3. ASSUME NEW c \in Consumers, Join(c) \/ Get(c)
      PROVE  pc[d] \in Reading /\ mySlot'[d] = mySlot[d]
    BY <1>a, <1>3, ProcsAssumption
       DEF Moves, Join, Get, FindSlot, ClaimSlot, PublishPid, GetBegin, LoadFirst,
           GetEnough, GetRetry, GetTimeout, GetSize, PeekCheck, PeekSize, PeekCopy,
           Goto, Refuse, Stage, Return, Reading
<1>4. CASE UNCHANGED vars
    BY <1>4 DEF vars
<1> QED
    BY <1>1, <1>2, <1>3, <1>4 DEF Next

-----------------------------------------------------------------------------
\* put copies into cells no consumer has still to read.
LEMMA CopyMisses ==
    ASSUME NEW P \in 0 .. Size - 1, NEW off \in 0 .. 2 * Size - 1, NEW n \in Nat,
           Distance(P, off) + n <= Size - 1, NEW j \in 0 .. Distance(P, off) - 1
    PROVE  LET x == Cell(Cell(off) + j)
           IN  x \in 0 .. Size - 1 /\ ~((IF x >= P THEN x - P ELSE x - P + Size) < n)
BY SizeAssumption DEF Distance, Cell

\* It copies byte i of the item to the i-th cell from the put offset.
LEMMA CopyHits ==
    ASSUME NEW P \in 0 .. Size - 1, NEW i \in 0 .. Size - 1
    PROVE  LET x == Cell(P + i)
           IN  x \in 0 .. Size - 1 /\ (IF x >= P THEN x - P ELSE x - P + Size) = i
BY SizeAssumption DEF Cell

\* The cells behind what is unread are the ones from the put offset on.
LEMMA CellsBehind ==
    ASSUME NEW P \in 0 .. Size - 1, NEW off \in 0 .. 2 * Size - 1, NEW i \in Nat,
           Distance(P, off) + i <= Size - 1
    PROVE  Cell(Cell(off) + Distance(P, off) + i) = Cell(P + i)
BY SizeAssumption DEF Distance, Cell

\* Byte n + j from an offset is byte j from the offset moved on by n.
LEMMA CellsMoved ==
    ASSUME NEW off \in 0 .. Size - 1, NEW n \in Nat, NEW j \in Nat, n + j <= Size - 1
    PROVE  Cell(Cell(off + n) + j) = Cell(off + (n + j))
BY SizeAssumption DEF Cell

\* What a consumer still has to read stays in its cells.
LEMMA UnreadNext ==
    ASSUME RingInv, FreshInv, UnreadInv, [Next]_vars, races' = {}, NEW d \in Consumers
    PROVE  UnreadOk(d)'
<1>a. /\ TypeOK /\ LockExclusive /\ IndexInv
      /\ OwnInv /\ PutInv /\ ReadInv /\ TakeInv /\ ScanInv
    BY CalmBefore DEF RingInv
<1>b. /\ pc \in [Procs -> Labels] /\ putOff \in 0 .. 2 * Size - 1
      /\ mySlot \in [Consumers -> Slots \cup {NoSlot}] /\ slotOff \in [Slots -> Int]
      /\ readPos \in [Consumers -> Int] /\ written \in Int
      /\ mem \in [0 .. Size - 1 -> Int]
    BY <1>a DEF TypeOK, PutInv
<1>c. ReadOk(d) /\ UnreadOk(d) /\ (\A c \in Consumers : TakeOk(c))
      /\ \A p \in Producers : PutOk(p) /\ ScanOk(p, d) /\ FreshOk(p)
    BY <1>a DEF ReadInv, UnreadInv, TakeInv, PutInv, ScanInv, FreshInv
<1> SUFFICES ASSUME pc'[d] \in Reading, NEW j \in 0 .. Unread(d)' - 1
             PROVE  Byte(Cell(MyOff(d)) + j)' = readPos'[d] + j
    BY DEF UnreadOk
<1> USE SizeAssumption, ProcsAssumption DEF Goto
<1>d. pc[d] \in Reading =>
        /\ mySlot[d] \in Slots /\ MyOff(d) \in 0 .. 2 * Size - 1
        /\ Unread(d) = Distance(putOff, MyOff(d)) /\ Unread(d) \in 0 .. Size - 1
    <2> SUFFICES ASSUME pc[d] \in Reading
                 PROVE  /\ mySlot[d] \in Slots /\ MyOff(d) \in 0 .. 2 * Size - 1
                        /\ Unread(d) = Distance(putOff, MyOff(d))
                        /\ Unread(d) \in 0 .. Size - 1
        OBVIOUS
    <2>1. MyOff(d) \in 0 .. 2 * Size - 1 /\ Unread(d) = Distance(putOff, MyOff(d))
        BY <1>c DEF ReadOk
    <2>2. mySlot[d] \in Slots
        BY <1>a DEF IndexInv, Reading
    <2> QED
        BY <1>b, <2>1, <2>2, DistanceRange
<1>1. ASSUME NEW p \in Producers, PutCopy(p)
      PROVE  Byte(Cell(MyOff(d)) + j)' = readPos'[d] + j
    <2> DEFINE x == Cell(Cell(MyOff(d)) + j)
    <2>1. /\ pc[d] \in Reading /\ MyOff(d)' = MyOff(d) /\ Unread(d)' = Unread(d)
          /\ readPos' = readPos
        BY <1>b, <1>1 DEF PutCopy, MyOff, Unread
    <2>2. /\ putOff \in 0 .. Size - 1 /\ want[p].min \in Nat
          /\ Unread(d) + want[p].min <= Size - 1
        <3>1. putOff \in 0 .. Size - 1 /\ want[p].min \in Nat
            BY <1>a, <1>b, <1>1 DEF PutCopy, TypeOK, Wants
        <3>2. /\ want[p].min <= scan[p].free /\ scan[p].free \in 0 .. Size - 1
              /\ Unread(d) + scan[p].free <= Size - 1
            BY <1>c, <1>1, <2>1 DEF PutCopy, PutOk, ScanOk, Passed
        <3> QED
            BY <1>d, <2>1, <3>1, <3>2
    <2>3. x \in 0 .. Size - 1
          /\ ~((IF x >= putOff THEN x - putOff ELSE x - putOff + Size) < want[p].min)
        BY <1>d, <2>1, <2>2, CopyMisses
    <2>4. mem'[x] = mem[x]
        <3> HIDE DEF x
        <3> QED
            BY <1>1, <2>3 DEF PutCopy
    <2>5. Byte(Cell(MyOff(d)) + j) = readPos[d] + j
        BY <1>c, <2>1 DEF UnreadOk
    <2> QED
        BY <2>1, <2>3, <2>4, <2>5 DEF Byte
<1>2. ASSUME NEW p \in Producers, PutSkip(p)
      PROVE  Byte(Cell(MyOff(d)) + j)' = readPos'[d] + j
    <2> DEFINE n == want[p].min
    <2>1. /\ pc[d] \in Reading /\ MyOff(d)' = MyOff(d) /\ Unread(d)' = Unread(d) + n
          /\ readPos' = readPos /\ mem' = mem
        <3>1. n \in Nat /\ written' = written + n /\ UNCHANGED <<slotOff, mySlot, readPos, mem>>
            BY <1>a, <1>2 DEF PutSkip, TypeOK, Wants
        <3>2. pc[d] \in Reading
            BY <1>b, <1>2 DEF PutSkip, Return
        <3> HIDE DEF n
        <3> QED
            BY <1>b, <3>1, <3>2 DEF MyOff, Unread
    <2>2. putOff \in 0 .. Size - 1 /\ n \in Nat /\ Unread(d) + n <= Size - 1
        <3>1. putOff \in 0 .. Size - 1 /\ want[p].min \in Nat
            BY <1>a, <1>b, <1>c, <1>2 DEF PutSkip, TypeOK, Wants, PutOk, Active, Labels
        <3>2. /\ want[p].min <= scan[p].free /\ scan[p].free \in 0 .. Size - 1
              /\ Unread(d) + scan[p].free <= Size - 1
            BY <1>c, <1>2, <2>1 DEF PutSkip, PutOk, ScanOk, Passed
        <3> QED
            BY <1>d, <2>1, <3>1, <3>2
    <2>3. CASE j < Unread(d)
        <3>1. Byte(Cell(MyOff(d)) + j) = readPos[d] + j
            BY <1>c, <1>d, <2>1, <2>3 DEF UnreadOk
        <3> QED
            BY <2>1, <3>1 DEF Byte
    <2>4. CASE j >= Unread(d)
        <3> DEFINE i == j - Unread(d)
        <3>1. i \in 0 .. n - 1 /\ j = Unread(d) + i
            BY <1>d, <2>1, <2>2, <2>4
        <3>2. Byte(putOff + i) = written + i
            BY <1>c, <1>2, <3>1 DEF FreshOk, PutSkip
        <3>3. Cell(Cell(MyOff(d)) + j) = Cell(putOff + i)
            <4>1. Cell(Cell(MyOff(d)) + Distance(putOff, MyOff(d)) + i) = Cell(putOff + i)
                BY <1>d, <2>1, <2>2, <3>1, CellsBehind
            <4>2. Cell(MyOff(d)) \in Int
                BY <1>d, <2>1 DEF Cell
            <4> HIDE DEF i
            <4>3. Cell(MyOff(d)) + j = Cell(MyOff(d)) + Distance(putOff, MyOff(d)) + i
                BY <1>d, <2>1, <3>1, <4>2
            <4> QED
                BY <4>1, <4>3
        <3>4. written + i = readPos[d] + j
            BY <1>b DEF Unread
        <3> QED
            BY <2>1, <3>2, <3>3, <3>4 DEF Byte
    <2> QED
        BY <1>d, <2>1, <2>3, <2>4
<1>3. ASSUME NEW p \in Producers, PutWrap(p)
      PROVE  Byte(Cell(MyOff(d)) + j)' = readPos'[d] + j
    BY <1>b, <1>c, <1>3 DEF PutWrap, Return, UnreadOk, MyOff, Unread, Byte
<1>4. ASSUME NEW c \in Consumers, CompareOffset(c)
      PROVE  Byte(Cell(MyOff(d)) + j)' = readPos'[d] + j
    <2>1. CASE c = d
        <3>1. pc'[d] = "publish" /\ readPos'[d] = written /\ written' = written
            BY <1>b, <1>4, <2>1 DEF CompareOffset, Reading
        <3>2. Unread(d)' = 0
            BY <1>b, <3>1 DEF Unread
        <3> QED
            BY <3>2
    <2>2. CASE c # d
        <3>1. /\ pc[d] \in Reading /\ MyOff(d)' = MyOff(d) /\ Unread(d)' = Unread(d)
              /\ readPos'[d] = readPos[d] /\ mem' = mem
            BY <1>b, <1>4, <2>2 DEF CompareOffset, MyOff, Unread
        <3> QED
            BY <1>c, <3>1 DEF UnreadOk, Byte
    <2> QED
        BY <2>1, <2>2
<1>5. ASSUME NEW c \in Consumers, CopyOffset(c)
      PROVE  Byte(Cell(MyOff(d)) + j)' = readPos'[d] + j
    <2>1. c # d /\ pc[d] \in Reading
        BY <1>b, <1>5 DEF CopyOffset, Reading
    <2>2. mySlot[c] # mySlot[d]
        BY <1>a, <1>5, <2>1, OneReader DEF CopyOffset, Holding, Reading
    <2>3. /\ MyOff(d)' = MyOff(d) /\ Unread(d)' = Unread(d)
          /\ readPos'[d] = readPos[d] /\ mem' = mem
        BY <1>b, <1>d, <1>5, <2>1, <2>2 DEF CopyOffset, MyOff, Unread
    <2> QED
        BY <1>c, <2>1, <2>3 DEF UnreadOk, Byte
<1>6. ASSUME NEW c \in Consumers, GetSkip(c)
      PROVE  Byte(Cell(MyOff(d)) + j)' = readPos'[d] + j
    <2>1. CASE c = d
        <3> DEFINE n == take[d].size
        <3>1. /\ pc[d] \in Reading /\ mem' = mem /\ n \in Nat /\ n <= Unread(d)
              /\ MyOff(d) \in 0 .. Size - 1
            BY <1>a, <1>b, <1>c, <1>6, <2>1
                DEF GetSkip, Reading, TakeOk, ReadOk, TypeOK, Takes
        <3>2. slotOff'[mySlot[d]] = slotOff[mySlot[d]] + n
              /\ readPos'[d] = readPos[d] + n
              /\ UNCHANGED <<mySlot, written>>
            BY <1>b, <1>d, <1>6, <2>1, <3>1 DEF GetSkip
        <3>3. /\ MyOff(d)' = MyOff(d) + n /\ Unread(d)' = Unread(d) - n
            BY <1>b, <3>1, <3>2, SMTT(30) DEF MyOff, Unread
        <3>4. j \in Nat /\ n + j \in 0 .. Unread(d) - 1 /\ n + j <= Size - 1
            BY <1>d, <3>1, <3>3
        <3>5. Byte(Cell(MyOff(d)) + (n + j)) = readPos[d] + (n + j)
            BY <1>c, <3>1, <3>4 DEF UnreadOk
        <3>6. Cell(MyOff(d)) = MyOff(d)
            BY <3>1 DEF Cell
        <3>7. Cell(Cell(MyOff(d) + n) + j) = Cell(MyOff(d) + (n + j))
            BY <3>1, <3>4, CellsMoved, ZenonT(60)
        <3> HIDE DEF n
        <3>8. Byte(Cell(MyOff(d)) + j)' = Byte(MyOff(d) + (n + j))
            BY <3>1, <3>3, <3>7 DEF Byte
        <3> QED
            BY <1>b, <3>1, <3>2, <3>5, <3>6, <3>8
    <2>2. CASE c # d
        <3>1. pc[d] \in Reading
            BY <1>b, <1>6, <2>2 DEF GetSkip, GetReturn, Return
        <3>2. mySlot[c] # mySlot[d]
            BY <1>a, <1>6, <2>2, <3>1, OneReader DEF GetSkip, Holding, Reading
        <3>3. /\ MyOff(d)' = MyOff(d) /\ Unread(d)' = Unread(d)
              /\ readPos'[d] = readPos[d] /\ mem' = mem
            BY <1>b, <1>d, <1>6, <2>2, <3>1, <3>2 DEF GetSkip, MyOff, Unread
        <3> QED
            BY <1>c, <3>1, <3>3 DEF UnreadOk, Byte
    <2> QED
        BY <2>1, <2>2
<1>7. ASSUME NEW c \in Consumers, GetWrap(c)
      PROVE  Byte(Cell(MyOff(d)) + j)' = readPos'[d] + j
    <2>1. pc[d] \in Reading /\ readPos' = readPos /\ mem' = mem /\ Unread(d)' = Unread(d)
        BY <1>b, <1>7 DEF GetWrap, GetReturn, Return, Reading, Unread
    <2>2. Cell(MyOff(d))' = Cell(MyOff(d))
        <3>1. CASE c = d
            BY <1>b, <1>c, <1>d, <1>7, <2>1, <3>1 DEF GetWrap, ReadOk, MyOff, Cell
        <3>2. CASE c # d
            <4>1. mySlot[c] # mySlot[d]
                BY <1>a, <1>7, <2>1, <3>2, OneReader DEF GetWrap, Holding, Reading
            <4> QED
                BY <1>b, <1>d, <1>7, <2>1, <4>1 DEF GetWrap, MyOff
        <3> QED
            BY <3>1, <3>2
    <2>3. Byte(Cell(MyOff(d)) + j) = readPos[d] + j
        BY <1>c, <2>1 DEF UnreadOk
    <2> QED
        BY <2>1, <2>2, <2>3 DEF Byte
<1>8. CASE ~Moves
    <2>1. UNCHANGED <<putOff, slotOff, mem, written, readPos>>
        BY <1>8, Still
    <2>2. pc[d] \in Reading /\ mySlot'[d] = mySlot[d]
        BY <1>a, <1>8, StillReading
    <2> QED
        BY <1>c, <2>1, <2>2 DEF UnreadOk, MyOff, Unread, Byte
<1> QED
    BY <1>1, <1>2, <1>3, <1>4, <1>5, <1>6, <1>7, <1>8 DEF Moves

\* What put has copied stays there until it is published.
LEMMA FreshNext ==
    ASSUME RingInv, FreshInv, [Next]_vars, races' = {}, NEW q \in Producers
    PROVE  FreshOk(q)'
<1>a. TypeOK /\ OwnInv /\ PutInv
    BY CalmBefore DEF RingInv
<1>b. /\ pc \in [Procs -> Labels] /\ putOff \in 0 .. 2 * Size - 1
      /\ want \in [Procs -> Wants]
    BY <1>a DEF TypeOK, PutInv
<1>c. FreshOk(q) /\ PutOk(q)
    BY <1>a DEF FreshInv, PutInv
<1> USE SizeAssumption, ProcsAssumption DEF Goto
<1>1. ASSUME NEW p \in Procs, Lock(p) \/ Notify(p) \/ Detach(p) \/ Disconnect(p)
                              \/ Die(p) \/ ReleaseDead(p)
      PROVE  FreshOk(q)'
    BY <1>b, <1>c, <1>1
        DEF Lock, Notify, Detach, Disconnect, Die, ReleaseDead, FreshOk, Byte
<1>2. ASSUME NEW p \in Producers, p # q, FindProducer(p) \/ ClaimProducer(p) \/ Put(p)
      PROVE  FreshOk(q)'
    <2>1. pc'[q] = pc[q] /\ want'[q] = want[q]
        BY <1>b, <1>2
            DEF FindProducer, ClaimProducer, Put, PutBegin, ScanTest, ScanUse, ScanFree,
                PutReady, PutRetry, PutTimeout, PutCopy, PutSkip, PutWrap, Refuse,
                NextSlot, Return
    <2>2. CASE pc[q] = "skip"
        <3>1. pc[p] \notin Active
            BY <1>2, <1>a, <2>2, OneProducer DEF Active, Labels
        <3>2. UNCHANGED <<putOff, mem, written>>
            BY <1>2, <3>1
                DEF FindProducer, ClaimProducer, Put, PutBegin, ScanTest, ScanUse,
                    ScanFree, PutReady, PutRetry, PutTimeout, PutCopy, PutSkip, PutWrap,
                    Active, Labels
        <3> QED
            BY <1>c, <2>1, <3>2 DEF FreshOk, Byte
    <2>3. CASE pc[q] # "skip"
        BY <1>c, <2>1, <2>3 DEF FreshOk
    <2> QED
        BY <2>2, <2>3
<1>3. CASE FindProducer(q) \/ ClaimProducer(q) \/ ScanTest(q) \/ ScanUse(q)
           \/ ScanFree(q) \/ PutReady(q) \/ PutRetry(q) \/ PutTimeout(q)
    <2>1. /\ pc'[q] # "skip"
          /\ pc'[q] \in {"test", "use", "free", "decide", "copy"} =>
                /\ want'[q] = want[q]
                /\ pc[q] \in {"test", "use", "free", "decide", "copy"}
        BY <1>b, <1>3
            DEF FindProducer, ClaimProducer, ScanTest, ScanUse, ScanFree, PutReady,
                PutRetry, PutTimeout, Refuse, NextSlot, Return
    <2> QED
        BY <1>c, <2>1 DEF FreshOk
<1>4. CASE PutBegin(q)
    <2>1. want'[q].min > 0 /\ pc'[q] = "test"
        BY <1>b, <1>4 DEF PutBegin
    <2> QED
        BY <2>1 DEF FreshOk
<1>5. CASE PutCopy(q)
    <2>1. pc'[q] = "skip" /\ want' = want /\ putOff' = putOff /\ written' = written
        BY <1>b, <1>5 DEF PutCopy
    <2>2. /\ putOff \in 0 .. Size - 1 /\ want[q].min \in 1 .. Size - 1
        <3>1. want[q].min \in Nat
            BY <1>b DEF Wants
        <3>2. want[q].min > 0 /\ want[q].min <= scan[q].free /\ scan[q].free \in 0 .. Size - 1
            BY <1>c, <1>5 DEF PutCopy, FreshOk, PutOk
        <3> QED
            BY <1>b, <1>5, <3>1, <3>2 DEF PutCopy
    <2>3. ASSUME NEW i \in 0 .. want[q].min - 1 PROVE Byte(putOff + i)' = written + i
        <3> DEFINE x == Cell(putOff + i)
        <3>1. i \in 0 .. Size - 1
            BY <2>2
        <3>2. x \in 0 .. Size - 1
              /\ (IF x >= putOff THEN x - putOff ELSE x - putOff + Size) = i
            BY <2>2, <3>1, CopyHits
        <3>3. mem'[x] = written + i
            <4> HIDE DEF x
            <4>1. i < want[q].min
                BY <2>2
            <4> QED
                BY <1>5, <3>2, <4>1 DEF PutCopy
        <3> QED
            BY <2>1, <3>2, <3>3 DEF Byte
    <2> QED
        BY <2>1, <2>2, <2>3 DEF FreshOk
<1>6. CASE PutSkip(q) \/ PutWrap(q)
    BY <1>b, <1>6 DEF PutSkip, PutWrap, Return, FreshOk
<1>7. ASSUME NEW c \in Consumers, Join(c) \/ Get(c)
      PROVE  FreshOk(q)'
    <2>1. UNCHANGED <<putOff, mem, written>> /\ pc'[q] = pc[q] /\ want'[q] = want[q]
        BY <1>b, <1>7
           DEF Join, Get, FindSlot, ClaimSlot, CompareOffset, CopyOffset, PublishPid,
               GetBegin, LoadFirst, GetEnough, GetRetry, GetTimeout, GetSize, PeekCheck,
               PeekSize, PeekCopy, GetSkip, GetWrap, Refuse, Stage, Return, GetReturn
    <2> QED
        BY <1>c, <2>1 DEF FreshOk, Byte
<1>8. CASE UNCHANGED vars
    BY <1>c, <1>8 DEF vars, FreshOk, Byte
<1> QED
    BY <1>1, <1>2, <1>3, <1>4, <1>5, <1>6, <1>7, <1>8 DEF Next, Put

-----------------------------------------------------------------------------
\* However the two loads of the put offset are torn, availableData() does not
\* report less than there is.
LEMMA AvailableCovers ==
    ASSUME NEW p1 \in Int, NEW P \in 0 .. 2 * Size - 1, NEW off \in 0 .. Size - 1,
           p1 < off => P < off
    PROVE  Difference(p1, off, P, off) >= Distance(P, off)
BY SizeAssumption DEF Difference, Distance, Cell, SizeT

\* A step of anybody else leaves a get alone, but for new bytes to read.
LEMMA OthersLeaveGet ==
    ASSUME TypeOK, [Next]_vars, NEW d \in Consumers,
           ~(Lock(d) \/ Notify(d) \/ Detach(d) \/ Disconnect(d) \/ Die(d) \/ ReleaseDead(d)
             \/ Join(d) \/ Get(d))
    PROVE  /\ pc'[d] = pc[d] /\ want'[d] = want[d] /\ take'[d] = take[d]
           /\ buf'[d] = buf[d] /\ readPos'[d] = readPos[d] /\ written' >= written
<1>a. /\ pc \in [Procs -> Labels] /\ want \in [Procs -> Wants]
      /\ take \in [Consumers -> Takes] /\ buf \in [Consumers -> Seq(Int)]
      /\ readPos \in [Consumers -> Int] /\ written \in Int
      /\ \A p \in Procs : want[p].min \in Nat
    BY DEF TypeOK, Wants
<1> USE ProcsAssumption DEF Goto
<1> DEFINE Goal == /\ pc'[d] = pc[d] /\ want'[d] = want[d] /\ take'[d] = take[d]
                   /\ buf'[d] = buf[d] /\ readPos'[d] = readPos[d] /\ written' >= written
<1>1. ASSUME NEW p \in Procs, p # d,
             Lock(p) \/ Notify(p) \/ Detach(p) \/ Disconnect(p) \/ Die(p) \/ ReleaseDead(p)
      PROVE  Goal
    BY <1>a, <1>1 DEF Lock, Notify, Detach, Disconnect, Die, ReleaseDead
<1>2. ASSUME NEW p \in Producers, FindProducer(p) \/ ClaimProducer(p) \/ Put(p)
      PROVE  Goal
    BY <1>a, <1>2
        DEF FindProducer, ClaimProducer, Put, PutBegin, ScanTest, ScanUse, ScanFree,
            PutReady, PutRetry, PutTimeout, PutCopy, PutSkip, PutWrap, Refuse,
            NextSlot, Return
<1>3. ASSUME NEW c \in Consumers, c # d, Join(c) PROVE Goal
    BY <1>a, <1>3
       DEF Join, FindSlot, ClaimSlot, CompareOffset, CopyOffset, PublishPid, Refuse
<1>4. ASSUME NEW c \in Consumers, c # d, Get(c) PROVE Goal
    BY <1>a, <1>4
       DEF Get, GetBegin, LoadFirst, GetEnough, GetRetry, GetTimeout, GetSize, PeekCheck,
           PeekSize, PeekCopy, GetSkip, GetWrap, Stage, Return, GetReturn
<1>5. CASE UNCHANGED vars
    BY <1>a, <1>5 DEF vars
<1> QED
    BY <1>1, <1>2, <1>3, <1>4, <1>5 DEF Next

\* The loads of a get are exact unless a window was hit.
LEMMA LoadsExact ==
    ASSUME TypeOK, IndexInv, PutInv, ReadInv, TakeInv, NEW c \in Consumers,
           pc[c] = "load2", LoadRaces(c) = {}
    PROVE  Available(c) = Unread(c)
<1>1. /\ take[c].p1 \in Int /\ putOff \in 0 .. 2 * Size - 1
      /\ MyOff(c) \in 0 .. Size - 1 /\ Unread(c) = Distance(putOff, MyOff(c))
      /\ take[c].p1 < MyOff(c) => putOff < MyOff(c)
    BY DEF TypeOK, Takes, PutInv, ReadInv, ReadOk, Reading, TakeInv, TakeOk
<1>2. ~(take[c].p1 >= MyOff(c) /\ putOff < MyOff(c)) /\ ~(putOff >= MyOff(c) + Size)
    BY DEF LoadRaces, MyOff
<1>3. Difference(take[c].p1, MyOff(c), putOff, MyOff(c)) = Distance(putOff, MyOff(c))
    BY <1>1, <1>2, AvailableIsExact
<1> QED
    BY <1>1, <1>3 DEF Available, MyOff

\* What get has decided and copied stays what its caller is owed.
LEMMA FetchNext ==
    ASSUME RingInv, UnreadInv, FetchInv, [Next]_vars, races' = {}, NEW d \in Consumers
    PROVE  FetchOk(d)'
<1>a. /\ TypeOK /\ IndexInv /\ races = {}
      /\ PutInv /\ ReadInv /\ TakeInv
    BY CalmBefore DEF RingInv
<1>b. /\ pc \in [Procs -> Labels] /\ want \in [Procs -> Wants]
      /\ take \in [Consumers -> Takes] /\ buf \in [Consumers -> Seq(Int)]
      /\ readPos \in [Consumers -> Int] /\ written \in Int
      /\ want[d].min \in Nat /\ want[d].max \in Nat /\ take[d].size \in Nat
    BY <1>a DEF TypeOK, Wants, Takes
<1>c. FetchOk(d) /\ TakeOk(d) /\ UnreadOk(d)
    BY <1>a DEF FetchInv, TakeInv, UnreadInv
<1> USE SizeAssumption, ProcsAssumption DEF Goto, Getting
<1>1. CASE ~(Lock(d) \/ Notify(d) \/ Detach(d) \/ Disconnect(d) \/ Die(d) \/ ReleaseDead(d)
             \/ Join(d) \/ Get(d))
    <2>1. /\ pc'[d] = pc[d] /\ want'[d] = want[d] /\ take'[d] = take[d]
          /\ buf'[d] = buf[d] /\ readPos'[d] = readPos[d] /\ written' >= written
        BY <1>a, <1>1, OthersLeaveGet
    <2>2. Unread(d)' >= Unread(d) /\ Unread(d) \in Int /\ Unread(d)' \in Int
        <3>1. written' \in Int
            BY <1>a, TypeNext DEF TypeOK
        <3> QED
            BY <1>b, <2>1, <3>1 DEF Unread
    <2> QED
        BY <1>b, <1>c, <2>1, <2>2 DEF FetchOk
<1>2. CASE \/ Lock(d) \/ Notify(d) \/ Detach(d) \/ Disconnect(d) \/ Die(d)
           \/ ReleaseDead(d) \/ Join(d)
    <2>1. pc'[d] \notin Getting
        BY <1>b, <1>2
           DEF Lock, Notify, Detach, Disconnect, Die, ReleaseDead, Join, FindSlot,
               ClaimSlot, CompareOffset, CopyOffset, PublishPid, Refuse
    <2> QED
        BY <2>1 DEF FetchOk
<1>3. CASE GetBegin(d)
    <2>1. /\ pc'[d] = "load1" /\ want'[d].min <= want'[d].max /\ take' = take
        BY <1>b, <1>3 DEF GetBegin
    <2>2. take[d].stage = "wait"
        BY <1>c, <1>3 DEF GetBegin, TakeOk, NoTake
    <2> QED
        BY <2>1, <2>2 DEF FetchOk
<1>4. CASE LoadFirst(d)
    <2>1. /\ pc'[d] = "load2" /\ want' = want /\ readPos' = readPos /\ written' = written
          /\ take'[d].stage = take[d].stage /\ take'[d].size = take[d].size
        BY <1>b, <1>4 DEF LoadFirst, Takes
    <2> QED
        BY <1>c, <1>4, <2>1 DEF FetchOk, LoadFirst, Unread
<1>5. CASE GetEnough(d)
    <2>1. /\ pc'[d] = "load1" /\ want' = want /\ readPos' = readPos /\ written' = written
          /\ take'[d].stage = "size"
        BY <1>b, <1>5 DEF GetEnough, Stage
    <2>2. Available(d) >= want[d].min /\ LoadRaces(d) = {} /\ pc[d] = "load2"
        BY <1>5 DEF GetEnough
    <2>3. Available(d) = Unread(d)
        BY <1>a, <2>2, LoadsExact
    <2> QED
        BY <1>b, <1>c, <2>1, <2>2, <2>3 DEF FetchOk, Unread
<1>6. CASE GetRetry(d)
    <2>1. pc'[d] = "load1" /\ want' = want /\ take'[d].stage = "wait"
        BY <1>b, <1>6 DEF GetRetry, Stage
    <2> QED
        BY <1>c, <1>6, <2>1 DEF FetchOk, GetRetry
<1>7. CASE GetTimeout(d) \/ GetSkip(d) \/ GetWrap(d)
    <2>1. pc'[d] \notin Getting
        BY <1>b, <1>7 DEF GetTimeout, GetSkip, GetWrap, Return, GetReturn
    <2> QED
        BY <2>1 DEF FetchOk
<1>8. CASE GetSize(d)
    <2>1. /\ pc'[d] = "check" /\ want' = want /\ take'[d].stage = "peek"
          /\ take'[d].size = Min2(Available(d), want[d].max)
        BY <1>b, <1>8 DEF GetSize, Stage
    <2>2. LoadRaces(d) = {} /\ pc[d] = "load2" /\ take[d].stage = "size"
        BY <1>8 DEF GetSize
    <2>3. Available(d) = Unread(d)
        BY <1>a, <2>2, LoadsExact
    <2>4. want[d].min <= Available(d) /\ want[d].min <= want[d].max /\ Available(d) \in Int
        BY <1>b, <1>c, <2>2, <2>3 DEF FetchOk, Unread
    <2>5. Min2(Available(d), want[d].max) \in want[d].min .. want[d].max
        BY <1>b, <2>4 DEF Min2
    <2> QED
        BY <2>1, <2>4, <2>5 DEF FetchOk
<1>9. CASE PeekCheck(d)
    <2>1. \/ pc'[d] = "load1" /\ want' = want /\ take' = take
          \/ pc'[d] = "idle"
        BY <1>b, <1>9 DEF PeekCheck, Return
    <2>2. take[d].stage = "peek"
        BY <1>c, <1>9 DEF PeekCheck, TakeOk
    <2> QED
        BY <1>c, <1>9, <2>1, <2>2 DEF FetchOk, PeekCheck
<1>10. CASE PeekSize(d)
    <2>1. /\ pc'[d] = "copy" /\ want' = want /\ take'[d].stage = "peek"
          /\ take'[d].size = take[d].size
          /\ take'[d].copied = Min2(Available(d), take[d].size)
        BY <1>b, <1>10 DEF PeekSize
    <2>2. /\ pc[d] = "load2" /\ take[d].stage = "peek" /\ take[d].size <= Unread(d)
        BY <1>c, <1>10 DEF PeekSize, TakeOk
    <2>3. Available(d) >= Unread(d)
        <3>1. /\ take[d].p1 \in Int /\ putOff \in 0 .. 2 * Size - 1
              /\ MyOff(d) \in 0 .. Size - 1 /\ Unread(d) = Distance(putOff, MyOff(d))
              /\ take[d].p1 < MyOff(d) => putOff < MyOff(d)
            BY <1>a, <1>c, <2>2
                DEF TypeOK, Takes, PutInv, ReadInv, ReadOk, Reading, TakeOk
        <3>2. Difference(take[d].p1, MyOff(d), putOff, MyOff(d)) >= Distance(putOff, MyOff(d))
            BY <3>1, AvailableCovers
        <3> QED
            BY <3>1, <3>2 DEF Available, MyOff
    <2>4. Available(d) \in Nat /\ Unread(d) \in Int
        <3>1. pc[d] \notin {"detached", "attach", "dead"}
            BY <2>2
        <3>2. Available(d) \in Nat
            BY <1>a, <3>1, AvailableNat
        <3>3. Unread(d) \in Int
            BY <1>b DEF Unread
        <3> QED
            BY <3>2, <3>3
    <2>5. Min2(Available(d), take[d].size) = take[d].size
        BY <1>b, <2>2, <2>3, <2>4 DEF Min2
    <2> QED
        BY <1>c, <2>1, <2>2, <2>5 DEF FetchOk
<1>11. CASE PeekCopy(d)
    <2>1. /\ pc[d] = "copy" /\ pc'[d] = "skip" /\ want' = want /\ take' = take
          /\ readPos' = readPos /\ written' = written
          /\ buf'[d] = [i \in 1 .. take[d].copied |-> Byte(MyOff(d) + i - 1)]
        BY <1>b, <1>11 DEF PeekCopy, MyOff
    <2>2. /\ take[d].copied = take[d].size /\ take[d].size <= Unread(d)
          /\ take[d].stage = "peek" /\ MyOff(d) \in 0 .. Size - 1
        BY <1>a, <1>c, <2>1 DEF FetchOk, TakeOk, ReadInv, ReadOk, Reading
    <2>3. ASSUME NEW i \in 1 .. take[d].size
          PROVE  Byte(MyOff(d) + i - 1) = readPos[d] + i - 1
        <3>1. i - 1 \in 0 .. Unread(d) - 1 /\ MyOff(d) + i - 1 = MyOff(d) + (i - 1)
            BY <1>b, <2>2 DEF Unread
        <3>2. Byte(Cell(MyOff(d)) + (i - 1)) = readPos[d] + (i - 1)
            BY <1>c, <2>1, <3>1 DEF UnreadOk, Reading
        <3> QED
            BY <1>b, <2>2, <3>1, <3>2 DEF Cell
    <2>4. buf'[d] = [i \in 1 .. take[d].size |-> readPos[d] + i - 1]
        BY <2>1, <2>2, <2>3
    <2> QED
        BY <1>c, <2>1, <2>2, <2>4 DEF FetchOk
<1> QED
    BY <1>1, <1>2, <1>3, <1>4, <1>5, <1>6, <1>7, <1>8, <1>9, <1>10, <1>11 DEF Get

-----------------------------------------------------------------------------
\* The strengthened invariant holds in every state: the ring's cells, the copies
\* in progress and the bytes handed out are the stream.
THEOREM StreamInvariant == Spec => []StreamInv
<1>1. Init => StreamInv
    <2> SUFFICES ASSUME Init PROVE StreamInv
        OBVIOUS
    <2>1. FreshInv /\ UnreadInv /\ FetchInv
        BY DEF Init, FreshInv, FreshOk, UnreadInv, UnreadOk, FetchInv, FetchOk, Reading,
               Getting
    <2> QED
        BY <2>1, RingInit DEF StreamInv
<1>2. StreamInv /\ [Next]_vars => StreamInv'
    <2> SUFFICES ASSUME StreamInv, [Next]_vars PROVE StreamInv'
        OBVIOUS
    <2>1. RingInv /\ RingInv'
        BY RingNext DEF StreamInv
    <2>2. ASSUME races' = {} PROVE (FreshInv /\ UnreadInv /\ FetchInv)'
        <3>1. FreshInv /\ UnreadInv /\ FetchInv
            BY <2>2, CalmBefore DEF StreamInv
        <3>2. FreshInv'
            BY <2>1, <2>2, <3>1, FreshNext DEF FreshInv
        <3>3. UnreadInv'
            BY <2>1, <2>2, <3>1, UnreadNext DEF UnreadInv
        <3>4. FetchInv'
            BY <2>1, <2>2, <3>1, FetchNext DEF FetchInv
        <3> QED
            BY <3>2, <3>3, <3>4
    <2> QED
        BY <2>1, <2>2 DEF StreamInv
<1> QED
    BY <1>1, <1>2, PTL DEF Spec

\* put never overwrites a byte that a consumer has still to read, also while it is
\* in the middle of its copy (CRingBuffer::put and the free space it waited for).
THEOREM DataSafe == Spec => []DataIntact
<1>1. StreamInv => DataIntact
    <2> SUFFICES ASSUME StreamInv, races = {}, NEW c \in Consumers, pc[c] \in Reading
                 PROVE  LET off == IF pc[c] = "wrap" THEN slotOff[mySlot[c]] - Size
                                                     ELSE slotOff[mySlot[c]]
                        IN  \A j \in 0 .. written - readPos[c] - 1 :
                              Byte(off + j) = readPos[c] + j
        BY DEF DataIntact
    <2>1. UnreadOk(c) /\ ReadOk(c)
        BY DEF StreamInv, UnreadInv, RingInv, ReadInv
    <2>2. Cell(MyOff(c)) = IF pc[c] = "wrap" THEN MyOff(c) - Size ELSE MyOff(c)
        BY <2>1, SizeAssumption DEF ReadOk, Cell
    <2> QED
        BY <2>1, <2>2 DEF UnreadOk, Unread, MyOff
<1> QED
    BY <1>1, StreamInvariant, PTL

\* get hands its caller exactly the bytes that come next, as many as it reports and
\* between minBytes and maxBytes, though it looks at the put offset six times.
THEOREM GetSafe == Spec => []GetIsExact
<1>1. StreamInv => GetIsExact
    <2> SUFFICES ASSUME StreamInv, races = {}, NEW c \in Consumers, pc[c] = "skip"
                 PROVE  /\ Len(buf[c]) = take[c].size
                        /\ take[c].size \in want[c].min .. want[c].max
                        /\ \A i \in DOMAIN buf[c] : buf[c][i] = readPos[c] + i - 1
        BY DEF GetIsExact
    <2>1. FetchOk(c) /\ TakeOk(c) /\ take[c].size \in Nat
        BY DEF StreamInv, FetchInv, RingInv, TakeInv, TypeOK, Takes
    <2>2. buf[c] = [i \in 1 .. take[c].size |-> readPos[c] + i - 1]
        BY <2>1 DEF FetchOk, Getting
    <2>3. Len(buf[c]) = take[c].size
        BY <2>1, <2>2
    <2> QED
        BY <2>1, <2>2, <2>3 DEF FetchOk, TakeOk, Getting
<1> QED
    BY <1>1, StreamInvariant, PTL

-----------------------------------------------------------------------------
(* The ring implements RingStream. *)

\* The mapping: who is attached, and what has been handed out.
Attached == {c \in Consumers : pc[c] \in Reading}
Handed == [c \in Consumers |-> IF pc[c] = "skip" THEN buf[c] ELSE <<>>]

\* A step that leaves the stream alone.
StreamStutter ==
    written' = written /\ readPos' = readPos /\ Attached' = Attached /\ Handed' = Handed

\* A step of the abstract stream, taken by the mapped state.
StreamStep ==
    \/ \E n \in 1 .. Size - 1 :
        /\ \A r \in Attached : written + n - readPos[r] <= Size - 1
        /\ written' = written + n
        /\ readPos' = readPos /\ Attached' = Attached /\ Handed' = Handed
    \/ \E r \in Consumers :
        \/ /\ r \notin Attached
           /\ Attached' = Attached \cup {r} /\ readPos' = [readPos EXCEPT ![r] = written]
           /\ written' = written /\ Handed' = Handed
        \/ /\ r \in Attached
           /\ Attached' = Attached \ {r} /\ Handed' = [Handed EXCEPT ![r] = <<>>]
           /\ written' = written /\ readPos' = readPos
        \/ /\ r \in Attached /\ Handed[r] = <<>>
           /\ \E k \in 0 .. written - readPos[r] :
                Handed' = [Handed EXCEPT ![r] = [i \in 1 .. k |-> readPos[r] + i - 1]]
           /\ written' = written /\ readPos' = readPos /\ Attached' = Attached
        \/ /\ r \in Attached
           /\ readPos' = [readPos EXCEPT ![r] = @ + Len(Handed[r])]
           /\ Handed' = [Handed EXCEPT ![r] = <<>>]
           /\ written' = written /\ Attached' = Attached

\* These are the steps of RingStream, written over the ring's variables.
LEMMA StreamStepIs == StreamStep => Stream!Step
BY DEF StreamStep, Attached, Handed, Stream!Step, Stream!Publish, Stream!Open,
       Stream!Close, Stream!Fetch, Stream!Consume

\* Nobody's attachment changes, and what is handed out neither.
LEMMA Unmoved ==
    ASSUME \A c \in Consumers : /\ pc'[c] \in Reading <=> pc[c] \in Reading
                                /\ pc'[c] = "skip" <=> pc[c] = "skip"
                                /\ pc[c] = "skip" => buf'[c] = buf[c]
    PROVE  Attached' = Attached /\ Handed' = Handed
BY DEF Attached, Handed

\* Leaving, whatever was in hand, is the stream's Close.
LEMMA Leaves ==
    ASSUME NEW d \in Consumers, pc[d] \in Reading, pc'[d] \notin Reading,
           \A c \in Consumers \ {d} : pc'[c] = pc[c] /\ buf'[c] = buf[c],
           written' = written, readPos' = readPos
    PROVE  StreamStep
<1>1. Attached' = Attached \ {d} /\ d \in Attached
    BY DEF Attached
<1>2. Handed' = [Handed EXCEPT ![d] = <<>>]
    <2>1. pc'[d] # "skip"
        BY DEF Reading
    <2> QED
        BY <2>1 DEF Handed
<1> QED
    BY <1>1, <1>2 DEF StreamStep

\* Every step is a step of the stream, or leaves it alone.
LEMMA StreamNext ==
    ASSUME StreamInv, [Next]_vars, races' = {} PROVE StreamStep \/ StreamStutter
<1>a. /\ TypeOK /\ races = {} /\ FetchInv
      /\ PutInv /\ ReadInv /\ TakeInv /\ ScanInv /\ FreshInv /\ UnreadInv
    BY CalmBefore DEF StreamInv, RingInv
<1>b. /\ pc \in [Procs -> Labels] /\ buf \in [Consumers -> Seq(Int)]
      /\ readPos \in [Consumers -> Int] /\ written \in Int
      /\ want \in [Procs -> Wants]
    BY <1>a DEF TypeOK
<1> USE ProcsAssumption, SizeAssumption DEF Goto
<1>1. ASSUME NEW p \in Procs, Lock(p) \/ Disconnect(p) \/ ReleaseDead(p)
      PROVE  StreamStutter
    <2>1. \A c \in Consumers : /\ pc'[c] \in Reading <=> pc[c] \in Reading
                               /\ pc'[c] = "skip" <=> pc[c] = "skip"
                               /\ pc[c] = "skip" => buf'[c] = buf[c]
        BY <1>b, <1>1 DEF Lock, Disconnect, ReleaseDead, Reading
    <2> QED
        BY <1>1, <2>1, Unmoved DEF StreamStutter, Lock, Disconnect, ReleaseDead
<1>2. ASSUME NEW p \in Procs, Notify(p) \/ Detach(p) \/ Die(p)
      PROVE  StreamStep \/ StreamStutter
    <2>1. /\ written' = written /\ readPos' = readPos
          /\ \A c \in Consumers \ {p} : pc'[c] = pc[c] /\ buf'[c] = buf[c]
        BY <1>b, <1>2 DEF Notify, Detach, Die
    <2>2. CASE p \in Consumers /\ pc[p] \in Reading /\ pc'[p] \notin Reading
        BY <2>1, <2>2, Leaves
    <2>3. CASE ~(p \in Consumers /\ pc[p] \in Reading /\ pc'[p] \notin Reading)
        <3>1. p \in Consumers => /\ pc'[p] \in Reading <=> pc[p] \in Reading
                                 /\ pc'[p] # "skip" /\ pc[p] # "skip"
            BY <1>b, <1>2, <2>3 DEF Notify, Detach, Die, Reading
        <3> QED
            BY <2>1, <3>1, Unmoved DEF StreamStutter
    <2> QED
        BY <2>2, <2>3
<1>3. ASSUME NEW p \in Producers, FindProducer(p) \/ ClaimProducer(p) \/ Put(p), ~PutSkip(p)
      PROVE  StreamStutter
    <2>1. /\ \A c \in Consumers : pc'[c] = pc[c]
          /\ buf' = buf /\ written' = written /\ readPos' = readPos
        BY <1>b, <1>3
            DEF FindProducer, ClaimProducer, Put, PutBegin, ScanTest, ScanUse, ScanFree,
                PutReady, PutRetry, PutTimeout, PutCopy, PutWrap, Refuse, NextSlot, Return
    <2> QED
        BY <2>1, Unmoved DEF StreamStutter
<1>4. ASSUME NEW p \in Producers, PutSkip(p) PROVE StreamStep
    <2> DEFINE n == want[p].min
    <2>1. /\ \A c \in Consumers : pc'[c] = pc[c]
          /\ buf' = buf /\ written' = written + n /\ readPos' = readPos
        BY <1>b, <1>4 DEF PutSkip, Return
    <2>2. n \in 1 .. Size - 1 /\ n <= scan[p].free /\ scan[p].free \in Int
        BY <1>a, <1>b, <1>4 DEF PutSkip, FreshInv, FreshOk, PutInv, PutOk, Wants
    <2>3. ASSUME NEW r \in Attached PROVE written + n - readPos[r] <= Size - 1
        <3>1. r \in Consumers /\ pc[r] \in Reading
            BY DEF Attached
        <3>2. Unread(r) + scan[p].free <= Size - 1
            BY <1>a, <1>4, <3>1 DEF PutSkip, ScanInv, ScanOk, Passed
        <3> QED
            BY <1>b, <2>2, <3>1, <3>2, SMTT(30) DEF Unread
    <2>4. Attached' = Attached /\ Handed' = Handed
        BY <2>1, Unmoved
    <2> HIDE DEF n
    <2> QED
        BY <2>1, <2>2, <2>3, <2>4 DEF StreamStep
<1>5. ASSUME NEW c \in Consumers,
             \/ FindSlot(c) \/ ClaimSlot(c) \/ CopyOffset(c) \/ PublishPid(c)
             \/ GetBegin(c) \/ LoadFirst(c) \/ GetEnough(c) \/ GetRetry(c) \/ GetTimeout(c)
             \/ GetSize(c) \/ PeekCheck(c) \/ PeekSize(c) \/ GetWrap(c)
      PROVE  StreamStutter
    <2>1. /\ pc'[c] \in Reading <=> pc[c] \in Reading
          /\ pc'[c] # "skip" /\ pc[c] # "skip"
          /\ written' = written /\ readPos' = readPos
          /\ \A d \in Consumers \ {c} : pc'[d] = pc[d] /\ buf'[d] = buf[d]
        BY <1>b, <1>5
           DEF FindSlot, ClaimSlot, CopyOffset, PublishPid, GetBegin, LoadFirst, GetEnough,
               GetRetry, GetTimeout, GetSize, PeekCheck, PeekSize, GetWrap, Refuse, Stage,
               Return, GetReturn, Reading
    <2> QED
        BY <2>1, Unmoved DEF StreamStutter
<1>6. ASSUME NEW c \in Consumers, CompareOffset(c) PROVE StreamStep \/ StreamStutter
    <2>1. /\ written' = written /\ buf' = buf /\ pc[c] = "compare"
          /\ \A d \in Consumers \ {c} : pc'[d] = pc[d]
        BY <1>b, <1>6 DEF CompareOffset
    <2>2. CASE slotOff[mySlot[c]] # putOff
        <3>1. pc'[c] = "copyoff" /\ readPos' = readPos
            BY <1>b, <1>6, <2>2 DEF CompareOffset
        <3> QED
            BY <2>1, <3>1, Unmoved DEF StreamStutter, Reading
    <2>3. CASE slotOff[mySlot[c]] = putOff
        <3>1. pc'[c] = "publish" /\ readPos' = [readPos EXCEPT ![c] = written]
            BY <1>b, <1>6, <2>3 DEF CompareOffset
        <3>2. Attached' = Attached \cup {c} /\ c \notin Attached
            BY <2>1, <3>1 DEF Attached, Reading
        <3>3. Handed' = Handed
            BY <2>1, <3>1 DEF Handed
        <3> QED
            BY <2>1, <3>1, <3>2, <3>3 DEF StreamStep
    <2> QED
        BY <2>2, <2>3
<1>7. ASSUME NEW c \in Consumers, PeekCopy(c) PROVE StreamStep
    <2>1. /\ pc[c] = "copy" /\ pc'[c] = "skip" /\ written' = written /\ readPos' = readPos
          /\ take' = take
          /\ \A d \in Consumers \ {c} : pc'[d] = pc[d] /\ buf'[d] = buf[d]
        BY <1>b, <1>7 DEF PeekCopy
    <2>2. buf'[c] = [i \in 1 .. take[c].size |-> readPos[c] + i - 1]
        <3>1. FetchOk(c)'
            BY <1>a, FetchNext DEF StreamInv
        <3> QED
            BY <2>1, <3>1 DEF FetchOk, Getting
    <2>3. take[c].size \in 0 .. written - readPos[c]
        BY <1>a, <1>b, <2>1 DEF TakeInv, TakeOk, TypeOK, Takes, Unread
    <2>4. Attached' = Attached /\ c \in Attached
        BY <2>1 DEF Attached, Reading
    <2>5. Handed' = [Handed EXCEPT ![c] = buf'[c]] /\ Handed[c] = <<>>
        BY <2>1 DEF Handed
    <2> QED
        BY <2>1, <2>2, <2>3, <2>4, <2>5 DEF StreamStep
<1>8. ASSUME NEW c \in Consumers, GetSkip(c) PROVE StreamStep
    <2>1. /\ pc[c] = "skip" /\ pc'[c] \in {"wrap", "idle"} /\ written' = written
          /\ readPos' = [readPos EXCEPT ![c] = @ + take[c].size]
          /\ \A d \in Consumers \ {c} : pc'[d] = pc[d] /\ buf'[d] = buf[d]
        BY <1>b, <1>8 DEF GetSkip, GetReturn, Return
    <2>2. Len(buf[c]) = take[c].size
        <3>1. /\ buf[c] = [i \in 1 .. take[c].size |-> readPos[c] + i - 1]
              /\ take[c].size \in Nat
            BY <1>a, <2>1 DEF FetchInv, FetchOk, Getting, TypeOK, Takes
        <3> QED
            BY <3>1
    <2>3. Attached' = Attached /\ c \in Attached
        BY <2>1 DEF Attached, Reading
    <2>4. Handed' = [Handed EXCEPT ![c] = <<>>] /\ Handed[c] = buf[c]
        BY <2>1 DEF Handed
    <2> QED
        BY <2>1, <2>2, <2>3, <2>4 DEF StreamStep
<1>9. CASE UNCHANGED vars
    BY <1>9 DEF vars, StreamStutter, Attached, Handed
<1> QED
    BY <1>1, <1>2, <1>3, <1>4, <1>5, <1>6, <1>7, <1>8, <1>9 DEF Next, Put, Get, Join

\* The ring is the stream of RingStream: whatever the producer and the readers do, and
\* in whatever order their unlocked loads and stores happen, every reader is handed the
\* bytes published since it attached, each once and in order, until a window is hit.
THEOREM RingIsStream == Spec => IsStream
<1>1. Init => Stream!Init
    BY ProcsAssumption, SizeAssumption DEF Init, Stream!Init, Reading
<1>2. StreamInv /\ [Next]_vars => [Stream!Next]_(Stream!vars)
    <2> SUFFICES ASSUME StreamInv, [Next]_vars PROVE [Stream!Next]_(Stream!vars)
        OBVIOUS
    <2>1. CASE races' # {}
        BY <2>1 DEF Stream!Next
    <2>2. CASE races' = {}
        <3>1. races = {}
            BY <2>2, CalmBefore
        <3>2. CASE StreamStep
            BY <2>2, <3>1, <3>2, StreamStepIs DEF Stream!Next
        <3>3. CASE StreamStutter
            BY <2>2, <3>1, <3>3 DEF StreamStutter, Attached, Handed, Stream!vars
        <3> QED
            BY <2>2, <3>2, <3>3, StreamNext
    <2> QED
        BY <2>1, <2>2
<1> QED
    BY <1>1, <1>2, StreamInvariant, PTL DEF Spec, IsStream, Stream!Spec
===============================================================================
