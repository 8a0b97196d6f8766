--------------------------- MODULE RingBufferProofs ---------------------------
(***************************************************************************)
(* Proofs about RingBuffer, for any number of producers, consumers and     *)
(* records, any ring size and any requests.  RingInv is inductive: types,  *)
(* record indices and the lock hold always; while no window has been hit,  *)
(* the distance between a reader's offset and the put offset is what it    *)
(* has left to read (ReadNext), what get and put have learnt from loads of *)
(* offsets the other side was moving stays true (TakeNext, ScanNext), and  *)
(* so the bytes put is about to publish fit (PutSkipFits).                 *)
(***************************************************************************)
EXTENDS RingBuffer, SequenceTheorems, TLAPS

USE DEF Procs, shared, locals, ghosts

\* A size_t is a natural number, and small numbers are unchanged.
LEMMA SizeTNat == ASSUME NEW x \in Int PROVE SizeT(x) \in Nat
BY SizeAssumption DEF SizeT

\* difference() returns a size_t whatever its four loads saw.
LEMMA DifferenceNat ==
    ASSUME NEW a \in Int, NEW b \in Int, NEW c \in Int, NEW d \in Int
    PROVE  Difference(a, b, c, d) \in Nat
BY SizeAssumption, SizeTNat DEF Difference

\* The values of the locals between calls.
LEMMA Blank ==
    /\ NoWant \in Wants /\ NoScan \in Scans /\ NoTake \in Takes
BY SizeAssumption DEF NoWant, NoScan, NoTake, Wants, Scans, Takes, AnyPatience

\* A stage of get starts with locals of their types.
LEMMA StageType ==
    ASSUME NEW s \in {"wait", "size", "peek"}, NEW n \in Nat
    PROVE  [stage |-> s, p1 |-> 0, size |-> n, copied |-> 0] \in Takes
BY DEF Takes

\* availableData() returns a size_t whatever it loads.
LEMMA AvailableNat ==
    ASSUME TypeOK, IndexInv, NEW c \in Consumers,
           pc[c] \notin {"detached", "attach", "dead"}
    PROVE  Available(c) \in Nat
<1>1. slotOff[mySlot[c]] \in Int
    BY DEF IndexInv, TypeOK
<1>2. take[c].p1 \in Int /\ putOff \in Int
    BY DEF TypeOK, Takes
<1> QED
    BY <1>1, <1>2, DifferenceNat DEF Available

\* The initial state is well typed.
LEMMA TypeInit == Init => TypeOK
BY ProcsAssumption, SizeAssumption, EmptySeq, Blank
    DEF Init, TypeOK, NoSlot, Labels, Races

\* Lock preserves the types.
LEMMA TypeLock ==
    ASSUME TypeOK, IndexInv, NEW p \in Procs, Lock(p) PROVE TypeOK'
BY DEF Lock, TypeOK, Goto, Labels

\* Notify preserves the types.
LEMMA TypeNotify ==
    ASSUME TypeOK, IndexInv, NEW p \in Procs, Notify(p) PROVE TypeOK'
BY ZenonT(60) DEF Notify, TypeOK, Goto, Labels, ReleaseRecord, Forget, NoSlot

\* Detach preserves the types.
LEMMA TypeDetach ==
    ASSUME TypeOK, IndexInv, NEW p \in Procs, Detach(p) PROVE TypeOK'
BY DEF Detach, TypeOK, Goto, Labels, ReleaseRecord

\* Disconnect preserves the types.
LEMMA TypeDisconnect ==
    ASSUME TypeOK, IndexInv, NEW p \in Procs, Disconnect(p) PROVE TypeOK'
BY DEF Disconnect, TypeOK, Goto, Labels, Forget, NoSlot

\* ReleaseDead preserves the types.
LEMMA TypeReleaseDead ==
    ASSUME TypeOK, IndexInv, NEW p \in Procs, ReleaseDead(p) PROVE TypeOK'
BY
    DEF ReleaseDead, TypeOK, Goto, Labels, ReleaseRecord, Forget, NoSlot, HitIf,
        Races

\* Die preserves the types.
LEMMA TypeDie ==
    ASSUME TypeOK, IndexInv, NEW p \in Procs, Die(p) PROVE TypeOK'
<1>1. want' \in [Procs -> Wants]
    BY Blank DEF Die, TypeOK
<1>2. scan' \in [Producers -> Scans]
    BY Blank DEF Die, TypeOK
<1>3. take' \in [Consumers -> Takes]
    BY Blank DEF Die, TypeOK
<1>4. buf' \in [Consumers -> Seq(Int)]
    BY EmptySeq DEF Die, TypeOK
<1> QED
    BY <1>1, <1>2, <1>3, <1>4 DEF Die, TypeOK, Goto, Labels

\* FindProducer preserves the types.
LEMMA TypeFindProducer ==
    ASSUME TypeOK, IndexInv, NEW p \in Producers, FindProducer(p) PROVE TypeOK'
BY DEF FindProducer, TypeOK, Goto, Labels, Refuse

\* ClaimProducer preserves the types.
LEMMA TypeClaimProducer ==
    ASSUME TypeOK, IndexInv, NEW p \in Producers, ClaimProducer(p) PROVE TypeOK'
BY DEF ClaimProducer, TypeOK, Goto, Labels, HitIf, Races

\* PutBegin preserves the types.
LEMMA TypePutBegin ==
    ASSUME TypeOK, IndexInv, NEW p \in Producers, PutBegin(p) PROVE TypeOK'
<1>1. want' \in [Procs -> Wants]
    BY ProcsAssumption, SizeAssumption DEF PutBegin, TypeOK, Wants
<1>2. scan' \in [Producers -> Scans]
    BY Blank DEF PutBegin, TypeOK
<1> QED
    BY <1>1, <1>2 DEF PutBegin, TypeOK, Goto, Labels

\* ScanTest preserves the types.
LEMMA TypeScanTest ==
    ASSUME TypeOK, IndexInv, NEW p \in Producers, ScanTest(p) PROVE TypeOK'
<1>1. scan' \in [Producers -> Scans]
    BY Blank DEF ScanTest, TypeOK
<1> QED
    BY <1>1 DEF ScanTest, TypeOK, Goto, Labels

\* ScanUse preserves the types.
LEMMA TypeScanUse ==
    ASSUME TypeOK, IndexInv, NEW p \in Producers, ScanUse(p) PROVE TypeOK'
<1>1. scan[p].slot \in Slots
    BY DEF ScanUse, IndexInv
<1>2. slotOff[scan[p].slot] \in Int
    BY <1>1 DEF TypeOK
<1>3. /\ [slot |-> scan[p].slot, free |-> scan[p].free,
          c1 |-> slotOff[scan[p].slot]] \in Scans
      /\ [slot |-> scan[p].slot + 1, free |-> scan[p].free, c1 |-> 0] \in Scans
    <2>1. scan[p] \in Scans
        BY DEF TypeOK
    <2>2. scan[p].free \in Nat
        BY <2>1 DEF Scans
    <2>3. /\ scan[p].slot \in 0 .. MaxConsumers
          /\ scan[p].slot + 1 \in 0 .. MaxConsumers
        BY <1>1, SizeAssumption DEF Slots
    <2> QED
        BY <1>2, <2>2, <2>3 DEF Scans
<1>4. scan' \in [Producers -> Scans]
    BY <1>3 DEF ScanUse, NextSlot, TypeOK
<1> QED
    BY <1>4, ZenonT(60) DEF ScanUse, NextSlot, HitIf, Races, TypeOK, Goto, Labels

\* ScanFree preserves the types.
LEMMA TypeScanFree ==
    ASSUME TypeOK, IndexInv, NEW p \in Producers, ScanFree(p) PROVE TypeOK'
<1>1. scan[p].slot \in Slots
    BY DEF ScanFree, IndexInv
<1>2. /\ slotOff[scan[p].slot] \in Int /\ scan[p].c1 \in Int
      /\ scan[p].free \in Nat /\ scan[p].slot + 1 \in 0 .. MaxConsumers
      /\ putOff \in Int
    <2>1. /\ slotOff[scan[p].slot] \in Int /\ putOff \in Int /\ scan[p] \in Scans
        BY <1>1 DEF TypeOK
    <2>2. scan[p].c1 \in Int /\ scan[p].free \in Nat
        BY <2>1 DEF Scans
    <2>3. scan[p].slot + 1 \in 0 .. MaxConsumers
        BY <1>1, SizeAssumption DEF Slots
    <2> QED
        BY <2>1, <2>2, <2>3
<1>3. SizeT(Size - Difference(putOff, scan[p].c1, putOff, slotOff[scan[p].slot]) - 1)
        \in Nat
    <2>1. Difference(putOff, scan[p].c1, putOff, slotOff[scan[p].slot]) \in Nat
        BY <1>2, DifferenceNat
    <2> QED
        BY <2>1, SizeAssumption, SizeTNat
<1>4. PICK free \in Nat : NextSlot(p, free)
    BY <1>2, <1>3 DEF ScanFree, Min2
<1>5. scan' \in [Producers -> Scans]
    BY <1>2, <1>4 DEF NextSlot, TypeOK, Scans
<1> QED
    BY <1>5 DEF ScanFree, NextSlot, Races, TypeOK, Goto, Labels

\* PutReady preserves the types.
LEMMA TypePutReady ==
    ASSUME TypeOK, IndexInv, NEW p \in Producers, PutReady(p) PROVE TypeOK'
BY DEF PutReady, TypeOK, Goto, Labels

\* PutRetry preserves the types.
LEMMA TypePutRetry ==
    ASSUME TypeOK, IndexInv, NEW p \in Producers, PutRetry(p) PROVE TypeOK'
<1>1. scan' \in [Producers -> Scans]
    BY Blank DEF PutRetry, TypeOK
<1> QED
    BY <1>1 DEF PutRetry, TypeOK, Goto, Labels

\* PutTimeout preserves the types.
LEMMA TypePutTimeout ==
    ASSUME TypeOK, IndexInv, NEW p \in Producers, PutTimeout(p) PROVE TypeOK'
<1>1. want' \in [Procs -> Wants]
    BY Blank DEF PutTimeout, Return, TypeOK
<1>2. scan' \in [Producers -> Scans]
    BY Blank DEF PutTimeout, TypeOK
<1> QED
    BY <1>1, <1>2 DEF PutTimeout, TypeOK, Goto, Labels, Return

\* PutSkip preserves the types.
LEMMA TypePutSkip ==
    ASSUME TypeOK, IndexInv, NEW p \in Producers, PutSkip(p) PROVE TypeOK'
<1>1. want' \in [Procs -> Wants]
    BY Blank DEF PutSkip, Return, TypeOK
<1>2. scan' \in [Producers -> Scans]
    BY Blank DEF PutSkip, TypeOK
<1>3. putOff' \in Int /\ written' \in Int
    BY DEF PutSkip, TypeOK, Wants
<1> QED
    BY <1>1, <1>2, <1>3 DEF PutSkip, TypeOK, Goto, Labels, Return

\* PutWrap preserves the types.
LEMMA TypePutWrap ==
    ASSUME TypeOK, IndexInv, NEW p \in Producers, PutWrap(p) PROVE TypeOK'
<1>1. want' \in [Procs -> Wants]
    BY Blank DEF PutWrap, Return, TypeOK
<1>2. scan' \in [Producers -> Scans]
    BY Blank DEF PutWrap, TypeOK
<1> QED
    BY <1>1, <1>2 DEF PutWrap, TypeOK, Goto, Labels, Return

\* PutCopy preserves the types.
LEMMA TypePutCopy ==
    ASSUME TypeOK, IndexInv, NEW p \in Producers, PutCopy(p) PROVE TypeOK'
<1>1. mem' \in [0 .. Size - 1 -> Int]
    BY SizeAssumption DEF PutCopy, TypeOK
<1> QED
    BY <1>1 DEF PutCopy, TypeOK, Goto, Labels

\* FindSlot preserves the types.
LEMMA TypeFindSlot ==
    ASSUME TypeOK, IndexInv, NEW c \in Consumers, FindSlot(c) PROVE TypeOK'
<1>1. mySlot' \in [Consumers -> Slots \cup {NoSlot}]
    BY DEF FindSlot, TypeOK
<1> QED
    BY <1>1 DEF FindSlot, TypeOK, Goto, Labels, Refuse

\* ClaimSlot preserves the types.
LEMMA TypeClaimSlot ==
    ASSUME TypeOK, IndexInv, NEW c \in Consumers, ClaimSlot(c) PROVE TypeOK'
BY DEF ClaimSlot, TypeOK, Goto, Labels

\* CopyOffset preserves the types.
LEMMA TypeCopyOffset ==
    ASSUME TypeOK, IndexInv, NEW c \in Consumers, CopyOffset(c) PROVE TypeOK'
BY DEF CopyOffset, TypeOK, Goto, Labels

\* PublishPid preserves the types.
LEMMA TypePublishPid ==
    ASSUME TypeOK, IndexInv, NEW c \in Consumers, PublishPid(c) PROVE TypeOK'
BY DEF PublishPid, TypeOK, Goto, Labels

\* CompareOffset preserves the types.
LEMMA TypeCompareOffset ==
    ASSUME TypeOK, IndexInv, NEW c \in Consumers, CompareOffset(c) PROVE TypeOK'
<1>1. readPos' \in [Consumers -> Int]
    BY DEF CompareOffset, TypeOK
<1>2. races' \subseteq Races
    BY DEF CompareOffset, HitIf, Races, TypeOK
<1> QED
    BY <1>1, <1>2 DEF CompareOffset, TypeOK, Goto, Labels

\* GetBegin preserves the types.
LEMMA TypeGetBegin ==
    ASSUME TypeOK, IndexInv, NEW c \in Consumers, GetBegin(c) PROVE TypeOK'
<1>1. want' \in [Procs -> Wants]
    BY ProcsAssumption, SizeAssumption DEF GetBegin, TypeOK, Wants
<1> QED
    BY <1>1 DEF GetBegin, TypeOK, Goto, Labels

\* LoadFirst preserves the types.
LEMMA TypeLoadFirst ==
    ASSUME TypeOK, IndexInv, NEW c \in Consumers, LoadFirst(c) PROVE TypeOK'
<1>1. take' \in [Consumers -> Takes]
    BY DEF LoadFirst, TypeOK, Takes
<1> QED
    BY <1>1 DEF LoadFirst, TypeOK, Goto, Labels

\* GetEnough preserves the types.
LEMMA TypeGetEnough ==
    ASSUME TypeOK, IndexInv, NEW c \in Consumers, GetEnough(c) PROVE TypeOK'
<1>1. take' \in [Consumers -> Takes]
    BY StageType DEF GetEnough, Stage, TypeOK
<1> QED
    BY <1>1 DEF GetEnough, TypeOK, Goto, Labels, Stage, LoadRaces, Races

\* GetRetry preserves the types.
LEMMA TypeGetRetry ==
    ASSUME TypeOK, IndexInv, NEW c \in Consumers, GetRetry(c) PROVE TypeOK'
<1>1. take' \in [Consumers -> Takes]
    BY StageType DEF GetRetry, Stage, TypeOK
<1> QED
    BY <1>1 DEF GetRetry, TypeOK, Goto, Labels, Stage, LoadRaces, Races

\* GetTimeout preserves the types.
LEMMA TypeGetTimeout ==
    ASSUME TypeOK, IndexInv, NEW c \in Consumers, GetTimeout(c) PROVE TypeOK'
<1>1. want' \in [Procs -> Wants]
    BY Blank DEF GetTimeout, Return, TypeOK
<1>2. take' \in [Consumers -> Takes]
    BY Blank DEF GetTimeout, TypeOK
<1> QED
    BY <1>1, <1>2 DEF GetTimeout, TypeOK, Goto, Labels, Return

\* GetSize preserves the types.
LEMMA TypeGetSize ==
    ASSUME TypeOK, IndexInv, NEW c \in Consumers, GetSize(c) PROVE TypeOK'
<1>1. Min2(Available(c), want[c].max) \in Nat
    <2>1. Available(c) \in Nat
        BY AvailableNat DEF GetSize
    <2> QED
        BY <2>1 DEF Min2, TypeOK, Wants
<1>2. take' \in [Consumers -> Takes]
    BY <1>1, StageType DEF GetSize, Stage, TypeOK
<1> QED
    BY <1>2 DEF GetSize, Stage, LoadRaces, Races, TypeOK, Goto, Labels

\* PeekCheck preserves the types.
LEMMA TypePeekCheck ==
    ASSUME TypeOK, IndexInv, NEW c \in Consumers, PeekCheck(c) PROVE TypeOK'
<1>1. want' \in [Procs -> Wants]
    BY Blank DEF PeekCheck, Return, TypeOK
<1>2. take' \in [Consumers -> Takes]
    BY Blank DEF PeekCheck, TypeOK
<1> QED
    BY <1>1, <1>2 DEF PeekCheck, TypeOK, Goto, Labels, Return

\* PeekSize preserves the types.
LEMMA TypePeekSize ==
    ASSUME TypeOK, IndexInv, NEW c \in Consumers, PeekSize(c) PROVE TypeOK'
<1>1. Available(c) \in Nat
    BY AvailableNat DEF PeekSize
<1>2. [stage |-> "peek", p1 |-> 0, size |-> take[c].size,
       copied |-> Min2(Available(c), take[c].size)] \in Takes
    <2>1. take[c].size \in Nat
        BY DEF TypeOK, Takes
    <2>2. Min2(Available(c), take[c].size) \in Nat
        BY <1>1, <2>1 DEF Min2
    <2> QED
        BY <2>1, <2>2 DEF Takes
<1>3. take' \in [Consumers -> Takes]
    BY <1>2 DEF PeekSize, TypeOK
<1> QED
    BY <1>3 DEF PeekSize, TypeOK, Goto, Labels

\* PeekCopy preserves the types.
LEMMA TypePeekCopy ==
    ASSUME TypeOK, IndexInv, NEW c \in Consumers, PeekCopy(c) PROVE TypeOK'
<1> DEFINE bytes == [i \in 1 .. take[c].copied |-> Byte(slotOff[mySlot[c]] + i - 1)]
<1>1. take[c].copied \in Nat
    BY DEF TypeOK, Takes
<1>2. bytes \in Seq(Int)
    <2>1. ASSUME NEW x PROVE Byte(x) \in Int
        BY DEF Byte, TypeOK
    <2>2. bytes \in [1 .. take[c].copied -> Int]
        BY <2>1
    <2> HIDE DEF bytes
    <2> QED
        BY <1>1, <2>2, SeqDef
<1>3. buf' \in [Consumers -> Seq(Int)]
    BY <1>2 DEF PeekCopy, TypeOK
<1> QED
    BY <1>3 DEF PeekCopy, TypeOK, Goto, Labels

\* GetSkip preserves the types.
LEMMA TypeGetSkip ==
    ASSUME TypeOK, IndexInv, NEW c \in Consumers, GetSkip(c) PROVE TypeOK'
<1>1. want' \in [Procs -> Wants]
    BY Blank DEF GetSkip, GetReturn, Return, TypeOK
<1>2. take' \in [Consumers -> Takes]
    BY Blank DEF GetSkip, GetReturn, TypeOK
<1>3. buf' \in [Consumers -> Seq(Int)]
    <2>1. <<>> \in Seq(Int)
        BY EmptySeq
    <2> QED
        BY <2>1 DEF GetSkip, GetReturn, TypeOK
<1>4. mySlot[c] \in Slots
    BY DEF GetSkip, IndexInv
<1>5. slotOff[mySlot[c]] \in Int /\ take[c].size \in Int /\ readPos[c] \in Int
    BY <1>4 DEF TypeOK, Takes
<1>6. slotOff' \in [Slots -> Int]
    <2>1. slotOff' = [slotOff EXCEPT ![mySlot[c]] = slotOff[mySlot[c]] + take[c].size]
        BY DEF GetSkip
    <2> QED
        BY <1>4, <1>5, <2>1 DEF TypeOK
<1>7. readPos' \in [Consumers -> Int]
    <2>1. readPos' = [readPos EXCEPT ![c] = readPos[c] + take[c].size]
        BY DEF GetSkip, TypeOK
    <2> QED
        BY <1>5, <2>1 DEF TypeOK
<1> QED
    BY <1>1, <1>2, <1>3, <1>6, <1>7, ZenonT(60)
        DEF GetSkip, GetReturn, Return, TypeOK, Goto, Labels

\* GetWrap preserves the types.
LEMMA TypeGetWrap ==
    ASSUME TypeOK, IndexInv, NEW c \in Consumers, GetWrap(c) PROVE TypeOK'
<1>1. want' \in [Procs -> Wants]
    BY Blank DEF GetWrap, GetReturn, Return, TypeOK
<1>2. take' \in [Consumers -> Takes]
    BY Blank DEF GetWrap, GetReturn, TypeOK
<1>3. buf' \in [Consumers -> Seq(Int)]
    <2>1. <<>> \in Seq(Int)
        BY EmptySeq
    <2> QED
        BY <2>1 DEF GetWrap, GetReturn, TypeOK
<1>4. mySlot[c] \in Slots
    BY DEF GetWrap, IndexInv
<1>5. slotOff[mySlot[c]] \in Int /\ take[c].size \in Int /\ readPos[c] \in Int
    BY <1>4 DEF TypeOK, Takes
<1>6. slotOff' \in [Slots -> Int]
    <2>1. slotOff' = [slotOff EXCEPT ![mySlot[c]] = slotOff[mySlot[c]] - Size]
        BY <1>4 DEF GetWrap, TypeOK
    <2> QED
        BY <1>4, <1>5, <2>1, SizeAssumption DEF TypeOK
<1>7. readPos' \in [Consumers -> Int]
    BY DEF GetWrap, TypeOK
<1> QED
    BY <1>1, <1>2, <1>3, <1>6, <1>7
        DEF GetWrap, GetReturn, Return, TypeOK, Goto, Labels

\* Every action preserves the types.
LEMMA TypeNext == TypeOK /\ IndexInv /\ [Next]_vars => TypeOK'
<1> SUFFICES ASSUME TypeOK, IndexInv, [Next]_vars PROVE TypeOK'
    OBVIOUS
<1>1. ASSUME NEW p \in Procs, Lock(p) PROVE TypeOK'
    BY <1>1, TypeLock
<1>2. ASSUME NEW p \in Procs, Notify(p) PROVE TypeOK'
    BY <1>2, TypeNotify
<1>3. ASSUME NEW p \in Procs, Detach(p) PROVE TypeOK'
    BY <1>3, TypeDetach
<1>4. ASSUME NEW p \in Procs, Disconnect(p) PROVE TypeOK'
    BY <1>4, TypeDisconnect
<1>5. ASSUME NEW p \in Procs, Die(p) PROVE TypeOK'
    BY <1>5, TypeDie
<1>6. ASSUME NEW p \in Procs, ReleaseDead(p) PROVE TypeOK'
    BY <1>6, TypeReleaseDead
<1>7. ASSUME NEW p \in Producers, FindProducer(p) PROVE TypeOK'
    BY <1>7, TypeFindProducer
<1>8. ASSUME NEW p \in Producers, ClaimProducer(p) PROVE TypeOK'
    BY <1>8, TypeClaimProducer
<1>9. ASSUME NEW p \in Producers, PutBegin(p) PROVE TypeOK'
    BY <1>9, TypePutBegin
<1>10. ASSUME NEW p \in Producers, ScanTest(p) PROVE TypeOK'
    BY <1>10, TypeScanTest
<1>11. ASSUME NEW p \in Producers, ScanUse(p) PROVE TypeOK'
    BY <1>11, TypeScanUse
<1>12. ASSUME NEW p \in Producers, ScanFree(p) PROVE TypeOK'
    BY <1>12, TypeScanFree
<1>13. ASSUME NEW p \in Producers, PutReady(p) PROVE TypeOK'
    BY <1>13, TypePutReady
<1>14. ASSUME NEW p \in Producers, PutRetry(p) PROVE TypeOK'
    BY <1>14, TypePutRetry
<1>15. ASSUME NEW p \in Producers, PutTimeout(p) PROVE TypeOK'
    BY <1>15, TypePutTimeout
<1>16. ASSUME NEW p \in Producers, PutCopy(p) PROVE TypeOK'
    BY <1>16, TypePutCopy
<1>17. ASSUME NEW p \in Producers, PutSkip(p) PROVE TypeOK'
    BY <1>17, TypePutSkip
<1>18. ASSUME NEW p \in Producers, PutWrap(p) PROVE TypeOK'
    BY <1>18, TypePutWrap
<1>19. ASSUME NEW c \in Consumers, FindSlot(c) PROVE TypeOK'
    BY <1>19, TypeFindSlot
<1>20. ASSUME NEW c \in Consumers, ClaimSlot(c) PROVE TypeOK'
    BY <1>20, TypeClaimSlot
<1>21. ASSUME NEW c \in Consumers, CompareOffset(c) PROVE TypeOK'
    BY <1>21, TypeCompareOffset
<1>22. ASSUME NEW c \in Consumers, CopyOffset(c) PROVE TypeOK'
    BY <1>22, TypeCopyOffset
<1>23. ASSUME NEW c \in Consumers, PublishPid(c) PROVE TypeOK'
    BY <1>23, TypePublishPid
<1>24. ASSUME NEW c \in Consumers, GetBegin(c) PROVE TypeOK'
    BY <1>24, TypeGetBegin
<1>25. ASSUME NEW c \in Consumers, LoadFirst(c) PROVE TypeOK'
    BY <1>25, TypeLoadFirst
<1>26. ASSUME NEW c \in Consumers, GetEnough(c) PROVE TypeOK'
    BY <1>26, TypeGetEnough
<1>27. ASSUME NEW c \in Consumers, GetRetry(c) PROVE TypeOK'
    BY <1>27, TypeGetRetry
<1>28. ASSUME NEW c \in Consumers, GetTimeout(c) PROVE TypeOK'
    BY <1>28, TypeGetTimeout
<1>29. ASSUME NEW c \in Consumers, GetSize(c) PROVE TypeOK'
    BY <1>29, TypeGetSize
<1>30. ASSUME NEW c \in Consumers, PeekCheck(c) PROVE TypeOK'
    BY <1>30, TypePeekCheck
<1>31. ASSUME NEW c \in Consumers, PeekSize(c) PROVE TypeOK'
    BY <1>31, TypePeekSize
<1>32. ASSUME NEW c \in Consumers, PeekCopy(c) PROVE TypeOK'
    BY <1>32, TypePeekCopy
<1>33. ASSUME NEW c \in Consumers, GetSkip(c) PROVE TypeOK'
    BY <1>33, TypeGetSkip
<1>34. ASSUME NEW c \in Consumers, GetWrap(c) PROVE TypeOK'
    BY <1>34, TypeGetWrap
<1>35. CASE UNCHANGED vars
    BY <1>35 DEF vars, TypeOK
<1> QED
    BY <1>1, <1>2, <1>3, <1>4, <1>5, <1>6, <1>7, <1>8, <1>9, <1>10, <1>11,
        <1>12, <1>13, <1>14, <1>15, <1>16, <1>17, <1>18, <1>19, <1>20, <1>21,
        <1>22, <1>23, <1>24, <1>25, <1>26, <1>27, <1>28, <1>29, <1>30, <1>31,
        <1>32, <1>33, <1>34, <1>35
    DEF Next, Put, Get, Join

\* Record indices stay inside the table of consumers.
LEMMA IndexNext ==
    ASSUME TypeOK, IndexInv, [Next]_vars
    PROVE  IndexInv'
<1>a. /\ pc \in [Procs -> Labels] /\ 0 \in Slots
      /\ mySlot \in [Consumers -> Slots \cup {NoSlot}]
      /\ scan \in [Producers -> Scans]
    BY SizeAssumption DEF TypeOK, Slots
<1>b. /\ \A p \in Producers : pc[p] \in {"test", "use", "free"} => scan[p].slot \in Slots
      /\ \A c \in Consumers : pc[c] \notin {"detached", "attach", "dead"}
                             => mySlot[c] \in Slots
    BY DEF IndexInv
<1> USE ProcsAssumption DEF IndexInv, Goto, NoScan
<1>1. ASSUME NEW p \in Procs, Lock(p) PROVE IndexInv'
    BY <1>a, <1>b, <1>1 DEF Lock
<1>2. ASSUME NEW p \in Procs, Notify(p) PROVE IndexInv'
    BY <1>a, <1>b, <1>2 DEF Notify, ReleaseRecord, Forget
<1>3. ASSUME NEW p \in Procs, Detach(p) PROVE IndexInv'
    BY <1>a, <1>b, <1>3 DEF Detach, ReleaseRecord
<1>4. ASSUME NEW p \in Procs, Disconnect(p) PROVE IndexInv'
    BY <1>a, <1>b, <1>4 DEF Disconnect, Forget
<1>5. ASSUME NEW p \in Procs, Die(p) PROVE IndexInv'
    BY <1>a, <1>b, <1>5 DEF Die
<1>6. ASSUME NEW p \in Procs, ReleaseDead(p) PROVE IndexInv'
    BY <1>a, <1>b, <1>6 DEF ReleaseDead, ReleaseRecord, Forget, HitIf
<1>7. ASSUME NEW p \in Producers, FindProducer(p) PROVE IndexInv'
    BY <1>a, <1>b, <1>7 DEF FindProducer, Refuse
<1>8. ASSUME NEW p \in Producers, ClaimProducer(p) PROVE IndexInv'
    BY <1>a, <1>b, <1>8 DEF ClaimProducer, HitIf
<1>9. ASSUME NEW p \in Producers, PutBegin(p) PROVE IndexInv'
    BY <1>a, <1>b, <1>9 DEF PutBegin
<1>10. ASSUME NEW p \in Producers, ScanTest(p) PROVE IndexInv'
    BY <1>a, <1>b, <1>10 DEF ScanTest
<1>11. ASSUME NEW p \in Producers, ScanUse(p) PROVE IndexInv'
    <2>1. scan[p].slot \in Slots
        BY <1>a, <1>b, <1>11 DEF ScanUse
    <2>2. CASE slotPid[scan[p].slot] \in Procs
        <3>1. /\ scan'[p].slot = scan[p].slot
              /\ \A q \in Producers \ {p} : scan'[q] = scan[q]
            BY <1>a, <1>b, <1>11, <2>2 DEF ScanUse
        <3> QED
            BY <1>a, <1>b, <1>11, <2>1, <2>2, <3>1 DEF ScanUse
    <2>3. CASE slotPid[scan[p].slot] \notin Procs
        <3>1. NextSlot(p, scan[p].free)
            BY <1>11, <2>3 DEF ScanUse
        <3>2. /\ scan'[p].slot = scan[p].slot + 1
              /\ \A q \in Producers \ {p} : scan'[q] = scan[q]
            BY <1>a, <1>b, <3>1 DEF NextSlot
        <3>3. scan[p].slot + 1 # MaxConsumers => scan[p].slot + 1 \in Slots
            BY <2>1, SizeAssumption DEF Slots
        <3> QED
            BY <1>a, <1>b, <1>11, <3>1, <3>2, <3>3 DEF ScanUse, NextSlot
    <2> QED
        BY <2>2, <2>3
<1>12. ASSUME NEW p \in Producers, ScanFree(p) PROVE IndexInv'
    <2>1. scan[p].slot \in Slots
        BY <1>a, <1>b, <1>12 DEF ScanFree
    <2>2. PICK free : NextSlot(p, free)
        BY <1>12 DEF ScanFree
    <2>3. /\ scan'[p].slot = scan[p].slot + 1
          /\ \A q \in Producers \ {p} : scan'[q] = scan[q]
        BY <1>a, <1>b, <2>2 DEF NextSlot
    <2>4. scan[p].slot + 1 # MaxConsumers => scan[p].slot + 1 \in Slots
        BY <2>1, SizeAssumption DEF Slots
    <2> QED
        BY <1>a, <1>b, <1>12, <2>2, <2>3, <2>4 DEF ScanFree, NextSlot
<1>13. ASSUME NEW p \in Producers, PutReady(p) PROVE IndexInv'
    BY <1>a, <1>b, <1>13 DEF PutReady
<1>14. ASSUME NEW p \in Producers, PutRetry(p) PROVE IndexInv'
    BY <1>a, <1>b, <1>14 DEF PutRetry
<1>15. ASSUME NEW p \in Producers, PutTimeout(p) PROVE IndexInv'
    BY <1>a, <1>b, <1>15 DEF PutTimeout, Return
<1>16. ASSUME NEW p \in Producers, PutCopy(p) PROVE IndexInv'
    BY <1>a, <1>b, <1>16 DEF PutCopy
<1>17. ASSUME NEW p \in Producers, PutSkip(p) PROVE IndexInv'
    BY <1>a, <1>b, <1>17 DEF PutSkip, Return
<1>18. ASSUME NEW p \in Producers, PutWrap(p) PROVE IndexInv'
    BY <1>a, <1>b, <1>18 DEF PutWrap, Return
<1>19. ASSUME NEW c \in Consumers, FindSlot(c) PROVE IndexInv'
    BY <1>a, <1>b, <1>19 DEF FindSlot, Refuse
<1>20. ASSUME NEW c \in Consumers, ClaimSlot(c) PROVE IndexInv'
    BY <1>a, <1>b, <1>20 DEF ClaimSlot
<1>21. ASSUME NEW c \in Consumers, CompareOffset(c) PROVE IndexInv'
    BY <1>a, <1>b, <1>21 DEF CompareOffset, HitIf
<1>22. ASSUME NEW c \in Consumers, CopyOffset(c) PROVE IndexInv'
    BY <1>a, <1>b, <1>22 DEF CopyOffset
<1>23. ASSUME NEW c \in Consumers, PublishPid(c) PROVE IndexInv'
    BY <1>a, <1>b, <1>23 DEF PublishPid
<1>24. ASSUME NEW c \in Consumers, GetBegin(c) PROVE IndexInv'
    BY <1>a, <1>b, <1>24 DEF GetBegin
<1>25. ASSUME NEW c \in Consumers, LoadFirst(c) PROVE IndexInv'
    BY <1>a, <1>b, <1>25 DEF LoadFirst
<1>26. ASSUME NEW c \in Consumers, GetEnough(c) PROVE IndexInv'
    BY <1>a, <1>b, <1>26 DEF GetEnough, Stage
<1>27. ASSUME NEW c \in Consumers, GetRetry(c) PROVE IndexInv'
    BY <1>a, <1>b, <1>27 DEF GetRetry, Stage
<1>28. ASSUME NEW c \in Consumers, GetTimeout(c) PROVE IndexInv'
    BY <1>a, <1>b, <1>28 DEF GetTimeout, Return
<1>29. ASSUME NEW c \in Consumers, GetSize(c) PROVE IndexInv'
    BY <1>a, <1>b, <1>29 DEF GetSize, Stage
<1>30. ASSUME NEW c \in Consumers, PeekCheck(c) PROVE IndexInv'
    BY <1>a, <1>b, <1>30 DEF PeekCheck, Return
<1>31. ASSUME NEW c \in Consumers, PeekSize(c) PROVE IndexInv'
    BY <1>a, <1>b, <1>31 DEF PeekSize
<1>32. ASSUME NEW c \in Consumers, PeekCopy(c) PROVE IndexInv'
    BY <1>a, <1>b, <1>32 DEF PeekCopy
<1>33. ASSUME NEW c \in Consumers, GetSkip(c) PROVE IndexInv'
    BY <1>a, <1>b, <1>33 DEF GetSkip, GetReturn, Return
<1>34. ASSUME NEW c \in Consumers, GetWrap(c) PROVE IndexInv'
    BY <1>a, <1>b, <1>34 DEF GetWrap, GetReturn, Return
<1>35. CASE UNCHANGED vars
    BY <1>a, <1>b, <1>35 DEF vars
<1> QED
    BY <1>1, <1>2, <1>3, <1>4, <1>5, <1>6, <1>7, <1>8, <1>9, <1>10, <1>11,
        <1>12, <1>13, <1>14, <1>15, <1>16, <1>17, <1>18, <1>19, <1>20, <1>21,
        <1>22, <1>23, <1>24, <1>25, <1>26, <1>27, <1>28, <1>29, <1>30, <1>31,
        <1>32, <1>33, <1>34, <1>35
    DEF Next, Put, Get, Join

\* Whoever runs attach or detach code holds the record lock.
LEMMA LockNext ==
    ASSUME TypeOK, LockExclusive, [Next]_vars PROVE LockExclusive'
<1> USE ProcsAssumption DEF TypeOK, LockExclusive, Locked, Goto
<1>1. ASSUME NEW p \in Procs, Lock(p) PROVE LockExclusive'
    BY <1>1 DEF Lock
<1>2. ASSUME NEW p \in Procs, Notify(p) PROVE LockExclusive'
    BY <1>2 DEF Notify, ReleaseRecord, Forget
<1>3. ASSUME NEW p \in Procs, Detach(p) PROVE LockExclusive'
    BY <1>3 DEF Detach, ReleaseRecord
<1>4. ASSUME NEW p \in Procs, Disconnect(p) PROVE LockExclusive'
    BY <1>4 DEF Disconnect, Forget
<1>5. ASSUME NEW p \in Procs, Die(p) PROVE LockExclusive'
    BY <1>5 DEF Die
<1>6. ASSUME NEW p \in Procs, ReleaseDead(p) PROVE LockExclusive'
    BY <1>6 DEF ReleaseDead, ReleaseRecord, Forget, HitIf
<1>7. ASSUME NEW p \in Producers, FindProducer(p) PROVE LockExclusive'
    BY <1>7, ZenonT(60) DEF FindProducer, Refuse
<1>8. ASSUME NEW p \in Producers, ClaimProducer(p) PROVE LockExclusive'
    BY <1>8 DEF ClaimProducer, HitIf
<1>9. ASSUME NEW p \in Producers, PutBegin(p) PROVE LockExclusive'
    BY <1>9 DEF PutBegin
<1>10. ASSUME NEW p \in Producers, ScanTest(p) PROVE LockExclusive'
    BY <1>10 DEF ScanTest
<1>11. ASSUME NEW p \in Producers, ScanUse(p) PROVE LockExclusive'
    BY <1>11 DEF ScanUse, NextSlot, HitIf
<1>12. ASSUME NEW p \in Producers, ScanFree(p) PROVE LockExclusive'
    BY <1>12 DEF ScanFree, NextSlot
<1>13. ASSUME NEW p \in Producers, PutReady(p) PROVE LockExclusive'
    BY <1>13 DEF PutReady
<1>14. ASSUME NEW p \in Producers, PutRetry(p) PROVE LockExclusive'
    BY <1>14 DEF PutRetry
<1>15. ASSUME NEW p \in Producers, PutTimeout(p) PROVE LockExclusive'
    BY <1>15 DEF PutTimeout, Return
<1>16. ASSUME NEW p \in Producers, PutCopy(p) PROVE LockExclusive'
    BY <1>16 DEF PutCopy
<1>17. ASSUME NEW p \in Producers, PutSkip(p) PROVE LockExclusive'
    BY <1>17 DEF PutSkip, Return
<1>18. ASSUME NEW p \in Producers, PutWrap(p) PROVE LockExclusive'
    BY <1>18 DEF PutWrap, Return
<1>19. ASSUME NEW c \in Consumers, FindSlot(c) PROVE LockExclusive'
    BY <1>19 DEF FindSlot, Refuse
<1>20. ASSUME NEW c \in Consumers, ClaimSlot(c) PROVE LockExclusive'
    BY <1>20 DEF ClaimSlot
<1>21. ASSUME NEW c \in Consumers, CompareOffset(c) PROVE LockExclusive'
    BY <1>21 DEF CompareOffset, HitIf
<1>22. ASSUME NEW c \in Consumers, CopyOffset(c) PROVE LockExclusive'
    BY <1>22 DEF CopyOffset
<1>23. ASSUME NEW c \in Consumers, PublishPid(c) PROVE LockExclusive'
    BY <1>23 DEF PublishPid
<1>24. ASSUME NEW c \in Consumers, GetBegin(c) PROVE LockExclusive'
    BY <1>24 DEF GetBegin
<1>25. ASSUME NEW c \in Consumers, LoadFirst(c) PROVE LockExclusive'
    BY <1>25 DEF LoadFirst
<1>26. ASSUME NEW c \in Consumers, GetEnough(c) PROVE LockExclusive'
    BY <1>26 DEF GetEnough, Stage
<1>27. ASSUME NEW c \in Consumers, GetRetry(c) PROVE LockExclusive'
    BY <1>27 DEF GetRetry, Stage
<1>28. ASSUME NEW c \in Consumers, GetTimeout(c) PROVE LockExclusive'
    BY <1>28 DEF GetTimeout, Return
<1>29. ASSUME NEW c \in Consumers, GetSize(c) PROVE LockExclusive'
    BY <1>29 DEF GetSize, Stage
<1>30. ASSUME NEW c \in Consumers, PeekCheck(c) PROVE LockExclusive'
    BY <1>30 DEF PeekCheck, Return
<1>31. ASSUME NEW c \in Consumers, PeekSize(c) PROVE LockExclusive'
    BY <1>31 DEF PeekSize
<1>32. ASSUME NEW c \in Consumers, PeekCopy(c) PROVE LockExclusive'
    BY <1>32 DEF PeekCopy
<1>33. ASSUME NEW c \in Consumers, GetSkip(c) PROVE LockExclusive'
    BY <1>33 DEF GetSkip, GetReturn, Return
<1>34. ASSUME NEW c \in Consumers, GetWrap(c) PROVE LockExclusive'
    BY <1>34 DEF GetWrap, GetReturn, Return
<1>35. CASE UNCHANGED vars
    BY <1>35 DEF vars
<1> QED
    BY <1>1, <1>2, <1>3, <1>4, <1>5, <1>6, <1>7, <1>8, <1>9, <1>10, <1>11,
        <1>12, <1>13, <1>14, <1>15, <1>16, <1>17, <1>18, <1>19, <1>20, <1>21,
        <1>22, <1>23, <1>24, <1>25, <1>26, <1>27, <1>28, <1>29, <1>30, <1>31,
        <1>32, <1>33, <1>34, <1>35
    DEF Next, Put, Get, Join

\* Distances, for offsets up to one lap too large.
LEMMA DistanceRange ==
    ASSUME NEW P \in 0 .. 2 * Size - 1, NEW off \in 0 .. 2 * Size - 1
    PROVE  Distance(P, off) \in 0 .. Size - 1
BY SizeAssumption DEF Distance, Cell

\* Writing n bytes makes the distance n larger.
LEMMA DistanceWritten ==
    ASSUME NEW P \in 0 .. Size - 1, NEW off \in 0 .. 2 * Size - 1, NEW n \in Nat,
           Distance(P, off) + n <= Size - 1
    PROVE  Distance(P + n, off) = Distance(P, off) + n
BY SizeAssumption DEF Distance, Cell

\* Reading n bytes makes the distance n smaller.
LEMMA DistanceRead ==
    ASSUME NEW P \in 0 .. 2 * Size - 1, NEW off \in 0 .. Size - 1, NEW n \in Nat,
           n <= Distance(P, off)
    PROVE  Distance(P, off + n) = Distance(P, off) - n
BY SizeAssumption DEF Distance, Cell

\* The second store of Skip leaves the distance alone.
LEMMA DistanceWrapped ==
    ASSUME NEW P \in 0 .. 2 * Size - 1, NEW off \in 0 .. 2 * Size - 1
    PROVE  /\ P >= Size => Distance(P - Size, off) = Distance(P, off)
           /\ off >= Size => Distance(P, off - Size) = Distance(P, off)
BY SizeAssumption DEF Distance, Cell

\* availablePutSpace computes the free space behind one client exactly, though
\* it loads that client's offset twice, unless it falls into a window.
LEMMA FreeIsExact ==
    ASSUME NEW P \in 0 .. Size - 1, NEW c1 \in Int, NEW c2 \in 0 .. 2 * Size - 1,
           ~(P < c1 /\ c2 <= P), ~(P + Size < c2), c1 <= P => c2 <= P
    PROVE  SizeT(Size - Difference(P, c1, P, c2) - 1) = Size - 1 - Distance(P, c2)
<1>1. Difference(P, c1, P, c2) = Distance(P, c2)
    BY SizeAssumption DEF Difference, Distance, Cell, SizeT
<1>2. Distance(P, c2) \in 0 .. Size - 1
    BY SizeAssumption DEF Distance, Cell
<1>3. \A n \in 0 .. Size - 1 : SizeT(Size - n - 1) = Size - 1 - n
    BY SizeAssumption DEF SizeT
<1> QED
    BY <1>1, <1>2, <1>3

\* And so does availableData, which loads the put offset twice.
LEMMA AvailableIsExact ==
    ASSUME NEW p1 \in Int, NEW P \in 0 .. 2 * Size - 1, NEW off \in 0 .. Size - 1,
           ~(p1 >= off /\ P < off), ~(P >= off + Size), p1 < off => P < off
    PROVE  Difference(p1, off, P, off) = Distance(P, off)
BY SizeAssumption DEF Difference, Distance, Cell, SizeT

\* What a producer or a consumer owns, no other one uses.
LEMMA OneProducer ==
    ASSUME OwnInv, NEW p \in Producers, NEW q \in Producers,
           pc[p] \in Active, pc[q] \in Active
    PROVE  p = q
BY DEF OwnInv, OwnsRing

Holding == Reading \cup {"claim", "compare", "copyoff"}
\* Two consumers that have looked for a record have different ones.
LEMMA OneReader ==
    ASSUME LockExclusive, OwnInv, NEW c \in Consumers, NEW d \in Consumers, c # d,
           pc[c] \in Holding, pc[d] \in Holding
    PROVE  mySlot[c] # mySlot[d]
BY ProcsAssumption
    DEF OwnInv, OwnsRecord, LockExclusive, Locked, Holding, Reading

\* The ghost of the windows only grows.
LEMMA CalmBefore == ASSUME [Next]_vars, races' = {} PROVE races = {}
BY ZenonT(60)
    DEF Next, Put, Get, Join, vars, HitIf, LoadRaces, Lock, Notify, Detach,
        Disconnect, Die, ReleaseDead, FindProducer, ClaimProducer, PutBegin,
        ScanTest, ScanUse, ScanFree, PutReady, PutRetry, PutTimeout, PutCopy,
        PutSkip, PutWrap, FindSlot, ClaimSlot, CompareOffset, CopyOffset,
        PublishPid, GetBegin, LoadFirst, GetEnough, GetRetry, GetTimeout,
        GetSize, PeekCheck, PeekSize, PeekCopy, GetSkip, GetWrap

\* Nobody takes the producer record from the active producer.
LEMMA OwnsRingNext ==
    ASSUME TypeOK, LockExclusive, OwnInv, [Next]_vars, races' = {},
           NEW q \in Producers
    PROVE  OwnsRing(q)'
<1>a. /\ pc \in [Procs -> Labels] /\ races = {}
      /\ \A p \in Producers : OwnsRing(p)
    BY CalmBefore DEF TypeOK, OwnInv
<1>b. \A p \in Procs : pc[p] \in Locked => lock = p
    BY DEF LockExclusive
<1> USE ProcsAssumption DEF OwnsRing, Locked, Active, Labels, Goto
<1>1. ASSUME NEW p \in Procs, Lock(p) PROVE OwnsRing(q)'
    BY <1>a, <1>b, <1>1 DEF Lock
<1>2. ASSUME NEW p \in Procs, Notify(p) PROVE OwnsRing(q)'
    BY <1>a, <1>b, <1>2 DEF Notify, ReleaseRecord, Forget
<1>3. ASSUME NEW p \in Procs, Detach(p) PROVE OwnsRing(q)'
    BY <1>a, <1>b, <1>3 DEF Detach, ReleaseRecord
<1>4. ASSUME NEW p \in Procs, Disconnect(p) PROVE OwnsRing(q)'
    BY <1>a, <1>b, <1>4 DEF Disconnect, Forget
<1>5. ASSUME NEW p \in Procs, Die(p) PROVE OwnsRing(q)'
    BY <1>a, <1>b, <1>5 DEF Die
<1>6. ASSUME NEW p \in Procs, ReleaseDead(p) PROVE OwnsRing(q)'
    BY <1>a, <1>b, <1>6 DEF ReleaseDead, ReleaseRecord, Forget, HitIf
<1>7. ASSUME NEW p \in Producers, FindProducer(p) PROVE OwnsRing(q)'
    BY <1>a, <1>b, <1>7 DEF FindProducer, Refuse
<1>8. ASSUME NEW p \in Producers, ClaimProducer(p) PROVE OwnsRing(q)'
    BY <1>a, <1>b, <1>8 DEF ClaimProducer, HitIf
<1>9. ASSUME NEW p \in Producers, PutBegin(p) PROVE OwnsRing(q)'
    BY <1>a, <1>b, <1>9 DEF PutBegin
<1>10. ASSUME NEW p \in Producers, ScanTest(p) PROVE OwnsRing(q)'
    BY <1>a, <1>b, <1>10 DEF ScanTest
<1>11. ASSUME NEW p \in Producers, ScanUse(p) PROVE OwnsRing(q)'
    BY <1>a, <1>b, <1>11 DEF ScanUse, NextSlot, HitIf
<1>12. ASSUME NEW p \in Producers, ScanFree(p) PROVE OwnsRing(q)'
    BY <1>a, <1>b, <1>12 DEF ScanFree, NextSlot
<1>13. ASSUME NEW p \in Producers, PutReady(p) PROVE OwnsRing(q)'
    BY <1>a, <1>b, <1>13 DEF PutReady
<1>14. ASSUME NEW p \in Producers, PutRetry(p) PROVE OwnsRing(q)'
    BY <1>a, <1>b, <1>14 DEF PutRetry
<1>15. ASSUME NEW p \in Producers, PutTimeout(p) PROVE OwnsRing(q)'
    BY <1>a, <1>b, <1>15 DEF PutTimeout, Return
<1>16. ASSUME NEW p \in Producers, PutCopy(p) PROVE OwnsRing(q)'
    BY <1>a, <1>b, <1>16 DEF PutCopy
<1>17. ASSUME NEW p \in Producers, PutSkip(p) PROVE OwnsRing(q)'
    BY <1>a, <1>b, <1>17 DEF PutSkip, Return
<1>18. ASSUME NEW p \in Producers, PutWrap(p) PROVE OwnsRing(q)'
    BY <1>a, <1>b, <1>18 DEF PutWrap, Return
<1>19. ASSUME NEW c \in Consumers, FindSlot(c) PROVE OwnsRing(q)'
    BY <1>a, <1>b, <1>19 DEF FindSlot, Refuse
<1>20. ASSUME NEW c \in Consumers, ClaimSlot(c) PROVE OwnsRing(q)'
    BY <1>a, <1>b, <1>20 DEF ClaimSlot
<1>21. ASSUME NEW c \in Consumers, CompareOffset(c) PROVE OwnsRing(q)'
    BY <1>a, <1>b, <1>21 DEF CompareOffset, HitIf
<1>22. ASSUME NEW c \in Consumers, CopyOffset(c) PROVE OwnsRing(q)'
    BY <1>a, <1>b, <1>22 DEF CopyOffset
<1>23. ASSUME NEW c \in Consumers, PublishPid(c) PROVE OwnsRing(q)'
    BY <1>a, <1>b, <1>23 DEF PublishPid
<1>24. ASSUME NEW c \in Consumers, GetBegin(c) PROVE OwnsRing(q)'
    BY <1>a, <1>b, <1>24 DEF GetBegin
<1>25. ASSUME NEW c \in Consumers, LoadFirst(c) PROVE OwnsRing(q)'
    BY <1>a, <1>b, <1>25 DEF LoadFirst
<1>26. ASSUME NEW c \in Consumers, GetEnough(c) PROVE OwnsRing(q)'
    BY <1>a, <1>b, <1>26 DEF GetEnough, Stage
<1>27. ASSUME NEW c \in Consumers, GetRetry(c) PROVE OwnsRing(q)'
    BY <1>a, <1>b, <1>27 DEF GetRetry, Stage
<1>28. ASSUME NEW c \in Consumers, GetTimeout(c) PROVE OwnsRing(q)'
    BY <1>a, <1>b, <1>28 DEF GetTimeout, Return
<1>29. ASSUME NEW c \in Consumers, GetSize(c) PROVE OwnsRing(q)'
    BY <1>a, <1>b, <1>29 DEF GetSize, Stage
<1>30. ASSUME NEW c \in Consumers, PeekCheck(c) PROVE OwnsRing(q)'
    BY <1>a, <1>b, <1>30 DEF PeekCheck, Return
<1>31. ASSUME NEW c \in Consumers, PeekSize(c) PROVE OwnsRing(q)'
    BY <1>a, <1>b, <1>31 DEF PeekSize
<1>32. ASSUME NEW c \in Consumers, PeekCopy(c) PROVE OwnsRing(q)'
    BY <1>a, <1>b, <1>32 DEF PeekCopy
<1>33. ASSUME NEW c \in Consumers, GetSkip(c) PROVE OwnsRing(q)'
    BY <1>a, <1>b, <1>33 DEF GetSkip, GetReturn, Return
<1>34. ASSUME NEW c \in Consumers, GetWrap(c) PROVE OwnsRing(q)'
    BY <1>a, <1>b, <1>34 DEF GetWrap, GetReturn, Return
<1>35. CASE UNCHANGED vars
    BY <1>a, <1>b, <1>35 DEF vars
<1> QED
    BY <1>1, <1>2, <1>3, <1>4, <1>5, <1>6, <1>7, <1>8, <1>9, <1>10, <1>11,
        <1>12, <1>13, <1>14, <1>15, <1>16, <1>17, <1>18, <1>19, <1>20, <1>21,
        <1>22, <1>23, <1>24, <1>25, <1>26, <1>27, <1>28, <1>29, <1>30, <1>31,
        <1>32, <1>33, <1>34, <1>35
    DEF Next, Put, Get, Join

\* Nobody takes the record of a consumer that is attached or attaching.
LEMMA OwnsRecordNext ==
    ASSUME TypeOK, IndexInv, LockExclusive, OwnInv, [Next]_vars, races' = {},
           NEW d \in Consumers
    PROVE  OwnsRecord(d)'
<1>a. /\ pc \in [Procs -> Labels] /\ races = {}
      /\ slotPid \in [Slots -> Consumers \cup {NoClient, Joining}]
      /\ mySlot \in [Consumers -> Slots \cup {NoSlot}]
      /\ \A c \in Consumers : OwnsRecord(c)
    BY CalmBefore DEF TypeOK, OwnInv
<1>b. \A p \in Procs : pc[p] \in Locked => lock = p
    BY DEF LockExclusive
<1>c. \A c \in Consumers : pc[c] \notin {"detached", "attach", "dead"}
                            => mySlot[c] \in Slots
    BY DEF IndexInv
<1> USE ProcsAssumption DEF OwnsRecord, Locked, Reading, Labels, Goto
<1>1. ASSUME NEW p \in Procs, Lock(p) PROVE OwnsRecord(d)'
    BY <1>a, <1>b, <1>c, <1>1 DEF Lock
<1>2. ASSUME NEW p \in Procs, Notify(p) PROVE OwnsRecord(d)'
    BY <1>a, <1>b, <1>c, <1>2 DEF Notify, ReleaseRecord, Forget
<1>3. ASSUME NEW p \in Procs, Detach(p) PROVE OwnsRecord(d)'
    BY <1>a, <1>b, <1>c, <1>3 DEF Detach, ReleaseRecord
<1>4. ASSUME NEW p \in Procs, Disconnect(p) PROVE OwnsRecord(d)'
    BY <1>a, <1>b, <1>c, <1>4 DEF Disconnect, Forget
<1>5. ASSUME NEW p \in Procs, Die(p) PROVE OwnsRecord(d)'
    BY <1>a, <1>b, <1>c, <1>5 DEF Die
<1>6. ASSUME NEW p \in Procs, ReleaseDead(p) PROVE OwnsRecord(d)'
    BY <1>a, <1>b, <1>c, <1>6 DEF ReleaseDead, ReleaseRecord, Forget, HitIf
<1>7. ASSUME NEW p \in Producers, FindProducer(p) PROVE OwnsRecord(d)'
    BY <1>a, <1>b, <1>c, <1>7 DEF FindProducer, Refuse
<1>8. ASSUME NEW p \in Producers, ClaimProducer(p) PROVE OwnsRecord(d)'
    BY <1>a, <1>b, <1>c, <1>8 DEF ClaimProducer, HitIf
<1>9. ASSUME NEW p \in Producers, PutBegin(p) PROVE OwnsRecord(d)'
    BY <1>a, <1>b, <1>c, <1>9 DEF PutBegin
<1>10. ASSUME NEW p \in Producers, ScanTest(p) PROVE OwnsRecord(d)'
    BY <1>a, <1>b, <1>c, <1>10 DEF ScanTest
<1>11. ASSUME NEW p \in Producers, ScanUse(p) PROVE OwnsRecord(d)'
    BY <1>a, <1>b, <1>c, <1>11 DEF ScanUse, NextSlot, HitIf
<1>12. ASSUME NEW p \in Producers, ScanFree(p) PROVE OwnsRecord(d)'
    BY <1>a, <1>b, <1>c, <1>12 DEF ScanFree, NextSlot
<1>13. ASSUME NEW p \in Producers, PutReady(p) PROVE OwnsRecord(d)'
    BY <1>a, <1>b, <1>c, <1>13 DEF PutReady
<1>14. ASSUME NEW p \in Producers, PutRetry(p) PROVE OwnsRecord(d)'
    BY <1>a, <1>b, <1>c, <1>14 DEF PutRetry
<1>15. ASSUME NEW p \in Producers, PutTimeout(p) PROVE OwnsRecord(d)'
    BY <1>a, <1>b, <1>c, <1>15 DEF PutTimeout, Return
<1>16. ASSUME NEW p \in Producers, PutCopy(p) PROVE OwnsRecord(d)'
    BY <1>a, <1>b, <1>c, <1>16 DEF PutCopy
<1>17. ASSUME NEW p \in Producers, PutSkip(p) PROVE OwnsRecord(d)'
    BY <1>a, <1>b, <1>c, <1>17 DEF PutSkip, Return
<1>18. ASSUME NEW p \in Producers, PutWrap(p) PROVE OwnsRecord(d)'
    BY <1>a, <1>b, <1>c, <1>18 DEF PutWrap, Return
<1>19. ASSUME NEW c \in Consumers, FindSlot(c) PROVE OwnsRecord(d)'
    <2>1. CASE c = d
        <3>1. CASE \E s \in Slots : FirstFree(s)
            <4>1. PICK s \in Slots : FirstFree(s) /\ mySlot' = [mySlot EXCEPT ![c] = s]
                BY <1>19, <3>1 DEF FindSlot
            <4> QED
                BY <1>a, <1>b, <1>c, <1>19, <2>1, <3>1, <4>1
                    DEF FindSlot, FirstFree
        <3>2. CASE ~ \E s \in Slots : FirstFree(s)
            BY <1>a, <1>b, <1>c, <1>19, <2>1, <3>2 DEF FindSlot, Refuse
        <3> QED
            BY <3>1, <3>2
    <2>2. CASE c # d
        BY <1>a, <1>b, <1>c, <1>19, <2>2 DEF FindSlot, Refuse
    <2> QED
        BY <2>1, <2>2
<1>20. ASSUME NEW c \in Consumers, ClaimSlot(c) PROVE OwnsRecord(d)'
    BY <1>a, <1>b, <1>c, <1>20 DEF ClaimSlot
<1>21. ASSUME NEW c \in Consumers, CompareOffset(c) PROVE OwnsRecord(d)'
    BY <1>a, <1>b, <1>c, <1>21 DEF CompareOffset, HitIf
<1>22. ASSUME NEW c \in Consumers, CopyOffset(c) PROVE OwnsRecord(d)'
    BY <1>a, <1>b, <1>c, <1>22 DEF CopyOffset
<1>23. ASSUME NEW c \in Consumers, PublishPid(c) PROVE OwnsRecord(d)'
    BY <1>a, <1>b, <1>c, <1>23 DEF PublishPid
<1>24. ASSUME NEW c \in Consumers, GetBegin(c) PROVE OwnsRecord(d)'
    BY <1>a, <1>b, <1>c, <1>24 DEF GetBegin
<1>25. ASSUME NEW c \in Consumers, LoadFirst(c) PROVE OwnsRecord(d)'
    BY <1>a, <1>b, <1>c, <1>25 DEF LoadFirst
<1>26. ASSUME NEW c \in Consumers, GetEnough(c) PROVE OwnsRecord(d)'
    BY <1>a, <1>b, <1>c, <1>26 DEF GetEnough, Stage
<1>27. ASSUME NEW c \in Consumers, GetRetry(c) PROVE OwnsRecord(d)'
    BY <1>a, <1>b, <1>c, <1>27 DEF GetRetry, Stage
<1>28. ASSUME NEW c \in Consumers, GetTimeout(c) PROVE OwnsRecord(d)'
    BY <1>a, <1>b, <1>c, <1>28 DEF GetTimeout, Return
<1>29. ASSUME NEW c \in Consumers, GetSize(c) PROVE OwnsRecord(d)'
    BY <1>a, <1>b, <1>c, <1>29 DEF GetSize, Stage
<1>30. ASSUME NEW c \in Consumers, PeekCheck(c) PROVE OwnsRecord(d)'
    BY <1>a, <1>b, <1>c, <1>30 DEF PeekCheck, Return
<1>31. ASSUME NEW c \in Consumers, PeekSize(c) PROVE OwnsRecord(d)'
    BY <1>a, <1>b, <1>c, <1>31 DEF PeekSize
<1>32. ASSUME NEW c \in Consumers, PeekCopy(c) PROVE OwnsRecord(d)'
    BY <1>a, <1>b, <1>c, <1>32 DEF PeekCopy
<1>33. ASSUME NEW c \in Consumers, GetSkip(c) PROVE OwnsRecord(d)'
    BY <1>a, <1>b, <1>c, <1>33 DEF GetSkip, GetReturn, Return
<1>34. ASSUME NEW c \in Consumers, GetWrap(c) PROVE OwnsRecord(d)'
    BY <1>a, <1>b, <1>c, <1>34 DEF GetWrap, GetReturn, Return
<1>35. CASE UNCHANGED vars
    BY <1>a, <1>b, <1>c, <1>35 DEF vars
<1> QED
    BY <1>1, <1>2, <1>3, <1>4, <1>5, <1>6, <1>7, <1>8, <1>9, <1>10, <1>11,
        <1>12, <1>13, <1>14, <1>15, <1>16, <1>17, <1>18, <1>19, <1>20, <1>21,
        <1>22, <1>23, <1>24, <1>25, <1>26, <1>27, <1>28, <1>29, <1>30, <1>31,
        <1>32, <1>33, <1>34, <1>35
    DEF Next, Put, Get, Join

\* What the active producer knows of its offset and of the free space.
LEMMA PutNext ==
    ASSUME TypeOK, IndexInv, OwnInv, PutInv, [Next]_vars, races' = {},
           NEW q \in Producers
    PROVE  PutOk(q)'
<1>a. /\ pc \in [Procs -> Labels] /\ putOff \in 0 .. 2 * Size - 1 /\ races = {}
      /\ want \in [Procs -> Wants] /\ scan \in [Producers -> Scans]
      /\ slotOff \in [Slots -> Int]
      /\ \A p \in Procs : want[p].min \in Nat
      /\ \A p \in Producers : scan[p].free \in Nat /\ scan[p].c1 \in Int
    BY CalmBefore DEF TypeOK, PutInv, Wants, Scans
<1>b. \A p \in Producers : OwnsRing(p) /\ PutOk(p)
    BY DEF OwnInv, PutInv
<1> USE ProcsAssumption, SizeAssumption
    DEF OwnsRing, PutOk, NoScan, NoWant, Active, Labels, Goto
<1>1. ASSUME NEW p \in Procs, Lock(p) PROVE PutOk(q)'
    BY <1>a, <1>b, <1>1 DEF Lock
<1>2. ASSUME NEW p \in Procs, Notify(p) PROVE PutOk(q)'
    BY <1>a, <1>b, <1>2 DEF Notify, ReleaseRecord, Forget
<1>3. ASSUME NEW p \in Procs, Detach(p) PROVE PutOk(q)'
    BY <1>a, <1>b, <1>3 DEF Detach, ReleaseRecord
<1>4. ASSUME NEW p \in Procs, Disconnect(p) PROVE PutOk(q)'
    BY <1>a, <1>b, <1>4 DEF Disconnect, Forget
<1>5. ASSUME NEW p \in Procs, Die(p) PROVE PutOk(q)'
    BY <1>a, <1>b, <1>5 DEF Die
<1>6. ASSUME NEW p \in Procs, ReleaseDead(p) PROVE PutOk(q)'
    BY <1>a, <1>b, <1>6 DEF ReleaseDead, ReleaseRecord, Forget, HitIf
<1>7. ASSUME NEW p \in Producers, FindProducer(p) PROVE PutOk(q)'
    BY <1>a, <1>b, <1>7 DEF FindProducer, Refuse
<1>8. ASSUME NEW p \in Producers, ClaimProducer(p) PROVE PutOk(q)'
    BY <1>a, <1>b, <1>8, SMTT(30) DEF ClaimProducer, HitIf
<1>9. ASSUME NEW p \in Producers, PutBegin(p) PROVE PutOk(q)'
    BY <1>a, <1>b, <1>9 DEF PutBegin
<1>10. ASSUME NEW p \in Producers, ScanTest(p) PROVE PutOk(q)'
    BY <1>a, <1>b, <1>10 DEF ScanTest
<1>11. ASSUME NEW p \in Producers, ScanUse(p) PROVE PutOk(q)'
    BY <1>a, <1>b, <1>11 DEF ScanUse, NextSlot, HitIf
<1>12. ASSUME NEW p \in Producers, ScanFree(p) PROVE PutOk(q)'
    <2>1. /\ scan[p].slot \in Slots /\ scan[p].free \in 0 .. Size - 1
        BY <1>a, <1>b, <1>12 DEF ScanFree, IndexInv
    <2>2. SizeT(Size - Difference(putOff, scan[p].c1, putOff,
                                  slotOff[scan[p].slot]) - 1) \in Nat
        <3>1. slotOff[scan[p].slot] \in Int /\ putOff \in Int
            BY <1>a, <1>b, <2>1
        <3>2. Difference(putOff, scan[p].c1, putOff, slotOff[scan[p].slot]) \in Nat
            BY <1>a, <1>b, <3>1, DifferenceNat
        <3> QED
            BY <3>2, SizeTNat
    <2>3. PICK free \in 0 .. Size - 1 : NextSlot(p, free)
        BY <1>a, <1>b, <1>12, <2>1, <2>2 DEF ScanFree, Min2
    <2> QED
        BY <1>a, <1>b, <1>12, <2>3 DEF ScanFree, NextSlot
<1>13. ASSUME NEW p \in Producers, PutReady(p) PROVE PutOk(q)'
    BY <1>a, <1>b, <1>13 DEF PutReady
<1>14. ASSUME NEW p \in Producers, PutRetry(p) PROVE PutOk(q)'
    BY <1>a, <1>b, <1>14 DEF PutRetry
<1>15. ASSUME NEW p \in Producers, PutTimeout(p) PROVE PutOk(q)'
    BY <1>a, <1>b, <1>15 DEF PutTimeout, Return
<1>16. ASSUME NEW p \in Producers, PutCopy(p) PROVE PutOk(q)'
    BY <1>a, <1>b, <1>16 DEF PutCopy
<1>17. ASSUME NEW p \in Producers, PutSkip(p) PROVE PutOk(q)'
    <2>1. CASE p = q
        <3>1. /\ putOff \in 0 .. Size - 1 /\ want[p].min \in Nat
              /\ want[p].min <= Size - 1
            BY <1>a, <1>b, <1>17 DEF PutSkip
        <3> QED
            BY <1>a, <1>b, <1>17, <2>1, <3>1 DEF PutSkip, Return
    <2>2. CASE p # q
        BY <1>a, <1>b, <1>17, <2>2, OneProducer DEF PutSkip, Return
    <2> QED
        BY <2>1, <2>2
<1>18. ASSUME NEW p \in Producers, PutWrap(p) PROVE PutOk(q)'
    BY <1>a, <1>b, <1>18 DEF PutWrap, Return
<1>19. ASSUME NEW c \in Consumers, FindSlot(c) PROVE PutOk(q)'
    BY <1>a, <1>b, <1>19 DEF FindSlot, Refuse
<1>20. ASSUME NEW c \in Consumers, ClaimSlot(c) PROVE PutOk(q)'
    BY <1>a, <1>b, <1>20 DEF ClaimSlot
<1>21. ASSUME NEW c \in Consumers, CompareOffset(c) PROVE PutOk(q)'
    BY <1>a, <1>b, <1>21 DEF CompareOffset, HitIf
<1>22. ASSUME NEW c \in Consumers, CopyOffset(c) PROVE PutOk(q)'
    BY <1>a, <1>b, <1>22 DEF CopyOffset
<1>23. ASSUME NEW c \in Consumers, PublishPid(c) PROVE PutOk(q)'
    BY <1>a, <1>b, <1>23 DEF PublishPid
<1>24. ASSUME NEW c \in Consumers, GetBegin(c) PROVE PutOk(q)'
    BY <1>a, <1>b, <1>24 DEF GetBegin
<1>25. ASSUME NEW c \in Consumers, LoadFirst(c) PROVE PutOk(q)'
    BY <1>a, <1>b, <1>25 DEF LoadFirst
<1>26. ASSUME NEW c \in Consumers, GetEnough(c) PROVE PutOk(q)'
    BY <1>a, <1>b, <1>26 DEF GetEnough, Stage
<1>27. ASSUME NEW c \in Consumers, GetRetry(c) PROVE PutOk(q)'
    BY <1>a, <1>b, <1>27 DEF GetRetry, Stage
<1>28. ASSUME NEW c \in Consumers, GetTimeout(c) PROVE PutOk(q)'
    BY <1>a, <1>b, <1>28 DEF GetTimeout, Return
<1>29. ASSUME NEW c \in Consumers, GetSize(c) PROVE PutOk(q)'
    BY <1>a, <1>b, <1>29 DEF GetSize, Stage
<1>30. ASSUME NEW c \in Consumers, PeekCheck(c) PROVE PutOk(q)'
    BY <1>a, <1>b, <1>30 DEF PeekCheck, Return
<1>31. ASSUME NEW c \in Consumers, PeekSize(c) PROVE PutOk(q)'
    BY <1>a, <1>b, <1>31 DEF PeekSize
<1>32. ASSUME NEW c \in Consumers, PeekCopy(c) PROVE PutOk(q)'
    BY <1>a, <1>b, <1>32 DEF PeekCopy
<1>33. ASSUME NEW c \in Consumers, GetSkip(c) PROVE PutOk(q)'
    BY <1>a, <1>b, <1>33 DEF GetSkip, GetReturn, Return
<1>34. ASSUME NEW c \in Consumers, GetWrap(c) PROVE PutOk(q)'
    BY <1>a, <1>b, <1>34 DEF GetWrap, GetReturn, Return
<1>35. CASE UNCHANGED vars
    BY <1>a, <1>b, <1>35 DEF vars
<1> QED
    BY <1>1, <1>2, <1>3, <1>4, <1>5, <1>6, <1>7, <1>8, <1>9, <1>10, <1>11,
        <1>12, <1>13, <1>14, <1>15, <1>16, <1>17, <1>18, <1>19, <1>20, <1>21,
        <1>22, <1>23, <1>24, <1>25, <1>26, <1>27, <1>28, <1>29, <1>30, <1>31,
        <1>32, <1>33, <1>34, <1>35
    DEF Next, Put, Get, Join

\* The distance between the two offsets stays what is left to read.
LEMMA ReadNext ==
    ASSUME TypeOK, LockExclusive, IndexInv, OwnInv, PutInv, ReadInv, TakeInv, ScanInv,
           [Next]_vars, races' = {}, NEW d \in Consumers
    PROVE  ReadOk(d)'
<1>a. /\ pc \in [Procs -> Labels] /\ putOff \in 0 .. 2 * Size - 1 /\ races = {}
      /\ mySlot \in [Consumers -> Slots \cup {NoSlot}] /\ slotOff \in [Slots -> Int]
      /\ readPos \in [Consumers -> Int] /\ written \in Int
    BY CalmBefore DEF TypeOK, PutInv
<1>b. /\ \A c \in Consumers : pc[c] \notin {"detached", "attach", "dead"}
                               => mySlot[c] \in Slots
      /\ \A p \in Producers : PutOk(p) /\ ScanOk(p, d)
      /\ ReadOk(d) /\ TakeOk(d)
    BY DEF IndexInv, PutInv, ReadInv, TakeInv, ScanInv
<1> USE ProcsAssumption, SizeAssumption DEF ReadOk, MyOff, Unread, Reading, Goto
<1>1. ASSUME NEW p \in Procs, Lock(p) PROVE ReadOk(d)'
    BY <1>a, <1>b, <1>1 DEF Lock
<1>2. ASSUME NEW p \in Procs, Notify(p) PROVE ReadOk(d)'
    BY <1>a, <1>b, <1>2 DEF Notify, ReleaseRecord, Forget
<1>3. ASSUME NEW p \in Procs, Detach(p) PROVE ReadOk(d)'
    BY <1>a, <1>b, <1>3 DEF Detach, ReleaseRecord
<1>4. ASSUME NEW p \in Procs, Disconnect(p) PROVE ReadOk(d)'
    BY <1>a, <1>b, <1>4 DEF Disconnect, Forget
<1>5. ASSUME NEW p \in Procs, Die(p) PROVE ReadOk(d)'
    BY <1>a, <1>b, <1>5 DEF Die
<1>6. ASSUME NEW p \in Procs, ReleaseDead(p) PROVE ReadOk(d)'
    BY <1>a, <1>b, <1>6 DEF ReleaseDead, ReleaseRecord, Forget, HitIf
<1>7. ASSUME NEW p \in Producers, FindProducer(p) PROVE ReadOk(d)'
    BY <1>a, <1>b, <1>7 DEF FindProducer, Refuse
<1>8. ASSUME NEW p \in Producers, ClaimProducer(p) PROVE ReadOk(d)'
    BY <1>a, <1>b, <1>8 DEF ClaimProducer, HitIf
<1>9. ASSUME NEW p \in Producers, PutBegin(p) PROVE ReadOk(d)'
    BY <1>a, <1>b, <1>9 DEF PutBegin
<1>10. ASSUME NEW p \in Producers, ScanTest(p) PROVE ReadOk(d)'
    BY <1>a, <1>b, <1>10 DEF ScanTest
<1>11. ASSUME NEW p \in Producers, ScanUse(p) PROVE ReadOk(d)'
    BY <1>a, <1>b, <1>11 DEF ScanUse, NextSlot, HitIf
<1>12. ASSUME NEW p \in Producers, ScanFree(p) PROVE ReadOk(d)'
    BY <1>a, <1>b, <1>12 DEF ScanFree, NextSlot
<1>13. ASSUME NEW p \in Producers, PutReady(p) PROVE ReadOk(d)'
    BY <1>a, <1>b, <1>13 DEF PutReady
<1>14. ASSUME NEW p \in Producers, PutRetry(p) PROVE ReadOk(d)'
    BY <1>a, <1>b, <1>14 DEF PutRetry
<1>15. ASSUME NEW p \in Producers, PutTimeout(p) PROVE ReadOk(d)'
    BY <1>a, <1>b, <1>15 DEF PutTimeout, Return
<1>16. ASSUME NEW p \in Producers, PutCopy(p) PROVE ReadOk(d)'
    BY <1>a, <1>b, <1>16 DEF PutCopy
<1>17. ASSUME NEW p \in Producers, PutSkip(p) PROVE ReadOk(d)'
    <2> DEFINE n == want[p].min
    <2>1. /\ putOff \in 0 .. Size - 1 /\ n \in Nat /\ n <= scan[p].free
          /\ scan[p].free \in 0 .. Size - 1
        BY <1>a, <1>b, <1>17 DEF PutSkip, PutOk, Active, Labels, TypeOK, Wants
    <2>2. CASE pc[d] \in Reading
        <3>1. /\ MyOff(d) \in 0 .. 2 * Size - 1 /\ Unread(d) = Distance(putOff, MyOff(d))
            BY <1>a, <1>b, <2>2
        <3>2. Unread(d) + n <= Size - 1
            <4>1. Unread(d) + scan[p].free <= Size - 1
                BY <1>a, <1>b, <1>17, <2>2 DEF PutSkip, ScanOk, Passed
            <4>2. Unread(d) \in Int
                BY <1>a
            <4> QED
                BY <2>1, <4>1, <4>2
        <3>3. Distance(putOff + n, MyOff(d)) = Distance(putOff, MyOff(d)) + n
            BY <2>1, <3>1, <3>2, DistanceWritten
        <3>4. /\ putOff' = putOff + n /\ written' = written + n /\ slotOff' = slotOff
              /\ mySlot' = mySlot /\ readPos' = readPos /\ pc'[d] = pc[d]
            BY <1>a, <1>b, <1>17 DEF PutSkip, Return
        <3> QED
            BY <1>a, <1>b, <2>1, <2>2, <3>1, <3>3, <3>4
    <2>3. CASE pc[d] \notin Reading
        BY <1>a, <1>b, <1>17, <2>3 DEF PutSkip, Return
    <2> QED
        BY <2>2, <2>3
<1>18. ASSUME NEW p \in Producers, PutWrap(p) PROVE ReadOk(d)'
    <2>1. putOff >= Size
        BY <1>a, <1>b, <1>18 DEF PutWrap, PutOk
    <2>2. pc[d] \in Reading => Distance(putOff - Size, MyOff(d)) = Distance(putOff, MyOff(d))
        BY <1>a, <1>b, <2>1, DistanceWrapped
    <2>3. /\ putOff' = putOff - Size /\ UNCHANGED <<slotOff, mySlot, readPos, written>>
          /\ pc'[d] = pc[d]
        BY <1>a, <1>b, <1>18 DEF PutWrap, Return
    <2> QED
        BY <1>a, <1>b, <2>2, <2>3
<1>19. ASSUME NEW c \in Consumers, FindSlot(c) PROVE ReadOk(d)'
    BY <1>a, <1>b, <1>19 DEF FindSlot, Refuse
<1>20. ASSUME NEW c \in Consumers, ClaimSlot(c) PROVE ReadOk(d)'
    BY <1>a, <1>b, <1>20 DEF ClaimSlot
<1>21. ASSUME NEW c \in Consumers, CompareOffset(c) PROVE ReadOk(d)'
    <2>1. CASE c = d
        <3>1. putOff < Size => Distance(putOff, putOff) = 0
            BY <1>a, SizeAssumption DEF Distance, Cell
        <3> QED
            BY <1>a, <1>b, <1>21, <2>1, <3>1 DEF CompareOffset, HitIf
    <2>2. CASE c # d
        BY <1>a, <1>b, <1>21, <2>2 DEF CompareOffset, HitIf
    <2> QED
        BY <2>1, <2>2
<1>22. ASSUME NEW c \in Consumers, CopyOffset(c) PROVE ReadOk(d)'
    <2>1. CASE c = d
        BY <1>a, <1>b, <1>22, <2>1 DEF CopyOffset
    <2>2. CASE c # d
        <3>1. pc[d] \in Reading => mySlot[c] # mySlot[d]
            BY <1>22, <2>2, OneReader DEF CopyOffset, Holding, Reading
        <3> QED
            BY <1>a, <1>b, <1>22, <2>2, <3>1 DEF CopyOffset
    <2> QED
        BY <2>1, <2>2
<1>23. ASSUME NEW c \in Consumers, PublishPid(c) PROVE ReadOk(d)'
    BY <1>a, <1>b, <1>23 DEF PublishPid
<1>24. ASSUME NEW c \in Consumers, GetBegin(c) PROVE ReadOk(d)'
    BY <1>a, <1>b, <1>24 DEF GetBegin
<1>25. ASSUME NEW c \in Consumers, LoadFirst(c) PROVE ReadOk(d)'
    BY <1>a, <1>b, <1>25 DEF LoadFirst
<1>26. ASSUME NEW c \in Consumers, GetEnough(c) PROVE ReadOk(d)'
    BY <1>a, <1>b, <1>26 DEF GetEnough, Stage
<1>27. ASSUME NEW c \in Consumers, GetRetry(c) PROVE ReadOk(d)'
    BY <1>a, <1>b, <1>27 DEF GetRetry, Stage
<1>28. ASSUME NEW c \in Consumers, GetTimeout(c) PROVE ReadOk(d)'
    BY <1>a, <1>b, <1>28 DEF GetTimeout, Return
<1>29. ASSUME NEW c \in Consumers, GetSize(c) PROVE ReadOk(d)'
    BY <1>a, <1>b, <1>29 DEF GetSize, Stage
<1>30. ASSUME NEW c \in Consumers, PeekCheck(c) PROVE ReadOk(d)'
    BY <1>a, <1>b, <1>30 DEF PeekCheck, Return
<1>31. ASSUME NEW c \in Consumers, PeekSize(c) PROVE ReadOk(d)'
    BY <1>a, <1>b, <1>31 DEF PeekSize
<1>32. ASSUME NEW c \in Consumers, PeekCopy(c) PROVE ReadOk(d)'
    BY <1>a, <1>b, <1>32 DEF PeekCopy
<1>33. ASSUME NEW c \in Consumers, GetSkip(c) PROVE ReadOk(d)'
    <2>1. CASE c = d
        <3> DEFINE n == take[d].size
        <3>1. /\ n \in Nat /\ n <= Unread(d) /\ MyOff(d) \in 0 .. Size - 1
              /\ Unread(d) = Distance(putOff, MyOff(d))
            BY <1>a, <1>b, <1>33, <2>1 DEF GetSkip, TakeOk, TypeOK, Takes
        <3>2. /\ Distance(putOff, MyOff(d)) \in 0 .. Size - 1
              /\ Distance(putOff, MyOff(d) + n) = Distance(putOff, MyOff(d)) - n
            <4>1. MyOff(d) \in 0 .. 2 * Size - 1
                BY <3>1
            <4>2. Distance(putOff, MyOff(d)) \in 0 .. Size - 1
                BY <1>a, <4>1, DistanceRange
            <4>3. Distance(putOff, MyOff(d) + n) = Distance(putOff, MyOff(d)) - n
                BY <1>a, <3>1, DistanceRead
            <4> QED
                BY <4>2, <4>3
        <3>3. /\ slotOff'[mySlot[d]] = MyOff(d) + n /\ readPos'[d] = readPos[d] + n
              /\ UNCHANGED <<putOff, mySlot, written>>
              /\ pc'[d] = IF MyOff(d) + n >= Size THEN "wrap" ELSE "idle"
            BY <1>a, <1>b, <1>33, <2>1 DEF GetSkip, GetReturn, Return
        <3>4. Unread(d)' = Unread(d) - n
            BY <1>a, <3>1, <3>3
        <3> QED
            BY <3>1, <3>2, <3>3, <3>4
    <2>2. CASE c # d
        <3>1. pc[d] \in Reading => mySlot[c] # mySlot[d]
            BY <1>33, <2>2, OneReader DEF GetSkip, Holding, Reading
        <3> QED
            BY <1>a, <1>b, <1>33, <2>2, <3>1 DEF GetSkip, GetReturn, Return
    <2> QED
        BY <2>1, <2>2
<1>34. ASSUME NEW c \in Consumers, GetWrap(c) PROVE ReadOk(d)'
    <2>1. CASE c = d
        <3>1. /\ MyOff(d) \in Size .. 2 * Size - 1
              /\ Unread(d) = Distance(putOff, MyOff(d))
            BY <1>a, <1>b, <1>34, <2>1 DEF GetWrap
        <3>2. Distance(putOff, MyOff(d) - Size) = Distance(putOff, MyOff(d))
            BY <1>a, <3>1, DistanceWrapped
        <3>3. /\ slotOff'[mySlot[d]] = MyOff(d) - Size /\ pc'[d] = "idle"
              /\ UNCHANGED <<putOff, mySlot, written, readPos>>
            BY <1>a, <1>b, <1>34, <2>1 DEF GetWrap, GetReturn, Return
        <3> QED
            BY <1>a, <1>b, <3>1, <3>2, <3>3
    <2>2. CASE c # d
        <3>1. pc[d] \in Reading => mySlot[c] # mySlot[d]
            BY <1>34, <2>2, OneReader DEF GetWrap, Holding, Reading
        <3> QED
            BY <1>a, <1>b, <1>34, <2>2, <3>1 DEF GetWrap, GetReturn, Return
    <2> QED
        BY <2>1, <2>2
<1>35. CASE UNCHANGED vars
    BY <1>a, <1>b, <1>35 DEF vars
<1> QED
    BY <1>1, <1>2, <1>3, <1>4, <1>5, <1>6, <1>7, <1>8, <1>9, <1>10, <1>11,
        <1>12, <1>13, <1>14, <1>15, <1>16, <1>17, <1>18, <1>19, <1>20, <1>21,
        <1>22, <1>23, <1>24, <1>25, <1>26, <1>27, <1>28, <1>29, <1>30, <1>31,
        <1>32, <1>33, <1>34, <1>35
    DEF Next, Put, Get, Join

\* When put advances its offset, the bytes fit before every reader.
LEMMA PutSkipFits ==
    ASSUME TypeOK, PutInv, ReadInv, ScanInv, NEW p \in Producers, NEW d \in Consumers,
           pc[p] = "skip", pc[d] \in Reading
    PROVE  /\ putOff \in 0 .. Size - 1 /\ want[p].min \in Nat
           /\ Unread(d) + want[p].min <= Size - 1
           /\ Unread(d) = Distance(putOff, MyOff(d)) /\ Unread(d) \in Int
<1>1. PutOk(p) /\ ScanOk(p, d) /\ ReadOk(d)
    BY DEF PutInv, ScanInv, ReadInv
<1>a. want[p].min \in Nat /\ scan[p].free \in Nat /\ Unread(d) \in Int
    <2>1. want[p] \in Wants /\ scan[p] \in Scans
        BY DEF TypeOK
    <2>2. written \in Int /\ readPos[d] \in Int
        BY DEF TypeOK
    <2> QED
        BY <2>1, <2>2 DEF Wants, Scans, Unread
<1>2. putOff \in 0 .. Size - 1 /\ want[p].min <= scan[p].free
    BY <1>1 DEF PutOk, Active, Labels
<1>3. Unread(d) + scan[p].free <= Size - 1 /\ Unread(d) = Distance(putOff, MyOff(d))
    BY <1>1 DEF ScanOk, ReadOk, Passed
<1> QED
    BY <1>a, <1>2, <1>3, SizeAssumption

\* What get has learnt from its loads stays true while put runs.
LEMMA TakeNext ==
    ASSUME TypeOK, LockExclusive, IndexInv, OwnInv, PutInv, ReadInv, TakeInv, ScanInv,
           [Next]_vars, races' = {}, NEW d \in Consumers
    PROVE  TakeOk(d)'
<1>a. /\ pc \in [Procs -> Labels] /\ putOff \in 0 .. 2 * Size - 1 /\ races = {}
      /\ mySlot \in [Consumers -> Slots \cup {NoSlot}] /\ slotOff \in [Slots -> Int]
      /\ readPos \in [Consumers -> Int] /\ written \in Int
      /\ take \in [Consumers -> Takes] /\ want \in [Procs -> Wants]
      /\ \A c \in Consumers : take[c].size \in Nat /\ take[c].p1 \in Int
      /\ \A c \in Consumers : want[c].max \in Nat
    BY CalmBefore DEF TypeOK, PutInv, Takes, Wants
<1>b. /\ \A c \in Consumers : pc[c] \notin {"detached", "attach", "dead"}
                               => mySlot[c] \in Slots
      /\ \A p \in Producers : PutOk(p) /\ ScanOk(p, d)
      /\ ReadOk(d) /\ TakeOk(d)
    BY DEF IndexInv, PutInv, ReadInv, TakeInv, ScanInv
<1> USE ProcsAssumption, SizeAssumption DEF TakeOk, MyOff, Unread, Reading, Goto
<1>1. ASSUME NEW p \in Procs, Lock(p) PROVE TakeOk(d)'
    BY <1>a, <1>b, <1>1 DEF Lock
<1>2. ASSUME NEW p \in Procs, Notify(p) PROVE TakeOk(d)'
    BY <1>a, <1>b, <1>2 DEF Notify, ReleaseRecord, Forget
<1>3. ASSUME NEW p \in Procs, Detach(p) PROVE TakeOk(d)'
    BY <1>a, <1>b, <1>3 DEF Detach, ReleaseRecord
<1>4. ASSUME NEW p \in Procs, Disconnect(p) PROVE TakeOk(d)'
    BY <1>a, <1>b, <1>4 DEF Disconnect, Forget
<1>5. ASSUME NEW p \in Procs, Die(p) PROVE TakeOk(d)'
    BY <1>a, <1>b, <1>5 DEF Die
<1>6. ASSUME NEW p \in Procs, ReleaseDead(p) PROVE TakeOk(d)'
    BY <1>a, <1>b, <1>6 DEF ReleaseDead, ReleaseRecord, Forget, HitIf
<1>7. ASSUME NEW p \in Producers, FindProducer(p) PROVE TakeOk(d)'
    BY <1>a, <1>b, <1>7 DEF FindProducer, Refuse
<1>8. ASSUME NEW p \in Producers, ClaimProducer(p) PROVE TakeOk(d)'
    BY <1>a, <1>b, <1>8 DEF ClaimProducer, HitIf
<1>9. ASSUME NEW p \in Producers, PutBegin(p) PROVE TakeOk(d)'
    BY <1>a, <1>b, <1>9 DEF PutBegin
<1>10. ASSUME NEW p \in Producers, ScanTest(p) PROVE TakeOk(d)'
    BY <1>a, <1>b, <1>10 DEF ScanTest
<1>11. ASSUME NEW p \in Producers, ScanUse(p) PROVE TakeOk(d)'
    BY <1>a, <1>b, <1>11 DEF ScanUse, NextSlot, HitIf
<1>12. ASSUME NEW p \in Producers, ScanFree(p) PROVE TakeOk(d)'
    BY <1>a, <1>b, <1>12 DEF ScanFree, NextSlot
<1>13. ASSUME NEW p \in Producers, PutReady(p) PROVE TakeOk(d)'
    BY <1>a, <1>b, <1>13 DEF PutReady
<1>14. ASSUME NEW p \in Producers, PutRetry(p) PROVE TakeOk(d)'
    BY <1>a, <1>b, <1>14 DEF PutRetry
<1>15. ASSUME NEW p \in Producers, PutTimeout(p) PROVE TakeOk(d)'
    BY <1>a, <1>b, <1>15 DEF PutTimeout, Return
<1>16. ASSUME NEW p \in Producers, PutCopy(p) PROVE TakeOk(d)'
    BY <1>a, <1>b, <1>16 DEF PutCopy
<1>17. ASSUME NEW p \in Producers, PutSkip(p) PROVE TakeOk(d)'
    <2> DEFINE n == want[p].min
    <2>1. CASE pc[d] \in Reading
        <3>1. /\ putOff \in 0 .. Size - 1 /\ n \in Nat /\ Unread(d) + n <= Size - 1
              /\ Unread(d) = Distance(putOff, MyOff(d)) /\ Unread(d) \in Int
            BY <1>17, <2>1, PutSkipFits DEF PutSkip
        <3>2. /\ putOff' = putOff + n /\ written' = written + n
              /\ UNCHANGED <<slotOff, mySlot, readPos, take>> /\ pc'[d] = pc[d]
            BY <1>a, <1>b, <1>17 DEF PutSkip, Return
        <3>3. Unread(d)' = Unread(d) + n
            BY <1>a, <3>1, <3>2
        <3>4. pc[d] = "load2" /\ take[d].p1 < MyOff(d) => putOff + n < MyOff(d)
            BY <1>a, <1>b, <2>1, <3>1 DEF ReadOk, Distance, Cell
        <3> QED
            BY <1>a, <1>b, <2>1, <3>1, <3>2, <3>3, <3>4
    <2>2. CASE pc[d] \notin Reading
        BY <1>a, <1>b, <1>17, <2>2 DEF PutSkip, Return
    <2> QED
        BY <2>1, <2>2
<1>18. ASSUME NEW p \in Producers, PutWrap(p) PROVE TakeOk(d)'
    BY <1>a, <1>b, <1>18 DEF PutWrap, Return
<1>19. ASSUME NEW c \in Consumers, FindSlot(c) PROVE TakeOk(d)'
    BY <1>a, <1>b, <1>19 DEF FindSlot, Refuse
<1>20. ASSUME NEW c \in Consumers, ClaimSlot(c) PROVE TakeOk(d)'
    BY <1>a, <1>b, <1>20 DEF ClaimSlot
<1>21. ASSUME NEW c \in Consumers, CompareOffset(c) PROVE TakeOk(d)'
    BY <1>a, <1>b, <1>21 DEF CompareOffset, HitIf
<1>22. ASSUME NEW c \in Consumers, CopyOffset(c) PROVE TakeOk(d)'
    <2>1. CASE c = d
        BY <1>a, <1>b, <1>22, <2>1 DEF CopyOffset
    <2>2. CASE c # d
        <3>1. pc[d] \in Reading => mySlot[c] # mySlot[d]
            BY <1>22, <2>2, OneReader DEF CopyOffset, Holding, Reading
        <3> QED
            BY <1>a, <1>b, <1>22, <2>2, <3>1 DEF CopyOffset
    <2> QED
        BY <2>1, <2>2
<1>23. ASSUME NEW c \in Consumers, PublishPid(c) PROVE TakeOk(d)'
    BY <1>a, <1>b, <1>23 DEF PublishPid
<1>24. ASSUME NEW c \in Consumers, GetBegin(c) PROVE TakeOk(d)'
    BY <1>a, <1>b, <1>24, SizeAssumption DEF GetBegin, NoTake
<1>25. ASSUME NEW c \in Consumers, LoadFirst(c) PROVE TakeOk(d)'
    BY <1>a, <1>b, <1>25 DEF LoadFirst
<1>26. ASSUME NEW c \in Consumers, GetEnough(c) PROVE TakeOk(d)'
    BY <1>a, <1>b, <1>26 DEF GetEnough, Stage
<1>27. ASSUME NEW c \in Consumers, GetRetry(c) PROVE TakeOk(d)'
    BY <1>a, <1>b, <1>27 DEF GetRetry, Stage
<1>28. ASSUME NEW c \in Consumers, GetTimeout(c) PROVE TakeOk(d)'
    BY <1>a, <1>b, <1>28 DEF GetTimeout, Return
<1>29. ASSUME NEW c \in Consumers, GetSize(c) PROVE TakeOk(d)'
    <2>1. CASE c = d
        <3>1. /\ MyOff(d) \in 0 .. Size - 1 /\ Unread(d) = Distance(putOff, MyOff(d))
            BY <1>a, <1>b, <1>29, <2>1 DEF GetSize, ReadOk
        <3>2. Available(d) = Unread(d)
            <4>1. /\ ~(take[d].p1 >= MyOff(d) /\ putOff < MyOff(d))
                  /\ ~(putOff >= MyOff(d) + Size)
                BY <1>a, <1>29, <2>1 DEF GetSize, LoadRaces
            <4>2. take[d].p1 < MyOff(d) => putOff < MyOff(d)
                BY <1>a, <1>b, <1>29, <2>1 DEF GetSize
            <4> QED
                BY <1>a, <3>1, <4>1, <4>2, AvailableIsExact DEF Available
        <3>3. Min2(Available(d), want[d].max) <= Unread(d)
            BY <1>a, <3>2 DEF Min2
        <3>4. /\ take'[d].stage = "peek" /\ take'[d].size = Min2(Available(d), want[d].max)
              /\ pc'[d] = "check" /\ UNCHANGED <<written, readPos>>
            BY <1>a, <1>b, <1>29, <2>1 DEF GetSize, Stage
        <3> QED
            BY <3>3, <3>4
    <2>2. CASE c # d
        BY <1>a, <1>b, <1>29, <2>2 DEF GetSize, Stage
    <2> QED
        BY <2>1, <2>2
<1>30. ASSUME NEW c \in Consumers, PeekCheck(c) PROVE TakeOk(d)'
    BY <1>a, <1>b, <1>30 DEF PeekCheck, Return
<1>31. ASSUME NEW c \in Consumers, PeekSize(c) PROVE TakeOk(d)'
    BY <1>a, <1>b, <1>31 DEF PeekSize
<1>32. ASSUME NEW c \in Consumers, PeekCopy(c) PROVE TakeOk(d)'
    BY <1>a, <1>b, <1>32 DEF PeekCopy
<1>33. ASSUME NEW c \in Consumers, GetSkip(c) PROVE TakeOk(d)'
    <2>1. CASE c = d
        BY <1>a, <1>b, <1>33, <2>1 DEF GetSkip, GetReturn, Return
    <2>2. CASE c # d
        <3>1. pc[d] \in Reading => mySlot[c] # mySlot[d]
            BY <1>33, <2>2, OneReader DEF GetSkip, Holding, Reading
        <3> QED
            BY <1>a, <1>b, <1>33, <2>2, <3>1 DEF GetSkip, GetReturn, Return
    <2> QED
        BY <2>1, <2>2
<1>34. ASSUME NEW c \in Consumers, GetWrap(c) PROVE TakeOk(d)'
    <2>1. CASE c = d
        BY <1>a, <1>b, <1>34, <2>1 DEF GetWrap, GetReturn, Return
    <2>2. CASE c # d
        <3>1. pc[d] \in Reading => mySlot[c] # mySlot[d]
            BY <1>34, <2>2, OneReader DEF GetWrap, Holding, Reading
        <3> QED
            BY <1>a, <1>b, <1>34, <2>2, <3>1 DEF GetWrap, GetReturn, Return
    <2> QED
        BY <2>1, <2>2
<1>35. CASE UNCHANGED vars
    BY <1>a, <1>b, <1>35 DEF vars
<1> QED
    BY <1>1, <1>2, <1>3, <1>4, <1>5, <1>6, <1>7, <1>8, <1>9, <1>10, <1>11,
        <1>12, <1>13, <1>14, <1>15, <1>16, <1>17, <1>18, <1>19, <1>20, <1>21,
        <1>22, <1>23, <1>24, <1>25, <1>26, <1>27, <1>28, <1>29, <1>30, <1>31,
        <1>32, <1>33, <1>34, <1>35
    DEF Next, Put, Get, Join

\* What put has learnt of the readers it passed stays true while they run.
LEMMA ScanNext ==
    ASSUME TypeOK, LockExclusive, IndexInv, OwnInv, PutInv, ReadInv, TakeInv, ScanInv,
           [Next]_vars, races' = {}, NEW q \in Producers, NEW d \in Consumers
    PROVE  ScanOk(q, d)'
<1>a. /\ pc \in [Procs -> Labels] /\ putOff \in 0 .. 2 * Size - 1 /\ races = {}
      /\ mySlot \in [Consumers -> Slots \cup {NoSlot}] /\ slotOff \in [Slots -> Int]
      /\ readPos \in [Consumers -> Int] /\ written \in Int
      /\ scan \in [Producers -> Scans]
    BY CalmBefore DEF TypeOK, PutInv
<1>b. /\ \A c \in Consumers : pc[c] \notin {"detached", "attach", "dead"}
                               => mySlot[c] \in Slots
      /\ \A p \in Producers : PutOk(p) /\ ScanOk(p, d)
      /\ ReadOk(d) /\ TakeOk(d) /\ OwnsRecord(d)
    BY DEF IndexInv, PutInv, ReadInv, TakeInv, ScanInv, OwnInv
<1>c. /\ \A p \in Producers : pc[p] \in Active /\ pc[q] \in Active => p = q
      /\ \A s \in Slots : s \in Nat /\ s < MaxConsumers
    BY OneProducer, SizeAssumption DEF Slots
<1> USE ProcsAssumption, SizeAssumption
    DEF ScanOk, Passed, NoScan, MyOff, Unread, Reading, Active, Labels, Goto
<1>1. ASSUME NEW p \in Procs, Lock(p) PROVE ScanOk(q, d)'
    BY <1>a, <1>b, <1>c, <1>1 DEF Lock
<1>2. ASSUME NEW p \in Procs, Notify(p) PROVE ScanOk(q, d)'
    BY <1>a, <1>b, <1>c, <1>2 DEF Notify, ReleaseRecord, Forget
<1>3. ASSUME NEW p \in Procs, Detach(p) PROVE ScanOk(q, d)'
    BY <1>a, <1>b, <1>c, <1>3 DEF Detach, ReleaseRecord
<1>4. ASSUME NEW p \in Procs, Disconnect(p) PROVE ScanOk(q, d)'
    BY <1>a, <1>b, <1>c, <1>4 DEF Disconnect, Forget
<1>5. ASSUME NEW p \in Procs, Die(p) PROVE ScanOk(q, d)'
    BY <1>a, <1>b, <1>c, <1>5 DEF Die
<1>6. ASSUME NEW p \in Procs, ReleaseDead(p) PROVE ScanOk(q, d)'
    BY <1>a, <1>b, <1>c, <1>6 DEF ReleaseDead, ReleaseRecord, Forget, HitIf
<1>7. ASSUME NEW p \in Producers, FindProducer(p) PROVE ScanOk(q, d)'
    BY <1>a, <1>b, <1>c, <1>7 DEF FindProducer, Refuse
<1>8. ASSUME NEW p \in Producers, ClaimProducer(p) PROVE ScanOk(q, d)'
    BY <1>a, <1>b, <1>c, <1>8 DEF ClaimProducer, HitIf
<1>9. ASSUME NEW p \in Producers, PutBegin(p) PROVE ScanOk(q, d)'
    BY <1>a, <1>b, <1>c, <1>9 DEF PutBegin
<1>10. ASSUME NEW p \in Producers, ScanTest(p) PROVE ScanOk(q, d)'
    BY <1>a, <1>b, <1>c, <1>10 DEF ScanTest
<1>11. ASSUME NEW p \in Producers, ScanUse(p) PROVE ScanOk(q, d)'
    <2>1. CASE p = q
        <3>1. /\ scan[q].slot \in Slots /\ scan[q].slot \in Nat
              /\ scan[q].slot < MaxConsumers /\ scan[q].free \in 0 .. Size - 1
            BY <1>a, <1>b, <1>c, <1>11, <2>1 DEF ScanUse, IndexInv, PutOk
        <3>2. CASE slotPid[scan[q].slot] \in Procs
            BY <1>a, <1>b, <1>c, <1>11, <2>1, <3>1, <3>2 DEF ScanUse
        <3>3. CASE slotPid[scan[q].slot] \notin Procs
            <4>1. NextSlot(q, scan[q].free) /\ UNCHANGED <<putOff, slotOff, mySlot, written, readPos>>
                BY <1>11, <2>1, <3>3 DEF ScanUse
            <4>2. pc[d] \in Reading /\ mySlot[d] = scan[q].slot => Unread(d) = 0
                <5>1. ~(slotPid[scan[q].slot] = Joining /\ LeftBehind(scan[q].slot))
                    BY <1>11, <2>1, <3>3 DEF ScanUse, HitIf
                <5>2. SUFFICES ASSUME pc[d] \in Reading, mySlot[d] = scan[q].slot
                               PROVE  Unread(d) = 0
                    OBVIOUS
                <5>3. slotPid[mySlot[d]] = Joining /\ pc[d] = "publish"
                    BY <1>a, <1>b, <1>c, <3>3, <5>2 DEF OwnsRecord
                <5> QED
                    BY <1>a, <5>1, <5>2, <5>3 DEF LeftBehind
            <4>3. pc[d] \in Reading /\ mySlot[d] = scan[q].slot
                    => Unread(d) + scan[q].free <= Size - 1
                BY <3>1, <4>2
            <4>4. /\ scan'[q].slot = scan[q].slot + 1 /\ scan'[q].free = scan[q].free
                  /\ pc'[q] = IF scan[q].slot + 1 = MaxConsumers THEN "decide" ELSE "test"
                  /\ pc'[d] = pc[d]
                BY <1>a, <1>b, <1>c, <4>1 DEF NextSlot
            <4>5. pc[d] \in Reading /\ mySlot[d] <= scan[q].slot
                    => Unread(d) + scan[q].free <= Size - 1
                BY <1>a, <1>b, <1>c, <1>11, <2>1, <3>1, <4>3 DEF ScanUse
            <4> QED
                BY <1>a, <1>b, <1>c, <3>1, <4>1, <4>4, <4>5
        <3> QED
            BY <3>2, <3>3
    <2>2. CASE p # q
        BY <1>a, <1>b, <1>c, <1>11, <2>2 DEF ScanUse, NextSlot, HitIf
    <2> QED
        BY <2>1, <2>2
<1>12. ASSUME NEW p \in Producers, ScanFree(p) PROVE ScanOk(q, d)'
    <2>1. CASE p = q
        <3> DEFINE s == scan[q].slot
        <3>1. /\ s \in Slots /\ s \in Nat /\ s < MaxConsumers /\ scan[q].c1 \in Int
              /\ scan[q].free \in 0 .. Size - 1 /\ putOff \in 0 .. Size - 1
            BY <1>a, <1>b, <1>c, <1>12, <2>1
                DEF ScanFree, IndexInv, PutOk, Active, Labels, Scans
        <3> DEFINE free == SizeT(Size - Difference(putOff, scan[q].c1, putOff, slotOff[s]) - 1)
        <3>2. free \in Nat
            <4>1. slotOff[s] \in Int /\ putOff \in Int
                BY <1>a, <3>1
            <4>2. Difference(putOff, scan[q].c1, putOff, slotOff[s]) \in Nat
                BY <3>1, <4>1, DifferenceNat
            <4> QED
                BY <4>2, SizeTNat
        <3>3. pc[d] \in Reading /\ mySlot[d] = s => Unread(d) + free = Size - 1
            <4>1. SUFFICES ASSUME pc[d] \in Reading, mySlot[d] = s
                           PROVE  Unread(d) + free = Size - 1
                OBVIOUS
            <4>2. MyOff(d) \in 0 .. 2 * Size - 1 /\ Unread(d) = Distance(putOff, MyOff(d))
                BY <1>a, <1>b, <1>c, <4>1 DEF ReadOk
            <4>3. /\ ~(putOff < scan[q].c1 /\ MyOff(d) <= putOff)
                  /\ ~(putOff + Size < MyOff(d))
                BY <1>a, <1>12, <2>1, <4>1 DEF ScanFree
            <4>4. scan[q].c1 <= putOff => MyOff(d) <= putOff
                BY <1>a, <1>b, <1>c, <1>12, <2>1, <4>1 DEF ScanFree
            <4>5. free = Size - 1 - Distance(putOff, MyOff(d))
                BY <3>1, <4>1, <4>2, <4>3, <4>4, FreeIsExact
            <4> QED
                BY <1>a, <4>2, <4>5
        <3>4. /\ scan'[q].slot = s + 1 /\ scan'[q].free = Min2(free, scan[q].free)
              /\ pc'[q] = IF s + 1 = MaxConsumers THEN "decide" ELSE "test"
              /\ pc'[d] = pc[d]
              /\ UNCHANGED <<putOff, slotOff, mySlot, written, readPos>>
            BY <1>a, <1>b, <1>c, <1>12, <2>1 DEF ScanFree, NextSlot
        <3> HIDE DEF free
        <3>5. pc[d] \in Reading /\ mySlot[d] < s => Unread(d) + scan[q].free <= Size - 1
            BY <1>a, <1>b, <1>c, <1>12, <2>1 DEF ScanFree
        <3>6. pc[d] \in Reading /\ mySlot[d] <= s
                => Unread(d) + Min2(free, scan[q].free) <= Size - 1
            BY <1>a, <1>b, <1>c, <3>1, <3>2, <3>3, <3>5 DEF Min2
        <3> QED
            BY <1>a, <1>b, <1>c, <3>1, <3>4, <3>6
    <2>2. CASE p # q
        BY <1>a, <1>b, <1>c, <1>12, <2>2 DEF ScanFree, NextSlot
    <2> QED
        BY <2>1, <2>2
<1>13. ASSUME NEW p \in Producers, PutReady(p) PROVE ScanOk(q, d)'
    BY <1>a, <1>b, <1>c, <1>13 DEF PutReady
<1>14. ASSUME NEW p \in Producers, PutRetry(p) PROVE ScanOk(q, d)'
    BY <1>a, <1>b, <1>c, <1>14 DEF PutRetry
<1>15. ASSUME NEW p \in Producers, PutTimeout(p) PROVE ScanOk(q, d)'
    BY <1>a, <1>b, <1>c, <1>15 DEF PutTimeout, Return
<1>16. ASSUME NEW p \in Producers, PutCopy(p) PROVE ScanOk(q, d)'
    BY <1>a, <1>b, <1>c, <1>16 DEF PutCopy
<1>17. ASSUME NEW p \in Producers, PutSkip(p) PROVE ScanOk(q, d)'
    BY <1>a, <1>b, <1>c, <1>17 DEF PutSkip, Return
<1>18. ASSUME NEW p \in Producers, PutWrap(p) PROVE ScanOk(q, d)'
    BY <1>a, <1>b, <1>c, <1>18 DEF PutWrap, Return
<1>19. ASSUME NEW c \in Consumers, FindSlot(c) PROVE ScanOk(q, d)'
    BY <1>a, <1>b, <1>c, <1>19 DEF FindSlot, Refuse
<1>20. ASSUME NEW c \in Consumers, ClaimSlot(c) PROVE ScanOk(q, d)'
    BY <1>a, <1>b, <1>c, <1>20 DEF ClaimSlot
<1>21. ASSUME NEW c \in Consumers, CompareOffset(c) PROVE ScanOk(q, d)'
    <2>1. CASE c = d
        <3>1. pc[q] \in {"test", "use", "free", "decide", "copy", "skip"}
                => scan[q].free \in 0 .. Size - 1
            BY <1>a, <1>b, <1>c DEF PutOk
        <3> QED
            BY <1>a, <1>b, <1>c, <1>21, <2>1, <3>1 DEF CompareOffset, HitIf
    <2>2. CASE c # d
        BY <1>a, <1>b, <1>c, <1>21, <2>2 DEF CompareOffset, HitIf
    <2> QED
        BY <2>1, <2>2
<1>22. ASSUME NEW c \in Consumers, CopyOffset(c) PROVE ScanOk(q, d)'
    <2>1. CASE c = d
        BY <1>a, <1>b, <1>c, <1>22, <2>1 DEF CopyOffset
    <2>2. CASE c # d
        <3>1. pc[d] \in Reading => mySlot[c] # mySlot[d]
            BY <1>22, <2>2, OneReader DEF CopyOffset, Holding, Reading
        <3> QED
            BY <1>a, <1>b, <1>c, <1>22, <2>2, <3>1 DEF CopyOffset
    <2> QED
        BY <2>1, <2>2
<1>23. ASSUME NEW c \in Consumers, PublishPid(c) PROVE ScanOk(q, d)'
    BY <1>a, <1>b, <1>c, <1>23 DEF PublishPid
<1>24. ASSUME NEW c \in Consumers, GetBegin(c) PROVE ScanOk(q, d)'
    BY <1>a, <1>b, <1>c, <1>24 DEF GetBegin
<1>25. ASSUME NEW c \in Consumers, LoadFirst(c) PROVE ScanOk(q, d)'
    BY <1>a, <1>b, <1>c, <1>25 DEF LoadFirst
<1>26. ASSUME NEW c \in Consumers, GetEnough(c) PROVE ScanOk(q, d)'
    BY <1>a, <1>b, <1>c, <1>26 DEF GetEnough, Stage
<1>27. ASSUME NEW c \in Consumers, GetRetry(c) PROVE ScanOk(q, d)'
    BY <1>a, <1>b, <1>c, <1>27 DEF GetRetry, Stage
<1>28. ASSUME NEW c \in Consumers, GetTimeout(c) PROVE ScanOk(q, d)'
    BY <1>a, <1>b, <1>c, <1>28 DEF GetTimeout, Return
<1>29. ASSUME NEW c \in Consumers, GetSize(c) PROVE ScanOk(q, d)'
    BY <1>a, <1>b, <1>c, <1>29 DEF GetSize, Stage
<1>30. ASSUME NEW c \in Consumers, PeekCheck(c) PROVE ScanOk(q, d)'
    BY <1>a, <1>b, <1>c, <1>30 DEF PeekCheck, Return
<1>31. ASSUME NEW c \in Consumers, PeekSize(c) PROVE ScanOk(q, d)'
    BY <1>a, <1>b, <1>c, <1>31 DEF PeekSize
<1>32. ASSUME NEW c \in Consumers, PeekCopy(c) PROVE ScanOk(q, d)'
    BY <1>a, <1>b, <1>c, <1>32 DEF PeekCopy
<1>33. ASSUME NEW c \in Consumers, GetSkip(c) PROVE ScanOk(q, d)'
    <2>1. CASE c = d
        <3> DEFINE n == take[d].size
        <3>1. /\ n \in Nat /\ n <= Unread(d) /\ MyOff(d) \in 0 .. Size - 1
              /\ Unread(d) = Distance(putOff, MyOff(d))
            BY <1>a, <1>b, <1>c, <1>33, <2>1
                DEF GetSkip, TakeOk, ReadOk, TypeOK, Takes
        <3>2. /\ slotOff'[mySlot[d]] = MyOff(d) + n /\ readPos'[d] = readPos[d] + n
              /\ UNCHANGED <<putOff, mySlot, written, scan>> /\ pc'[q] = pc[q]
            BY <1>a, <1>b, <1>c, <1>33, <2>1 DEF GetSkip, GetReturn, Return
        <3>3. Unread(d)' = Unread(d) - n /\ MyOff(d)' = MyOff(d) + n
            BY <1>a, <3>1, <3>2
        <3>4. pc[q] = "free" /\ MyOff(d) <= putOff => MyOff(d) + n <= putOff
            BY <1>a, <1>b, <1>c, <3>1 DEF PutOk, Distance, Cell
        <3>5. Passed(q, mySlot[d]) => scan[q].free \in 0 .. Size - 1
            BY <1>a, <1>b, <1>c DEF PutOk, Passed
        <3> QED
            BY <1>a, <1>b, <1>c, <1>33, <2>1, <3>1, <3>2, <3>3, <3>4, <3>5
                DEF GetSkip
    <2>2. CASE c # d
        <3>1. pc[d] \in Reading => mySlot[c] # mySlot[d]
            BY <1>33, <2>2, OneReader DEF GetSkip, Holding, Reading
        <3> QED
            BY <1>a, <1>b, <1>c, <1>33, <2>2, <3>1
                DEF GetSkip, GetReturn, Return
    <2> QED
        BY <2>1, <2>2
<1>34. ASSUME NEW c \in Consumers, GetWrap(c) PROVE ScanOk(q, d)'
    <2>1. CASE c = d
        <3>1. MyOff(d) \in Size .. 2 * Size - 1
            BY <1>a, <1>b, <1>c, <1>34, <2>1 DEF GetWrap, ReadOk
        <3> QED
            BY <1>a, <1>b, <1>c, <1>34, <2>1, <3>1
                DEF GetWrap, GetReturn, Return
    <2>2. CASE c # d
        <3>1. pc[d] \in Reading => mySlot[c] # mySlot[d]
            BY <1>34, <2>2, OneReader DEF GetWrap, Holding, Reading
        <3> QED
            BY <1>a, <1>b, <1>c, <1>34, <2>2, <3>1
                DEF GetWrap, GetReturn, Return
    <2> QED
        BY <2>1, <2>2
<1>35. CASE UNCHANGED vars
    BY <1>a, <1>b, <1>c, <1>35 DEF vars
<1> QED
    BY <1>1, <1>2, <1>3, <1>4, <1>5, <1>6, <1>7, <1>8, <1>9, <1>10, <1>11,
        <1>12, <1>13, <1>14, <1>15, <1>16, <1>17, <1>18, <1>19, <1>20, <1>21,
        <1>22, <1>23, <1>24, <1>25, <1>26, <1>27, <1>28, <1>29, <1>30, <1>31,
        <1>32, <1>33, <1>34, <1>35
    DEF Next, Put, Get, Join

\* The put offset never leaves the two laps that Skip can reach.
LEMMA OffsetNext ==
    ASSUME TypeOK, IndexInv, OwnInv, PutInv, [Next]_vars, races' = {}
    PROVE  (putOff \in 0 .. 2 * Size - 1)'
<1>a. /\ pc \in [Procs -> Labels] /\ putOff \in 0 .. 2 * Size - 1
      /\ \A p \in Producers : PutOk(p)
    BY DEF TypeOK, PutInv
<1>1. ASSUME NEW p \in Producers, PutSkip(p) PROVE putOff' \in 0 .. 2 * Size - 1
    <2>1. want[p].min \in Nat
        BY DEF TypeOK, Wants
    <2> QED
        BY <1>a, <1>1, <2>1, SizeAssumption DEF PutSkip, PutOk, Active, Labels
<1>2. ASSUME NEW p \in Producers, PutWrap(p) PROVE putOff' \in 0 .. 2 * Size - 1
    BY <1>a, <1>2, SizeAssumption DEF PutWrap, PutOk
<1>3. ASSUME \A p \in Producers : ~PutSkip(p) /\ ~PutWrap(p) PROVE putOff' = putOff
    BY <1>3, ZenonT(60)
        DEF Next, Put, Get, Join, vars, Lock, Notify, Detach, Disconnect, Die,
            ReleaseDead,
        FindProducer, ClaimProducer, PutBegin, ScanTest, ScanUse, ScanFree,
        PutReady, PutRetry, PutTimeout, PutCopy, PutSkip, PutWrap,
        FindSlot, ClaimSlot, CompareOffset, CopyOffset, PublishPid, GetBegin,
        LoadFirst, GetEnough, GetRetry, GetTimeout, GetSize, PeekCheck,
        PeekSize, PeekCopy, GetSkip, GetWrap
<1> QED
    BY <1>a, <1>1, <1>2, <1>3

-----------------------------------------------------------------------------
\* The invariant holds at first.
LEMMA RingInit == Init => RingInv
<1> SUFFICES ASSUME Init PROVE RingInv
    OBVIOUS
<1>1. TypeOK
    BY TypeInit
<1>2. LockExclusive /\ IndexInv
    BY DEF Init, LockExclusive, IndexInv, Locked
<1>3. OwnInv /\ TakeInv
    BY DEF Init, OwnInv, OwnsRing, OwnsRecord, TakeInv, TakeOk, Active, Reading
<1>4. PutInv /\ ReadInv /\ ScanInv
    BY SizeAssumption DEF Init, PutInv, PutOk, ReadInv, ReadOk, ScanInv, ScanOk,
                          Active, Reading
<1> QED
    BY <1>1, <1>2, <1>3, <1>4 DEF RingInv

\* Every step preserves the invariant.
LEMMA RingNext == RingInv /\ [Next]_vars => RingInv'
<1> SUFFICES ASSUME RingInv, [Next]_vars PROVE RingInv'
    OBVIOUS
<1>1. TypeOK /\ LockExclusive /\ IndexInv
    BY DEF RingInv
<1>2. TypeOK' /\ LockExclusive' /\ IndexInv'
    BY <1>1, TypeNext, IndexNext, LockNext
<1>3. ASSUME races' = {} PROVE (OwnInv /\ PutInv /\ ReadInv /\ TakeInv /\ ScanInv)'
    <2>1. OwnInv /\ PutInv /\ ReadInv /\ TakeInv /\ ScanInv
        BY <1>3, CalmBefore DEF RingInv
    <2>2. OwnInv'
        BY <1>1, <1>3, <2>1, OwnsRingNext, OwnsRecordNext DEF OwnInv
    <2>3. PutInv'
        BY <1>1, <1>3, <2>1, PutNext, OffsetNext DEF PutInv
    <2>4. ReadInv'
        BY <1>1, <1>3, <2>1, ReadNext DEF ReadInv
    <2>5. TakeInv'
        BY <1>1, <1>3, <2>1, TakeNext DEF TakeInv
    <2>6. ScanInv'
        BY <1>1, <1>3, <2>1, ScanNext DEF ScanInv
    <2> QED
        BY <2>2, <2>3, <2>4, <2>5, <2>6
<1> QED
    BY <1>2, <1>3 DEF RingInv

\* The inductive invariant holds in every state: the offsets and what each side
\* has learnt from its unlocked loads describe the unread stream exactly until
\* one of the windows of CRingBuffer.cpp is hit.
THEOREM RingInvariant == Spec => []RingInv
BY RingInit, RingNext, PTL DEF Spec

\* Every variable keeps its type, whatever is hit.
THEOREM TypeCorrect == Spec => []TypeOK
<1>1. RingInv => TypeOK
    BY DEF RingInv
<1> QED
    BY <1>1, RingInvariant, PTL

\* Constructors and destructors (CRingBuffer.cpp) exclude each other.
THEOREM LockSafe == Spec => []LockExclusive
<1>1. RingInv => LockExclusive
    BY DEF RingInv
<1> QED
    BY <1>1, RingInvariant, PTL

\* put never passes a consumer's get offset (CRingBuffer::availablePutSpace):
\* what is unread always fits, for any number of consumers, sizes and requests.
THEOREM NoOverrunSafe == Spec => []NoOverrun
<1>1. RingInv => NoOverrun
    <2> SUFFICES ASSUME RingInv, races = {}, NEW c \in Consumers, pc[c] \in Reading
                 PROVE  written - readPos[c] \in 0 .. Size - 1
        BY DEF NoOverrun
    <2>1. ReadOk(c) /\ putOff \in 0 .. 2 * Size - 1
        BY DEF RingInv, ReadInv, PutInv
    <2>2. /\ written - readPos[c] = Distance(putOff, MyOff(c))
          /\ MyOff(c) \in 0 .. 2 * Size - 1
        BY <2>1, SizeAssumption DEF ReadOk, Unread
    <2> QED
        BY <2>1, <2>2, DistanceRange
<1> QED
    BY <1>1, RingInvariant, PTL

\* Each active producer or consumer has its record to itself (attach and
\* allocateConsumer under the lock), until the master releases a stale one.
THEOREM RecordsSafe == Spec => []RecordsExclusive
<1>1. RingInv => RecordsExclusive
    BY
        DEF RingInv, TypeOK, OwnInv, OwnsRing, OwnsRecord, RecordsExclusive,
            Active
<1> QED
    BY <1>1, RingInvariant, PTL
==============================================================================
