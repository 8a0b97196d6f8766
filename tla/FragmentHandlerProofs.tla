------------------------- MODULE FragmentHandlerProofs -------------------------
(***************************************************************************)
(* What the event orderer's fragment handler guarantees for any number of  *)
(* sources, any timestamps, windows and limits, and any number of fragments*)
(* in any messages: HandlerInv is inductive, and SourceOrder, InOrder,     *)
(* BarriersApart and LateNoticed follow.                                   *)
(*                                                                         *)
(* The lemmas first say what the operators on queues compute: the least of *)
(* a set, where Insert puts a fragment, how far the cuts go.  A step then  *)
(* does one of four things to the queues (QueueKinds): it adds a fragment, *)
(* takes some off the fronts, makes all of them older or leaves them.  One *)
(* lemma follows for each part of the invariant and each property.         *)
(***************************************************************************)
EXTENDS FragmentHandler, CommonLemmas

-----------------------------------------------------------------------------
(* What the operators compute. *)

\* Min finds it.
LEMMA MinIs ==
    ASSUME NEW S \in SUBSET Nat, S # {}
    PROVE  Min(S) \in S /\ \A k \in S : Min(S) <= k
BY LeastIn DEF Min

\* Max finds the largest of a set of naturals that is bounded.
LEMMA MaxIs ==
    ASSUME NEW S \in SUBSET Nat, S # {}, NEW n \in Nat, \A k \in S : k <= n
    PROVE  Max(S) \in S /\ \A k \in S : k <= Max(S)
<1> DEFINE U == {k \in Nat : \A i \in S : i <= k}
<1>1. PICK m \in U : \A k \in U : m <= k
    BY LeastIn
<1>2. m \in S
    <2> SUFFICES ASSUME m \notin S PROVE FALSE
        OBVIOUS
    <2>1. m \in Nat /\ \A i \in S : i < m
        <3>1. m \in Nat /\ \A i \in S : i <= m
            BY <1>1
        <3> QED
            BY <3>1
    <2>2. m - 1 \in Nat /\ \A i \in S : i <= m - 1
        <3>1. PICK i \in S : i \in Nat
            OBVIOUS
        <3> QED
            BY <2>1, <3>1
    <2>3. m - 1 \in U
        BY <2>2
    <2>4. m <= m - 1
        BY <1>1, <2>3
    <2> QED
        BY <2>4, <2>1
<1>3. \A k \in S : k <= m
    BY <1>1
<1>4. Max(S) \in S /\ \A k \in S : Max(S) >= k
    BY <1>2, <1>3 DEF Max
<1> QED
    BY <1>4

\* Every timestamp is before Never.
LEMMA NeverIs == Never \in Nat \ {0} /\ \A t \in Stamps : t \in Times
<1>1. PICK last \in Stamps : \A t \in Stamps : t <= last
    BY HandlerAssumption
<1>2. Stamps \in SUBSET Nat /\ Stamps # {} /\ last \in Nat
    BY HandlerAssumption
<1>3. Max(Stamps) \in Stamps /\ \A k \in Stamps : k <= Max(Stamps)
    BY <1>1, <1>2, MaxIs
<1>4. PICK m \in Nat : m = Max(Stamps)
    BY <1>2, <1>3
<1>5. Never = m + 1
    BY <1>4 DEF Never
<1>6. \A t \in Stamps : t \in Nat /\ t <= m
    BY <1>2, <1>3, <1>4
<1>7. \A t \in Stamps : t \in 0 .. (m + 1) - 1
    BY <1>6
<1> QED
    BY <1>5, <1>7 DEF Times

\* The fields of a queued fragment.
LEMMA FragIs ==
    ASSUME NEW q \in Seq(Frags), NEW i \in 1 .. Len(q)
    PROVE  /\ q[i] \in Frags /\ q[i].src \in Sources /\ q[i].id \in Nat /\ q[i].ts \in Nat
           /\ q[i].ts \in Times /\ q[i].bar \in BOOLEAN
<1>1. q[i] \in Frags
    OBVIOUS
<1>2. Times \subseteq Nat
    BY NeverIs DEF Times
<1> QED
    BY <1>1, <1>2 DEF Frags

\* insertFragment puts a fragment behind all that are not newer.
LEMMA InsertIs ==
    ASSUME NEW q \in Seq(Frags), NEW e \in Frags,
           \A i, j \in 1 .. Len(q) : i < j => q[i].ts <= q[j].ts
    PROVE  \E p \in 0 .. Len(q) :
               /\ Insert(q, e) \in Seq(Frags) /\ Len(Insert(q, e)) = Len(q) + 1
               /\ \A i \in 1 .. Len(q) + 1 :
                     Insert(q, e)[i] =
                         IF i <= p THEN q[i] ELSE IF i = p + 1 THEN e ELSE q[i - 1]
               /\ \A i \in 1 .. p : q[i].ts <= e.ts
               /\ \A i \in p + 1 .. Len(q) : e.ts < q[i].ts
<1> DEFINE B == {0} \cup {i \in DOMAIN q : q[i].ts <= e.ts}
           p == Max(B)
<1>1. DOMAIN q = 1 .. Len(q) /\ Len(q) \in Nat
    OBVIOUS
<1>2. B \in SUBSET Nat /\ B # {} /\ \A k \in B : k <= Len(q)
    BY <1>1
<1>3. p \in B /\ \A k \in B : k <= p
    <2> HIDE DEF B
    <2> QED
        BY <1>1, <1>2, MaxIs
<1>4. p \in 0 .. Len(q)
    BY <1>1, <1>2, <1>3
<1>5. e.ts \in Nat
    BY NeverIs DEF Frags, Times
<1>6. ASSUME NEW i \in 1 .. p PROVE q[i].ts <= e.ts
    <2>1. q[p].ts <= e.ts /\ p \in 1 .. Len(q)
        BY <1>3, <1>4
    <2> HIDE DEF p
    <2>2. i = p \/ q[i].ts <= q[p].ts
        BY <2>1
    <2>3. q[i].ts \in Nat /\ q[p].ts \in Nat
        BY <2>1, FragIs
    <2> QED
        BY <2>1, <2>2, <2>3, <1>5
<1>7. ASSUME NEW i \in p + 1 .. Len(q) PROVE e.ts < q[i].ts
    <2>1. i \notin B
        BY <1>3, <1>4
    <2>2. i \in 1 .. Len(q)
        BY <1>4
    <2> HIDE DEF p
    <2>3. ~ (q[i].ts <= e.ts) /\ q[i].ts \in Nat
        BY <2>1, <2>2, <1>1, FragIs
    <2> QED
        BY <2>3, <1>5
<1>8. Insert(q, e) = InsertAt(q, p + 1, e)
    BY DEF Insert
<1> HIDE DEF p, B
<1>9. /\ InsertAt(q, p + 1, e) \in Seq(Frags)
      /\ Len(InsertAt(q, p + 1, e)) = Len(q) + 1
      /\ \A i \in 1 .. Len(q) + 1 :
            InsertAt(q, p + 1, e)[i] =
                IF i <= p THEN q[i] ELSE IF i = p + 1 THEN e ELSE q[i - 1]
    BY <1>4, InsertAtIs
<1> QED
    BY <1>4, <1>6, <1>7, <1>8, <1>9

Drop(q, n) == SubSeq(q, n + 1, Len(q))

\* What is left of a sequence without its front.
LEMMA DropIs ==
    ASSUME NEW S, NEW q \in Seq(S), NEW n \in 0 .. Len(q)
    PROVE  /\ Drop(q, n) \in Seq(S) /\ Len(Drop(q, n)) = Len(q) - n
           /\ \A i \in 1 .. Len(q) - n : Drop(q, n)[i] = q[n + i]
<1>1. \A i \in n + 1 .. Len(q) : q[i] \in S
    OBVIOUS
<1>2. n + 1 \in Int /\ Len(q) \in Int
    OBVIOUS
<1>3. /\ SubSeq(q, n + 1, Len(q)) \in Seq(S)
      /\ Len(SubSeq(q, n + 1, Len(q))) = IF n + 1 <= Len(q) THEN Len(q) - (n + 1) + 1 ELSE 0
      /\ \A i \in 1 .. Len(q) - (n + 1) + 1 :
            SubSeq(q, n + 1, Len(q))[i] = q[(n + 1) + i - 1]
    BY <1>1, <1>2, SubSeqProperties
<1> QED
    BY <1>3 DEF Drop

\* CopyPopUntil takes what is in front of the first to stop at.
LEMMA UntilFirstIs ==
    ASSUME NEW S, NEW q \in Seq(S), NEW stop \in SUBSET (1 .. Len(q))
    PROVE  /\ UntilFirst(q, stop) \in 0 .. Len(q)
           /\ \A i \in 1 .. UntilFirst(q, stop) : i \notin stop
           /\ UntilFirst(q, stop) = Len(q) \/ UntilFirst(q, stop) + 1 \in stop
<1>1. CASE stop = {}
    BY <1>1 DEF UntilFirst
<1>2. CASE stop # {}
    <2>1. Min(stop) \in stop /\ \A k \in stop : Min(stop) <= k
        BY <1>2, MinIs
    <2>2. PICK m \in 1 .. Len(q) : m = Min(stop)
        BY <2>1
    <2>3. UntilFirst(q, stop) = m - 1
        BY <1>2, <2>2 DEF UntilFirst
    <2>4. \A i \in 1 .. m - 1 : i \notin stop
        BY <2>1, <2>2
    <2>5. (m - 1) + 1 = m
        OBVIOUS
    <2> QED
        BY <2>1, <2>2, <2>3, <2>4, <2>5
<1> QED
    BY <1>1, <1>2

\* CopyPopUntilR leaves what is behind the last not to keep.
LEMMA UntilLastIs ==
    ASSUME NEW S, NEW q \in Seq(S), NEW keep \in SUBSET (1 .. Len(q))
    PROVE  /\ UntilLast(q, keep) \in 0 .. Len(q)
           /\ \A i \in UntilLast(q, keep) + 1 .. Len(q) : i \in keep
           /\ UntilLast(q, keep) \notin keep
<1> DEFINE B == {0} \cup (DOMAIN q \ keep)
<1>1. DOMAIN q = 1 .. Len(q) /\ Len(q) \in Nat
    OBVIOUS
<1>2. B \in SUBSET Nat /\ B # {} /\ \A k \in B : k <= Len(q)
    BY <1>1
<1>3. Max(B) \in B /\ \A k \in B : k <= Max(B)
    <2> HIDE DEF B
    <2> QED
        BY <1>1, <1>2, MaxIs
<1>4. PICK m \in 0 .. Len(q) : m = Max(B)
    BY <1>1, <1>3
<1>5. UntilLast(q, keep) = m
    BY <1>4 DEF UntilLast
<1>6. m \in B /\ \A k \in B : k <= m
    BY <1>3, <1>4
<1>7. m \notin keep
    BY <1>6
<1>8. ASSUME NEW i \in m + 1 .. Len(q) PROVE i \in keep
    <2>1. i \in Nat /\ m < i /\ i \in 1 .. Len(q)
        BY <1>1, <1>4
    <2>2. i \notin B
        <3> HIDE DEF B
        <3> QED
            BY <1>4, <1>6, <2>1
    <2> QED
        BY <1>1, <2>1, <2>2
<1> QED
    BY <1>5, <1>7, <1>8

\* DequeueUntilAbsTime stops in front of the first barrier.
LEMMA CutAtTimeIs ==
    ASSUME NEW q \in Seq(Frags)
    PROVE  CutAtTime(q) \in 0 .. Len(q) /\ \A i \in 1 .. CutAtTime(q) : ~q[i].bar
<1> DEFINE stop == {i \in DOMAIN q : q[i].age < Window} \cup Barriers(q)
<1>1. stop \in SUBSET (1 .. Len(q))
    BY DEF Barriers
<1>2. \A i \in 1 .. Len(q) : i \notin stop => ~q[i].bar
    BY DEF Barriers
<1>3. CutAtTime(q) = UntilFirst(q, stop)
    BY DEF CutAtTime
<1> HIDE DEF stop
<1>4. /\ UntilFirst(q, stop) \in 0 .. Len(q)
      /\ \A i \in 1 .. UntilFirst(q, stop) : i \notin stop
    BY <1>1, UntilFirstIs
<1> QED
    BY <1>2, <1>3, <1>4

\* DequeueUntilStamp takes what is not newer than the mark; while it knows of a barrier it
\* stops in front of the first.
LEMMA CutAtStampIs ==
    ASSUME NEW q \in Seq(Frags), NEW mark \in Nat,
           \A i, j \in 1 .. Len(q) : i < j => q[i].ts <= q[j].ts
    PROVE  /\ CutAtStamp(q, mark) \in 0 .. Len(q)
           /\ pending => \A i \in 1 .. CutAtStamp(q, mark) : ~q[i].bar
           /\ \A i \in 1 .. CutAtStamp(q, mark) : q[i].ts <= mark
           /\ \A i \in CutAtStamp(q, mark) + 1 .. Len(q) :
                 \/ mark < q[i].ts
                 \/ pending /\ \E j \in CutAtStamp(q, mark) + 1 .. i : q[j].bar
<1> DEFINE newer == {i \in DOMAIN q : q[i].ts > mark}
           stop == newer \cup Barriers(q)
<1>1. DOMAIN q = 1 .. Len(q) /\ Len(q) \in Nat
    OBVIOUS
<1>2. newer \in SUBSET (1 .. Len(q)) /\ stop \in SUBSET (1 .. Len(q))
    BY DEF Barriers
<1>3. /\ \A i \in 1 .. Len(q) : i \in newer <=> mark < q[i].ts
      /\ \A i \in 1 .. Len(q) : i \in stop <=> mark < q[i].ts \/ q[i].bar
    BY FragIs DEF Barriers
<1>4. CutAtStamp(q, mark) = IF pending THEN UntilFirst(q, stop) ELSE UntilLast(q, newer)
    BY DEF CutAtStamp
<1> HIDE DEF newer, stop
<1>5. CASE pending
    <2>1. PICK c : c = UntilFirst(q, stop)
        OBVIOUS
    <2>2. /\ c \in 0 .. Len(q) /\ \A i \in 1 .. c : i \notin stop
          /\ c = Len(q) \/ c + 1 \in stop
        BY <1>2, <2>1, UntilFirstIs
    <2>3. \A i \in 1 .. c : q[i].ts <= mark /\ ~q[i].bar
        <3> TAKE i \in 1 .. c
        <3>1. i \in 1 .. Len(q)
            BY <2>2
        <3>2. ~ (mark < q[i].ts) /\ ~q[i].bar
            BY <3>1, <2>2, <1>3
        <3> QED
            BY <3>1, <3>2, FragIs
    <2>4. ASSUME NEW i \in c + 1 .. Len(q)
          PROVE  mark < q[i].ts \/ \E j \in c + 1 .. i : q[j].bar
        <3>1. c + 1 \in 1 .. Len(q) /\ i \in 1 .. Len(q) /\ c + 1 \in c + 1 .. i
            BY <2>2
        <3>2. mark < q[c + 1].ts \/ q[c + 1].bar
            BY <3>1, <2>2, <1>3
        <3>3. mark < q[c + 1].ts => mark < q[i].ts
            <4>1. c + 1 = i \/ q[c + 1].ts <= q[i].ts
                BY <3>1
            <4>2. q[c + 1].ts \in Nat /\ q[i].ts \in Nat
                BY <3>1, FragIs
            <4> QED
                BY <4>1, <4>2
        <3> QED
            BY <3>1, <3>2, <3>3
    <2> QED
        BY <1>4, <1>5, <2>1, <2>2, <2>3, <2>4
<1>6. CASE ~pending
    <2>1. PICK c : c = UntilLast(q, newer)
        OBVIOUS
    <2>2. /\ c \in 0 .. Len(q) /\ \A i \in c + 1 .. Len(q) : i \in newer
          /\ c \notin newer
        BY <1>2, <2>1, UntilLastIs
    <2>3. ASSUME NEW i \in 1 .. c PROVE q[i].ts <= mark
        <3>1. c \in 1 .. Len(q) /\ i \in 1 .. Len(q)
            BY <2>2
        <3>2. ~ (mark < q[c].ts)
            BY <3>1, <2>2, <1>3
        <3>3. c = i \/ q[i].ts <= q[c].ts
            BY <3>1
        <3>4. q[c].ts \in Nat /\ q[i].ts \in Nat
            BY <3>1, FragIs
        <3> QED
            BY <3>2, <3>3, <3>4
    <2>4. \A i \in c + 1 .. Len(q) : mark < q[i].ts
        BY <2>2, <1>3
    <2> QED
        BY <1>4, <1>6, <2>1, <2>2, <2>3, <2>4
<1> QED
    BY <1>5, <1>6

\* findStampMark is no later than the last data of any queue.
LEMMA StampMarkIs ==
    ASSUME queue \in [Sources -> Seq(Frags)], known \in SUBSET Sources
    PROVE  /\ StampMark \in Nat
           /\ \A s \in known : Barriers(queue[s]) = {} /\ queue[s] # <<>>
                 => StampMark <= queue[s][Len(queue[s])].ts
<1> DEFINE L == {Never} \cup {LastStamp(queue[s]) : s \in known}
<1>1. ASSUME NEW s \in known PROVE LastStamp(queue[s]) \in Nat
    <2> DEFINE q == queue[s]
               data == DOMAIN q \ Barriers(q)
    <2>1. q \in Seq(Frags)
        OBVIOUS
    <2>2. CASE data = {}
        BY <2>2, NeverIs DEF LastStamp
    <2>3. CASE data # {}
        <3>1. data \in SUBSET Nat /\ Len(q) \in Nat /\ \A k \in data : k <= Len(q)
            BY <2>1
        <3>2. Max(data) \in data
            <4> HIDE DEF data
            <4> QED
                BY <2>3, <3>1, MaxIs
        <3>3. Max(data) \in 1 .. Len(q)
            BY <2>1, <3>2
        <3>4. LastStamp(q) = q[Max(data)].ts
            BY <2>3 DEF LastStamp
        <3> HIDE DEF data, q
        <3>5. q[Max(data)].ts \in Nat
            BY <2>1, <3>3, FragIs
        <3> QED
            BY <3>4, <3>5 DEF q
    <2> QED
        BY <2>2, <2>3
<1>2. L \in SUBSET Nat /\ L # {}
    BY <1>1, NeverIs
<1>3. StampMark = Min(L)
    BY DEF StampMark
<1>4. Min(L) \in L /\ \A k \in L : Min(L) <= k
    <2> HIDE DEF L
    <2> QED
        BY <1>2, MinIs
<1>5. ASSUME NEW s \in known, Barriers(queue[s]) = {}, queue[s] # <<>>
      PROVE  StampMark <= queue[s][Len(queue[s])].ts
    <2> DEFINE q == queue[s]
               data == DOMAIN q \ Barriers(q)
    <2>1. q \in Seq(Frags) /\ q # <<>>
        BY <1>5
    <2>2. PICK n \in Nat \ {0} : n = Len(q)
        BY <2>1
    <2>3. data = 1 .. n
        BY <1>5, <2>1, <2>2
    <2>4. LastStamp(q) = q[Len(q)].ts
        <3>1. 1 .. n \in SUBSET Nat /\ n \in 1 .. n /\ \A k \in 1 .. n : k <= n
            OBVIOUS
        <3>2. Max(1 .. n) \in 1 .. n /\ \A k \in 1 .. n : k <= Max(1 .. n)
            BY <3>1, MaxIs
        <3>3. Max(1 .. n) = n
            BY <3>1, <3>2
        <3>4. data # {}
            BY <2>3, <3>1
        <3>5. LastStamp(q) = q[Max(data)].ts
            BY <3>4 DEF LastStamp
        <3> QED
            BY <2>2, <2>3, <3>3, <3>5
    <2>5. LastStamp(queue[s]) \in L
        OBVIOUS
    <2> HIDE DEF L
    <2> QED
        BY <1>3, <1>4, <2>4, <2>5
<1> QED
    BY <1>2, <1>3, <1>4, <1>5

-----------------------------------------------------------------------------
(* Types. *)

\* The handlers that hand nothing over and receive nothing.
Talk ==
    \/ \E s \in Sources : Accept(s) \/ Connect(s) \/ Disconnect(s)
                          \/ HandleFragments(s) \/ TryRead(s) \/ StallForming(s)
    \/ EndFragments \/ EndPoll \/ IdlePoll \/ FlushQueues \/ Reset
FlushStep == FlushUntilStamp \/ FlushUntilTime \/ FlushCompletely
BarrierStep == CheckBarrier \/ AbortBarrier \/ \E s \in Sources : Stall(s)

\* What a step is.
LEMMA Steps4 ==
    ASSUME [Next]_vars
    PROVE  AddFragment \/ FlushStep \/ BarrierStep \/ Talk \/ Tick \/ UNCHANGED vars
BY DEF Next, GoOn, Talk, FlushStep, BarrierStep

\* A step keeps the types of where the handler is.
LEMMA ControlTyped ==
    ASSUME step \in Steps, call \in Calls, sender \in Sources \cup {Nobody}, [Next]_vars
    PROVE  step' \in Steps /\ call' \in Calls /\ sender' \in Sources \cup {Nobody}
<1> USE DEF Steps, Calls, Begin, Idle, Command, AtEnd
<1>1. CASE AddFragment
    BY <1>1 DEF AddFragment
<1>2. CASE FlushStep
    BY <1>2 DEF FlushStep, FlushUntilStamp, FlushUntilTime, FlushCompletely, Flush
<1>3. CASE BarrierStep
    BY <1>3 DEF BarrierStep, CheckBarrier, AbortBarrier, Stall
<1>4. CASE \/ \E s \in Sources : Accept(s) \/ Connect(s) \/ Disconnect(s) \/ StallForming(s)
           \/ EndFragments \/ EndPoll \/ IdlePoll \/ FlushQueues \/ Reset
    BY <1>4 DEF Accept, Connect, Disconnect, StallForming, EndFragments, EndPoll, IdlePoll,
                FlushQueues, Reset
<1>5. CASE \E s \in Sources : HandleFragments(s) \/ TryRead(s)
    BY <1>5 DEF HandleFragments, TryRead, AddFragments
<1>6. CASE Tick \/ UNCHANGED vars
    BY <1>6 DEF Tick, vars
<1> QED
    BY <1>1, <1>2, <1>3, <1>4, <1>5, <1>6, Steps4 DEF Talk

\* A step keeps the types of what is known of the sources.
LEMMA SourcesTyped ==
    ASSUME known \subseteq Sources, live \subseteq Sources, dead \subseteq Sources,
           conn \in [Sources -> {"none", "forming", "active"}], stalled \subseteq Sources,
           tries \subseteq Sources, sender \in Sources \/ step # "add", [Next]_vars
    PROVE  /\ known' \subseteq Sources /\ live' \subseteq Sources /\ dead' \subseteq Sources
           /\ conn' \in [Sources -> {"none", "forming", "active"}]
           /\ stalled' \subseteq Sources /\ tries' \subseteq Sources
<1> USE DEF queues, sourcesState, ghosts, Command, Begin
<1>1. CASE AddFragment
    BY <1>1 DEF AddFragment, Add
<1>2. CASE FlushStep
    BY <1>2 DEF FlushStep, FlushUntilStamp, FlushUntilTime, FlushCompletely, Flush
<1>3. CASE CheckBarrier
    BY <1>3 DEF CheckBarrier, GenerateBarrier
<1>4. CASE AbortBarrier
    BY <1>4 DEF AbortBarrier, GenerateBarrier
<1>5. CASE \E s \in Sources : Stall(s)
    BY <1>5 DEF Stall, GenerateBarrier
<1>6. CASE \/ \E s \in Sources : Accept(s) \/ Connect(s) \/ Disconnect(s) \/ StallForming(s)
    BY <1>6 DEF Accept, Connect, Disconnect, StallForming
<1>7. CASE EndFragments \/ EndPoll \/ IdlePoll \/ FlushQueues \/ Reset
    BY <1>7 DEF EndFragments, EndPoll, IdlePoll, FlushQueues, Reset
<1>8. CASE \E s \in Sources : HandleFragments(s) \/ TryRead(s)
    BY <1>8 DEF HandleFragments, TryRead, AddFragments, Others
<1>9. CASE Tick \/ UNCHANGED vars
    BY <1>9 DEF Tick, vars
<1> QED
    BY <1>1, <1>2, <1>3, <1>4, <1>5, <1>6, <1>7, <1>8, <1>9, Steps4 DEF Talk, BarrierStep

\* A step keeps the flags flags.
LEMMA FlagsTyped ==
    ASSUME pending \in BOOLEAN, watching \in BOOLEAN, [Next]_vars
    PROVE  pending' \in BOOLEAN /\ watching' \in BOOLEAN
<1> USE DEF queues, sourcesState, ghosts, Command, Begin
<1>1. CASE AddFragment
    BY <1>1 DEF AddFragment, Add, Pending
<1>2. CASE FlushStep
    BY <1>2 DEF FlushStep, FlushUntilStamp, FlushUntilTime, FlushCompletely, Flush
<1>3. CASE CheckBarrier
    BY <1>3 DEF CheckBarrier, GenerateBarrier
<1>4. CASE AbortBarrier
    BY <1>4 DEF AbortBarrier, GenerateBarrier
<1>5. CASE \E s \in Sources : Stall(s)
    BY <1>5 DEF Stall, GenerateBarrier
<1>6. CASE Talk
    BY <1>6 DEF Talk, Accept, Connect, Disconnect, StallForming, EndFragments, EndPoll,
                IdlePoll, FlushQueues, Reset, HandleFragments, TryRead, AddFragments
<1>7. CASE Tick \/ UNCHANGED vars
    BY <1>7 DEF Tick, vars
<1> QED
    BY <1>1, <1>2, <1>3, <1>4, <1>5, <1>6, <1>7, Steps4 DEF BarrierStep

Flows == [off : BOOLEAN, qoff : SUBSET Sources, accepting : BOOLEAN,
          reading : SUBSET Sources, closed : SUBSET Sources]

\* What flow control makes of a flow is one.
LEMMA FlowsKept ==
    ASSUME NEW f \in Flows, known \subseteq Sources
    PROVE  /\ \A qs : QueueFlow(f, qs) \in Flows
           /\ CheckXon(f) \subseteq Flows /\ CheckXoff(f) \subseteq Flows
<1>1. Connected \subseteq Sources
    BY DEF Connected
<1>2. ASSUME NEW qs PROVE QueueFlow(f, qs) \in Flows
    <2> DEFINE offs == {s \in known \ f.qoff : Len(qs[s]) >= QXoff}
               ons == {s \in f.qoff : Len(qs[s]) < QXon}
               told == offs \cup ons
               a == IF told = {} THEN f.accepting ELSE Max(told) \in ons
    <2>1. offs \subseteq Sources /\ ons \subseteq Sources
        BY DEF Flows
    <2>2. a \in BOOLEAN
        <3>1. f.accepting \in BOOLEAN /\ (Max(told) \in ons) \in BOOLEAN
            BY DEF Flows
        <3> HIDE DEF told, ons
        <3> QED
            BY <3>1, Zenon
    <2>3. QueueFlow(f, qs) = [f EXCEPT !.qoff = (@ \cup offs) \ ons, !.accepting = a,
                                       !.reading = (@ \ (offs \ f.closed))
                                                    \cup (ons \ f.closed)]
        BY DEF QueueFlow
    <2> HIDE DEF offs, ons, a
    <2> QED
        BY <1>1, <2>1, <2>2, <2>3 DEF Flows
<1>3. Xon(f) \in Flows /\ Xoff(f) \in Flows
    BY <1>1 DEF Xon, Xoff, Flows
<1> QED
    BY <1>2, <1>3 DEF CheckXon, CheckXoff

\* A step keeps the type of flow.
LEMMA FlowTyped ==
    ASSUME flow \in Flows, known \subseteq Sources, [Next]_vars
    PROVE  flow' \in Flows
<1> USE DEF queues, sourcesState, ghosts, Command, Begin
<1>1. CASE AddFragment
    BY <1>1 DEF AddFragment
<1>2. CASE FlushUntilStamp \/ FlushUntilTime
    <2>1. PICK cut : Flush(cut)
        BY <1>2 DEF FlushUntilStamp, FlushUntilTime
    <2>2. QueueFlow(flow, queue') \in Flows
        BY FlowsKept
    <2>3. CheckXon(QueueFlow(flow, queue')) \subseteq Flows
        BY <2>2, FlowsKept
    <2> QED
        BY <2>1, <2>2, <2>3 DEF Flush
<1>3. CASE FlushCompletely
    <2>1. \E qs : flow' \in CheckXon(QueueFlow(QueueFlow(flow, qs), queue'))
        BY <1>3, Zenon DEF FlushCompletely
    <2>2. PICK qs : flow' \in CheckXon(QueueFlow(QueueFlow(flow, qs), queue'))
        BY <2>1
    <2>3. QueueFlow(flow, qs) \in Flows
        BY FlowsKept
    <2>4. QueueFlow(QueueFlow(flow, qs), queue') \in Flows
        BY <2>3, FlowsKept
    <2>5. CheckXon(QueueFlow(QueueFlow(flow, qs), queue')) \subseteq Flows
        BY <2>4, FlowsKept
    <2> QED
        BY ONLY <2>2, <2>5
<1>4. ASSUME GenerateBarrier PROVE flow' \in Flows
    BY <1>4, FlowsKept DEF GenerateBarrier
<1>5. CASE BarrierStep
    BY <1>4, <1>5 DEF BarrierStep, CheckBarrier, AbortBarrier, Stall
<1>6. CASE \E s \in Sources : Accept(s) \/ Connect(s) \/ Disconnect(s)
    <2>1. ASSUME NEW s \in Sources, Accept(s) PROVE flow' \in Flows
        BY <2>1 DEF Accept, Flows
    <2>2. ASSUME NEW s \in Sources, Connect(s) PROVE flow' \in Flows
        BY <2>2 DEF Connect
    <2>3. ASSUME NEW s \in Sources, Disconnect(s) PROVE flow' \in Flows
        <3>1. flow' = [flow EXCEPT !.reading = @ \ {s}, !.closed = @ \cup ({s} \cap known)]
            BY <2>3 DEF Disconnect
        <3> QED
            BY ONLY flow \in Flows, known \subseteq Sources, <3>1 DEF Flows
    <2> QED
        BY <1>6, <2>1, <2>2, <2>3
<1>7. CASE Reset
    BY <1>7 DEF Reset, Flows
<1>8. CASE EndFragments \/ EndPoll
    BY <1>8, FlowsKept DEF EndFragments, EndPoll
<1>9. CASE \/ \E s \in Sources : HandleFragments(s) \/ TryRead(s) \/ StallForming(s)
           \/ IdlePoll \/ FlushQueues \/ Tick \/ UNCHANGED vars
    BY <1>9 DEF HandleFragments, TryRead, AddFragments, StallForming, IdlePoll, FlushQueues,
                Tick, vars
<1> QED
    BY <1>1, <1>2, <1>3, <1>5, <1>6, <1>7, <1>8, <1>9, Steps4 DEF Talk, FlushStep

-----------------------------------------------------------------------------
(* What a step does to the queues: it adds a fragment, takes some off the fronts, makes   *)
(* all of them a second older, or leaves them alone.                                      *)

QueuesTyped == queue \in [Sources -> Seq(Frags)]
Cuts == {cut \in [Sources -> Nat] : \A s \in Sources : cut[s] \in 0 .. Len(queue[s])}

\* The first cut[s] fragments of each queue leave the handler.
Removes(cut) ==
    /\ queue' = [s \in Sources |-> Drop(queue[s], cut[s])]
    /\ gone' = [s \in Sources |-> gone[s] \cup {queue[s][i].id : i \in 1 .. cut[s]}]

\* A queue is a sequence of fragments.
LEMMA LenIs ==
    ASSUME QueuesTyped, NEW s \in Sources
    PROVE  /\ Len(queue[s]) \in Nat /\ DOMAIN queue[s] = 1 .. Len(queue[s])
           /\ queue[s] \in Seq(Frags)
BY DEF QueuesTyped

\* MoveOut takes fragments off the fronts.
LEMMA MoveOutRemoves ==
    ASSUME QueuesTyped, NEW first, NEW cut \in Cuts, NEW late,
           MoveOut(first, cut, late)
    PROVE  Removes(cut)
<1> DEFINE out(s) == {queue[s][i] : i \in 1 .. cut[s]}
<1>1. /\ queue' = [s \in Sources |-> SubSeq(queue[s], cut[s] + 1, Len(queue[s]))]
      /\ gone' = [s \in Sources |-> gone[s] \cup {e.id : e \in out(s)}]
    BY Zenon DEF MoveOut
<1>2. \A s \in Sources : {e.id : e \in out(s)} = {queue[s][i].id : i \in 1 .. cut[s]}
    OBVIOUS
<1> HIDE DEF out
<1>3. gone' = [s \in Sources |-> gone[s] \cup {queue[s][i].id : i \in 1 .. cut[s]}]
    BY <1>1, <1>2, Zenon
<1> QED
    BY <1>1, <1>3, Zenon DEF Removes, Drop

\* What is handed over is no newer than top afterwards.
LEMMA TopIs ==
    ASSUME QueuesTyped, top \in Times, NEW first, NEW cut \in Cuts, NEW late,
           MoveOut(first, cut, late)
    PROVE  /\ top' \in Times /\ top <= top'
           /\ \A s \in Sources : \A i \in 1 .. cut[s] : queue[s][i].ts <= top'
           /\ \/ top' = top
              \/ \E s \in Sources : \E i \in 1 .. cut[s] : top' = queue[s][i].ts
<1> DEFINE out(s) == {queue[s][i] : i \in 1 .. cut[s]}
           data == UNION {out(s) : s \in Sources}
           M == {top} \cup {e.ts : e \in data}
<1>1. top' = Max(M)
    BY DEF MoveOut
<1>2. \A e \in data : \E s \in Sources : \E i \in 1 .. cut[s] : e = queue[s][i]
    OBVIOUS
<1>3. \A s \in Sources : \A i \in 1 .. cut[s] : queue[s][i] \in data
    OBVIOUS
<1>4. \A s \in Sources : \A i \in 1 .. cut[s] : queue[s][i].ts \in Times
    <2> TAKE s \in Sources
    <2> TAKE i \in 1 .. cut[s]
    <2>1. i \in 1 .. Len(queue[s])
        BY LenIs DEF Cuts
    <2> QED
        BY <2>1, FragIs, LenIs
<1> HIDE DEF data
<1>5. M \subseteq Times /\ M # {}
    BY <1>2, <1>4
<1>6. PICK n \in Nat : Times = 0 .. n
    BY NeverIs DEF Times
<1>7. Max(M) \in M /\ \A k \in M : k <= Max(M)
    <2> HIDE DEF M
    <2>1. M \in SUBSET Nat /\ \A k \in M : k <= n
        BY <1>5, <1>6
    <2> QED
        BY <1>5, <2>1, MaxIs
<1>8. \A s \in Sources : \A i \in 1 .. cut[s] : queue[s][i].ts \in M
    BY <1>3
<1>9. Max(M) = top \/ \E s \in Sources : \E i \in 1 .. cut[s] : Max(M) = queue[s][i].ts
    BY <1>2, <1>7, ZenonT(60)
<1>10. top \in M
    OBVIOUS
<1> HIDE DEF M
<1> QED
    BY <1>1, <1>5, <1>7, <1>8, <1>9, <1>10

\* The handler's mark is the largest of the last timestamps taken off each queue.
LEMMA PoppedIs ==
    ASSUME QueuesTyped, popped \in Times, NEW cut \in Cuts
    PROVE  /\ Popped(cut) \in Times /\ popped <= Popped(cut)
           /\ \A s \in Sources : cut[s] > 0 => queue[s][cut[s]].ts <= Popped(cut)
<1> DEFINE M == {popped} \cup {queue[s][cut[s]].ts : s \in Dequeued(cut)}
<1>1. Popped(cut) = Max(M)
    BY DEF Popped
<1>2. ASSUME NEW s \in Sources, cut[s] > 0 PROVE queue[s][cut[s]].ts \in Times
    <2>1. cut[s] \in 1 .. Len(queue[s])
        BY <1>2, LenIs DEF Cuts
    <2> QED
        BY <2>1, FragIs, LenIs
<1>3. M \subseteq Times
    BY <1>2 DEF Dequeued
<1>4. PICK n \in Nat : Times = 0 .. n
    BY NeverIs DEF Times
<1>5. Max(M) \in M /\ \A k \in M : k <= Max(M)
    <2>1. M \in SUBSET Nat /\ M # {} /\ \A k \in M : k <= n
        BY <1>3, <1>4
    <2> HIDE DEF M
    <2> QED
        BY <2>1, MaxIs
<1>6. \A s \in Sources : cut[s] > 0 => queue[s][cut[s]].ts \in M
    BY DEF Dequeued
<1>7. popped \in M
    OBVIOUS
<1> HIDE DEF M
<1> QED
    BY <1>1, <1>3, <1>5, <1>6, <1>7

FirstCut == IF NoEmptyQueue THEN StampCut ELSE TimeCut
WholeCut == [s \in Sources |-> Len(queue[s])]
FrontCut == [s \in Sources |-> IF s \in AtFront(queue) THEN 1 ELSE 0]

\* QueuesSorted, by positions.
LEMMA SortedIs ==
    ASSUME QueuesTyped, QueuesSorted, NEW s \in Sources
    PROVE  \A i, j \in 1 .. Len(queue[s]) : i < j => queue[s][i].ts <= queue[s][j].ts
BY LenIs DEF QueuesSorted

\* None of the handlers cuts off more than there is.
LEMMA CutsAre ==
    ASSUME QueuesTyped, QueuesSorted, known \in SUBSET Sources
    PROVE  /\ StampCut \in Cuts /\ TimeCut \in Cuts /\ WholeCut \in Cuts /\ FrontCut \in Cuts
           /\ FirstCut \in Cuts
<1>1. ASSUME NEW s \in Sources
      PROVE  /\ CutAtStamp(queue[s], StampMark) \in 0 .. Len(queue[s])
             /\ CutAtTime(queue[s]) \in 0 .. Len(queue[s])
             /\ Len(queue[s]) \in 0 .. Len(queue[s])
             /\ (IF s \in AtFront(queue) THEN 1 ELSE 0) \in 0 .. Len(queue[s])
    <2>1. queue[s] \in Seq(Frags) /\ Len(queue[s]) \in Nat
        BY LenIs
    <2>2. StampMark \in Nat
        BY StampMarkIs DEF QueuesTyped
    <2>3. CutAtStamp(queue[s], StampMark) \in 0 .. Len(queue[s])
        BY <2>1, <2>2, SortedIs, CutAtStampIs
    <2>4. CutAtTime(queue[s]) \in 0 .. Len(queue[s])
        BY <2>1, CutAtTimeIs
    <2>5. s \in AtFront(queue) => Len(queue[s]) > 0
        BY <2>1 DEF AtFront
    <2> QED
        BY <2>1, <2>3, <2>4, <2>5
<1>2. \A s \in Sources : 0 .. Len(queue[s]) \subseteq Nat
    OBVIOUS
<1>3. /\ \A s \in Sources : StampCut[s] = CutAtStamp(queue[s], StampMark)
      /\ \A s \in Sources : TimeCut[s] = CutAtTime(queue[s])
      /\ \A s \in Sources : WholeCut[s] = Len(queue[s])
      /\ \A s \in Sources : FrontCut[s] = IF s \in AtFront(queue) THEN 1 ELSE 0
    BY DEF StampCut, TimeCut, WholeCut, FrontCut
<1>4. StampCut \in [Sources -> Nat] /\ \A s \in Sources : StampCut[s] \in 0 .. Len(queue[s])
    BY <1>1, <1>2, <1>3 DEF StampCut
<1>5. TimeCut \in [Sources -> Nat] /\ \A s \in Sources : TimeCut[s] \in 0 .. Len(queue[s])
    BY <1>1, <1>2, <1>3 DEF TimeCut
<1>6. WholeCut \in [Sources -> Nat] /\ \A s \in Sources : WholeCut[s] \in 0 .. Len(queue[s])
    BY <1>1, <1>2, <1>3 DEF WholeCut
<1>7. FrontCut \in [Sources -> Nat] /\ \A s \in Sources : FrontCut[s] \in 0 .. Len(queue[s])
    BY <1>1, <1>2, <1>3 DEF FrontCut
<1> QED
    BY <1>4, <1>5, <1>6, <1>7 DEF Cuts, FirstCut

\* generateBarrier takes the barriers at the fronts.
LEMMA GenerateRemoves ==
    ASSUME QueuesTyped, GenerateBarrier, gone \in [Sources -> SUBSET Nat]
    PROVE  Removes(FrontCut) /\ got' = got /\ highest' = highest /\ unruly' = unruly
<1> DEFINE front == AtFront(queue)
<1>1. /\ queue' = [s \in Sources |-> IF s \in front THEN Tail(queue[s]) ELSE queue[s]]
      /\ gone' = [s \in Sources |-> gone[s] \cup
                    IF s \in front THEN {Head(queue[s]).id} ELSE {}]
      /\ got' = got /\ highest' = highest /\ unruly' = unruly
    BY DEF GenerateBarrier
<1>2. ASSUME NEW s \in Sources
      PROVE  /\ (IF s \in front THEN Tail(queue[s]) ELSE queue[s]) = Drop(queue[s], FrontCut[s])
             /\ (IF s \in front THEN {Head(queue[s]).id} ELSE {})
                    = {queue[s][i].id : i \in 1 .. FrontCut[s]}
    <2>1. queue[s] \in Seq(Frags)
        BY LenIs
    <2>2. CASE s \in front
        <3>1. queue[s] # <<>> /\ FrontCut[s] = 1
            BY <2>2 DEF AtFront, FrontCut
        <3>2. Tail(queue[s]) = SubSeq(queue[s], 2, Len(queue[s]))
            BY <2>1, <3>1, TailIsSubSeq
        <3>3. Head(queue[s]) = queue[s][1] /\ 1 .. 1 = {1} /\ 1 + 1 = 2
            BY <2>1, <3>1
        <3> HIDE DEF front
        <3> QED
            BY <2>2, <3>1, <3>2, <3>3 DEF Drop
    <2>3. CASE s \notin front
        <3>1. FrontCut[s] = 0
            BY <2>3 DEF FrontCut
        <3>2. SubSeq(queue[s], 1, Len(queue[s])) = queue[s]
            BY <2>1, SubSeqFull
        <3>3. 1 .. 0 = {} /\ 0 + 1 = 1
            OBVIOUS
        <3> HIDE DEF front
        <3> QED
            BY <2>3, <3>1, <3>2, <3>3 DEF Drop
    <2> QED
        BY <2>2, <2>3
<1> HIDE DEF front
<1>3. queue' = [s \in Sources |-> Drop(queue[s], FrontCut[s])]
    BY <1>1, <1>2
<1>4. gone' = [s \in Sources |-> gone[s] \cup {queue[s][i].id : i \in 1 .. FrontCut[s]}]
    BY <1>1, <1>2
<1> QED
    BY <1>1, <1>3, <1>4 DEF Removes

\* What addFragment does: a fragment with timestamp ts is put behind the first p of the
\* sender's queue, which becomes q.
Added(ts, bar, q, p) ==
    LET s == sender
        e == [src |-> s, id |-> got[s] + 1, ts |-> ts, bar |-> bar, age |-> 0]
    IN  /\ queue' = [queue EXCEPT ![s] = q]
        /\ e \in Frags
        /\ Len(q) = Len(queue[s]) + 1
        /\ \A i \in 1 .. Len(q) :
              q[i] = IF i <= p THEN queue[s][i] ELSE IF i = p + 1 THEN e ELSE queue[s][i - 1]
        /\ \A i \in 1 .. p : queue[s][i].ts <= ts
        /\ \A i \in p + 1 .. Len(queue[s]) : ts < queue[s][i].ts
        /\ newest' = [newest EXCEPT ![s] = ts]
        /\ got' = [got EXCEPT ![s] = @ + 1]
        /\ pending' = (pending \/ bar)
        /\ highest' = [highest EXCEPT ![s] = Max({ts, @})]
        /\ unruly' = unruly \cup IF ts < highest[s] THEN {s} ELSE {}
        /\ twins' = twins \cup IF ts = highest[s] /\ got[s] > 0 THEN {s} ELSE {}

\* addFragment puts its fragment where the queue stays sorted.
LEMMA AddIs ==
    ASSUME QueuesTyped, QueuesSorted, sender \in Sources, newest \in [Sources -> Times],
           got \in [Sources -> Nat], highest \in [Sources -> Times], AddFragment
    PROVE  \E ts \in Times, bar \in BOOLEAN, q \in Seq(Frags), p \in 0 .. Len(queue[sender]) :
             Added(ts, bar, q, p)
<1>1. PICK t \in Stamps, bar \in BOOLEAN :
          Add(sender, IF t = Null THEN newest[sender] ELSE t, bar)
    BY DEF AddFragment
<1>2. PICK ts \in Times : ts = IF t = Null THEN newest[sender] ELSE t
    BY NeverIs
<1> DEFINE e == [src |-> sender, id |-> got[sender] + 1, ts |-> ts, bar |-> bar, age |-> 0]
           q == Insert(queue[sender], e)
<1>3. /\ queue' = [queue EXCEPT ![sender] = q]
      /\ newest' = [newest EXCEPT ![sender] = ts]
      /\ got' = [got EXCEPT ![sender] = @ + 1]
      /\ pending' = (pending \/ bar)
      /\ highest' = [highest EXCEPT ![sender] = Max({ts, @})]
      /\ unruly' = unruly \cup IF ts < highest[sender] THEN {sender} ELSE {}
      /\ twins' = twins \cup IF ts = highest[sender] /\ got[sender] > 0 THEN {sender} ELSE {}
    BY <1>1, <1>2, Zenon DEF Add, Pending
<1>4. e \in Frags
    <2>1. 0 \in 0 .. MaxAge
        <3>1. PICK w \in Nat : w = Window
            BY HandlerAssumption
        <3>2. 4 * w + 1 \in Nat
            OBVIOUS
        <3> QED
            BY <3>1, <3>2 DEF MaxAge
    <2> QED
        BY <2>1 DEF Frags
<1>5. queue[sender] \in Seq(Frags)
    BY LenIs
<1> HIDE DEF e
<1>6. PICK p \in 0 .. Len(queue[sender]) :
          /\ q \in Seq(Frags) /\ Len(q) = Len(queue[sender]) + 1
          /\ \A i \in 1 .. Len(queue[sender]) + 1 :
                q[i] = IF i <= p THEN queue[sender][i]
                       ELSE IF i = p + 1 THEN e ELSE queue[sender][i - 1]
          /\ \A i \in 1 .. p : queue[sender][i].ts <= e.ts
          /\ \A i \in p + 1 .. Len(queue[sender]) : e.ts < queue[sender][i].ts
    BY <1>4, <1>5, SortedIs, InsertIs
<1>7. e.ts = ts
    BY DEF e
<1> HIDE DEF q
<1>8. Added(ts, bar, q, p)
    BY <1>3, <1>4, <1>6, <1>7 DEF Added, e
<1> QED
    BY <1>6, <1>8

\* A second on the clock changes nothing but ages.
LEMMA TickIs ==
    ASSUME QueuesTyped, Tick
    PROVE  /\ queue' \in [Sources -> Seq(Frags)]
           /\ \A s \in Sources : Len(queue'[s]) = Len(queue[s])
           /\ \A s \in Sources : \A i \in 1 .. Len(queue[s]) :
                 /\ queue'[s][i].src = queue[s][i].src /\ queue'[s][i].id = queue[s][i].id
                 /\ queue'[s][i].ts = queue[s][i].ts /\ queue'[s][i].bar = queue[s][i].bar
<1> DEFINE older(f) == [f EXCEPT !.age = Min({@ + 1, MaxAge})]
           q(s) == [i \in DOMAIN queue[s] |-> older(queue[s][i])]
<1>1. queue' = [s \in Sources |-> q(s)]
    BY DEF Tick
<1>2. ASSUME NEW f \in Frags
      PROVE  /\ older(f) \in Frags /\ older(f).src = f.src /\ older(f).id = f.id
             /\ older(f).ts = f.ts /\ older(f).bar = f.bar
    <2>1. PICK m \in Nat : m = MaxAge
        <3>1. PICK w \in Nat : w = Window
            BY HandlerAssumption
        <3>2. 4 * w + 1 \in Nat
            OBVIOUS
        <3> QED
            BY <3>1, <3>2 DEF MaxAge
    <2>2. PICK a \in 0 .. m : a = f.age
        BY <2>1 DEF Frags
    <2>3. {a + 1, m} \in SUBSET Nat /\ {a + 1, m} # {}
        OBVIOUS
    <2>4. Min({a + 1, m}) \in {a + 1, m} /\ \A k \in {a + 1, m} : Min({a + 1, m}) <= k
        BY <2>3, MinIs
    <2>5. Min({a + 1, m}) \in 0 .. m
        BY <2>3, <2>4
    <2>6. older(f) = [f EXCEPT !.age = Min({a + 1, m})]
        BY <2>1, <2>2
    <2> HIDE DEF older
    <2> QED
        BY <2>1, <2>5, <2>6 DEF Frags
<1>3. ASSUME NEW s \in Sources
      PROVE  /\ q(s) \in Seq(Frags) /\ Len(q(s)) = Len(queue[s])
             /\ \A i \in 1 .. Len(queue[s]) : q(s)[i] = older(queue[s][i])
                                              /\ queue[s][i] \in Frags
    <2>1. /\ queue[s] \in Seq(Frags) /\ DOMAIN queue[s] = 1 .. Len(queue[s])
          /\ Len(queue[s]) \in Nat
        BY LenIs
    <2> HIDE DEF older
    <2>2. \A i \in 1 .. Len(queue[s]) : queue[s][i] \in Frags /\ older(queue[s][i]) \in Frags
        BY <1>2, <2>1
    <2>3. q(s) = [i \in 1 .. Len(queue[s]) |-> older(queue[s][i])]
        BY <2>1
    <2>4. q(s) \in Seq(Frags)
        BY <2>1, <2>2, <2>3, IsASeq
    <2>5. Len(q(s)) = Len(queue[s])
        BY <2>1, <2>3
    <2> HIDE DEF q
    <2>6. \A i \in 1 .. Len(queue[s]) : q(s)[i] = older(queue[s][i])
        BY <2>3
    <2> QED
        BY <2>2, <2>4, <2>5, <2>6
<1> HIDE DEF q, older
<1>4. \A s \in Sources : queue'[s] = q(s)
    BY <1>1
<1>5. queue' \in [Sources -> Seq(Frags)]
    BY <1>1, <1>3
<1>6. ASSUME NEW s \in Sources, NEW i \in 1 .. Len(queue[s])
      PROVE  /\ queue'[s][i].src = queue[s][i].src /\ queue'[s][i].id = queue[s][i].id
             /\ queue'[s][i].ts = queue[s][i].ts /\ queue'[s][i].bar = queue[s][i].bar
    <2>1. queue'[s][i] = older(queue[s][i]) /\ queue[s][i] \in Frags
        BY <1>3, <1>4
    <2> QED
        BY <1>2, <2>1
<1> QED
    BY <1>3, <1>4, <1>5, <1>6

\* A complete flush takes all, in two lists of each queue.
LEMMA CompletelyIs ==
    ASSUME FlushCompletely
    PROVE  MoveOut(FirstCut, WholeCut, Late(FirstCut)) /\ popped' = Popped(FirstCut)
BY Zenon DEF FlushCompletely, FirstCut, WholeCut

\* A step adds a fragment, takes some off the fronts, ages them or leaves the queues.
LEMMA QueueKinds ==
    ASSUME QueuesTyped, QueuesSorted, known \in SUBSET Sources,
           gone \in [Sources -> SUBSET Nat],
           [Next]_vars
    PROVE  \/ AddFragment
           \/ /\ \E cut \in Cuts : Removes(cut)
              /\ got' = got /\ highest' = highest /\ unruly' = unruly
           \/ Tick
           \/ /\ queue' = queue /\ gone' = gone
              /\ got' = got /\ highest' = highest /\ unruly' = unruly
<1> USE DEF queues, sourcesState, ghosts, Command, Begin
<1>1. CASE FlushStep
    <2>1. PICK cut \in Cuts : \E first, late : MoveOut(first, cut, late)
        <3>1. ASSUME NEW cut, Flush(cut) PROVE MoveOut(cut, cut, Late(cut))
            BY <3>1 DEF Flush
        <3>2. CASE FlushUntilStamp
            <4>1. MoveOut(StampCut, StampCut, Late(StampCut))
                BY <3>1, <3>2 DEF FlushUntilStamp
            <4> QED
                BY <4>1, CutsAre
        <3>3. CASE FlushUntilTime
            <4>1. MoveOut(TimeCut, TimeCut, Late(TimeCut))
                BY <3>1, <3>3 DEF FlushUntilTime
            <4> QED
                BY <4>1, CutsAre
        <3>4. CASE FlushCompletely
            <4>1. MoveOut(FirstCut, WholeCut, Late(FirstCut))
                BY <3>4, CompletelyIs
            <4> QED
                BY <4>1, CutsAre
        <3> QED
            BY <1>1, <3>2, <3>3, <3>4 DEF FlushStep
    <2>2. got' = got /\ highest' = highest /\ unruly' = unruly
        BY <1>1 DEF FlushStep, FlushUntilStamp, FlushUntilTime, FlushCompletely, Flush
    <2> QED
        BY <2>1, <2>2, MoveOutRemoves
<1>2. CASE BarrierStep
    <2>1. \/ GenerateBarrier
          \/ UNCHANGED <<queues, ghosts>>
        BY <1>2 DEF BarrierStep, CheckBarrier, AbortBarrier, Stall
    <2> QED
        BY <2>1, GenerateRemoves, CutsAre
<1>3. CASE Talk
    BY <1>3 DEF Talk, Accept, Connect, Disconnect, StallForming, EndFragments, EndPoll,
                IdlePoll, FlushQueues, Reset, HandleFragments, TryRead, AddFragments
<1>4. CASE UNCHANGED vars
    BY <1>4 DEF vars
<1> QED
    BY <1>1, <1>2, <1>3, <1>4, Steps4

-----------------------------------------------------------------------------
(* The queues. *)

\* EachOnce, QueuesSorted, InSequence and whose fragments they are, of one source.
QueueOk(s) ==
    /\ \A i \in 1 .. Len(queue[s]) :
          /\ queue[s][i].src = s
          /\ queue[s][i].id \in 1 .. got[s] /\ queue[s][i].id \notin gone[s]
          /\ queue[s][i].ts <= highest[s]
          /\ s \in unruly \/ queue[s][i].id = got[s] - Len(queue[s]) + i
    /\ \A i, j \in 1 .. Len(queue[s]) : i < j => queue[s][i].ts <= queue[s][j].ts
    /\ \A i, j \in 1 .. Len(queue[s]) : i # j => queue[s][i].id # queue[s][j].id
    /\ gone[s] \subseteq 1 .. got[s]
    /\ \A n \in 1 .. got[s] : n \in gone[s] \/ \E i \in 1 .. Len(queue[s]) : queue[s][i].id = n
Own == \A s \in Sources : \A i \in DOMAIN queue[s] : queue[s][i].src = s

\* The parts of the invariant that are about each queue on its own.
LEMMA QueueOkIs ==
    ASSUME QueuesTyped
    PROVE  EachOnce /\ QueuesSorted /\ InSequence /\ Own <=> \A s \in Sources : QueueOk(s)
<1>1. \A s \in Sources : DOMAIN queue[s] = 1 .. Len(queue[s])
    BY LenIs
<1>2. ASSUME EachOnce, QueuesSorted, InSequence, Own, NEW s \in Sources PROVE QueueOk(s)
    <2>1. /\ QueuedIds(s) \cap gone[s] = {} /\ QueuedIds(s) \cup gone[s] = 1 .. got[s]
          /\ \A i, j \in 1 .. Len(queue[s]) : i # j => queue[s][i].id # queue[s][j].id
          /\ QueuedIds(s) = {queue[s][i].id : i \in 1 .. Len(queue[s])}
        BY <1>1, <1>2 DEF EachOnce, QueuedIds
    <2>2. \A i, j \in 1 .. Len(queue[s]) : i < j => queue[s][i].ts <= queue[s][j].ts
        BY <1>1, <1>2 DEF QueuesSorted
    <2>3. \A i \in 1 .. Len(queue[s]) :
              /\ queue[s][i].ts <= highest[s]
              /\ s \in unruly \/ queue[s][i].id = got[s] - Len(queue[s]) + i
              /\ queue[s][i].src = s
        BY <1>1, <1>2 DEF InSequence, Own
    <2>4. \A i \in 1 .. Len(queue[s]) : queue[s][i].id \in QueuedIds(s)
        BY <2>1
    <2>5. \A n \in QueuedIds(s) : \E i \in 1 .. Len(queue[s]) : queue[s][i].id = n
        BY <2>1
    <2> QED
        BY <2>1, <2>2, <2>3, <2>4, <2>5 DEF QueueOk
<1>3. ASSUME \A s \in Sources : QueueOk(s)
      PROVE  EachOnce /\ QueuesSorted /\ InSequence /\ Own
    <2>1. ASSUME NEW s \in Sources
          PROVE  /\ QueuedIds(s) \cap gone[s] = {} /\ QueuedIds(s) \cup gone[s] = 1 .. got[s]
                 /\ \A i, j \in 1 .. Len(queue[s]) : i # j => queue[s][i].id # queue[s][j].id
        <3>1. QueuedIds(s) = {queue[s][i].id : i \in 1 .. Len(queue[s])}
            BY <1>1 DEF QueuedIds
        <3> QED
            BY <1>3, <3>1 DEF QueueOk
    <2>2. EachOnce
        BY <1>1, <2>1 DEF EachOnce
    <2>3. QueuesSorted
        BY <1>1, <1>3 DEF QueuesSorted, QueueOk
    <2>4. InSequence
        BY <1>1, <1>3 DEF InSequence, QueueOk
    <2>5. Own
        BY <1>1, <1>3 DEF Own, QueueOk
    <2> QED
        BY <2>2, <2>3, <2>4, <2>5
<1> QED
    BY <1>2, <1>3

\* What a queue is when its front has left.
LEMMA RemovesIs ==
    ASSUME QueuesTyped, NEW cut \in Cuts, Removes(cut), NEW s \in Sources
    PROVE  /\ cut[s] \in 0 .. Len(queue[s]) /\ queue'[s] \in Seq(Frags)
           /\ Len(queue'[s]) = Len(queue[s]) - cut[s]
           /\ \A i \in 1 .. Len(queue[s]) - cut[s] : queue'[s][i] = queue[s][cut[s] + i]
<1>1. cut[s] \in 0 .. Len(queue[s]) /\ queue[s] \in Seq(Frags)
    BY LenIs DEF Cuts
<1>2. queue'[s] = Drop(queue[s], cut[s])
    BY DEF Removes
<1>3. PICK q \in Seq(Frags) : q = queue[s]
    BY <1>1
<1>4. PICK c \in 0 .. Len(q) : c = cut[s]
    BY <1>1, <1>3
<1>5. /\ Drop(q, c) \in Seq(Frags) /\ Len(Drop(q, c)) = Len(q) - c
      /\ \A i \in 1 .. Len(q) - c : Drop(q, c)[i] = q[c + i]
    BY DropIs
<1> QED
    BY <1>2, <1>3, <1>4, <1>5

\* Taking off the front of a queue keeps what is said of it.
LEMMA RemovesOk ==
    ASSUME QueuesTyped, NEW cut \in Cuts, Removes(cut), got \in [Sources -> Nat],
           got' = got, highest' = highest, unruly' = unruly, NEW s \in Sources, QueueOk(s)
    PROVE  QueueOk(s)'
<1>1. PICK n \in Nat : n = Len(queue[s])
    BY LenIs
<1>2. PICK c \in 0 .. n : c = cut[s]
    BY <1>1, RemovesIs
<1>3. PICK m \in Nat : m = got[s]
    OBVIOUS
<1>4. Len(queue'[s]) = n - c /\ \A i \in 1 .. n - c : queue'[s][i] = queue[s][c + i]
    BY <1>1, <1>2, RemovesIs
<1>5. gone'[s] = gone[s] \cup {queue[s][i].id : i \in 1 .. c}
    BY <1>2 DEF Removes
<1>6. /\ \A i \in 1 .. n :
            /\ queue[s][i].src = s
            /\ queue[s][i].id \in 1 .. m /\ queue[s][i].id \notin gone[s]
            /\ queue[s][i].ts <= highest[s]
            /\ s \in unruly \/ queue[s][i].id = m - n + i
      /\ \A i, j \in 1 .. n : i < j => queue[s][i].ts <= queue[s][j].ts
      /\ \A i, j \in 1 .. n : i # j => queue[s][i].id # queue[s][j].id
      /\ gone[s] \subseteq 1 .. m
      /\ \A k \in 1 .. m : k \in gone[s] \/ \E i \in 1 .. n : queue[s][i].id = k
    BY <1>1, <1>3 DEF QueueOk
<1>7. ASSUME NEW i \in 1 .. n - c
      PROVE  /\ c + i \in 1 .. n /\ queue'[s][i].src = s
             /\ queue'[s][i].id \in 1 .. m /\ queue'[s][i].id \notin gone'[s]
             /\ queue'[s][i].ts <= highest[s]
             /\ s \in unruly \/ queue'[s][i].id = m - (n - c) + i
    <2>1. c + i \in 1 .. n /\ \A j \in 1 .. c : j \in 1 .. n /\ j # c + i
        OBVIOUS
    <2>2. queue'[s][i] = queue[s][c + i]
        BY <1>4
    <2>3. queue[s][c + i].id \notin {queue[s][j].id : j \in 1 .. c}
        BY <1>6, <2>1
    <2>4. m - n + (c + i) = m - (n - c) + i
        OBVIOUS
    <2> QED
        BY <1>5, <1>6, <2>1, <2>2, <2>3, <2>4
<1>8. ASSUME NEW i \in 1 .. n - c, NEW j \in 1 .. n - c
      PROVE  /\ i < j => queue'[s][i].ts <= queue'[s][j].ts
             /\ i # j => queue'[s][i].id # queue'[s][j].id
    <2>1. c + i \in 1 .. n /\ c + j \in 1 .. n /\ (i < j => c + i < c + j)
          /\ (i # j => c + i # c + j)
        OBVIOUS
    <2>2. queue'[s][i] = queue[s][c + i] /\ queue'[s][j] = queue[s][c + j]
        BY <1>4
    <2> QED
        BY <1>6, <2>1, <2>2
<1>9. gone'[s] \subseteq 1 .. m
    <2>1. \A i \in 1 .. c : i \in 1 .. n
        OBVIOUS
    <2> QED
        BY <1>5, <1>6, <2>1
<1>10. ASSUME NEW k \in 1 .. m
       PROVE  k \in gone'[s] \/ \E i \in 1 .. n - c : queue'[s][i].id = k
    <2>1. CASE k \in gone[s]
        BY <1>5, <2>1
    <2>2. CASE k \notin gone[s]
        <3>1. PICK i \in 1 .. n : queue[s][i].id = k
            BY <1>6, <2>2
        <3>2. CASE i <= c
            BY <1>5, <3>1, <3>2
        <3>3. CASE i > c
            <4>1. PICK j \in 1 .. n - c : c + j = i
                <5>1. i - c \in 1 .. n - c /\ c + (i - c) = i
                    BY <3>3
                <5> QED
                    BY <5>1
            <4>2. queue'[s][j].id = k
                BY <1>4, <3>1, <4>1
            <4> QED
                BY <4>2
        <3> QED
            BY <3>2, <3>3
    <2> QED
        BY <2>1, <2>2
<1> QED
    BY <1>3, <1>4, <1>7, <1>8, <1>9, <1>10 DEF QueueOk

\* So does the clock.
LEMMA TickOk ==
    ASSUME QueuesTyped, Tick, NEW s \in Sources, QueueOk(s)
    PROVE  QueueOk(s)'
<1>1. /\ Len(queue'[s]) = Len(queue[s])
      /\ \A i \in 1 .. Len(queue[s]) :
            /\ queue'[s][i].src = queue[s][i].src /\ queue'[s][i].id = queue[s][i].id
            /\ queue'[s][i].ts = queue[s][i].ts
    BY TickIs
<1>2. gone' = gone /\ got' = got /\ highest' = highest /\ unruly' = unruly
    BY DEF Tick, ghosts
<1> QED
    BY <1>1, <1>2, SMTT(30) DEF QueueOk

\* So does a fragment that is added.
LEMMA AddOk ==
    ASSUME QueuesTyped, NEW ts \in Times, NEW bar \in BOOLEAN, NEW q \in Seq(Frags),
           sender \in Sources, NEW p \in 0 .. Len(queue[sender]), Added(ts, bar, q, p),
           got \in [Sources -> Nat], highest \in [Sources -> Times], gone' = gone,
           NEW s \in Sources, QueueOk(s)
    PROVE  QueueOk(s)'
<1>1. CASE s # sender
    <2>1. /\ queue'[s] = queue[s] /\ got'[s] = got[s] /\ highest'[s] = highest[s]
          /\ s \in unruly <=> s \in unruly'
        BY <1>1 DEF Added, QueuesTyped
    <2> QED
        BY <2>1 DEF QueueOk
<1>2. CASE s = sender
    <2>1. PICK n \in Nat : n = Len(queue[s])
        BY LenIs
    <2>2. PICK m \in Nat : m = got[s]
        OBVIOUS
    <2>3. /\ queue'[s] = q /\ Len(q) = n + 1 /\ got'[s] = m + 1
          /\ highest'[s] = Max({ts, highest[s]})
          /\ s \in unruly' <=> s \in unruly \/ ts < highest[s]
        BY <1>2, <2>1, <2>2 DEF Added, QueuesTyped
    <2>4. /\ \A i \in 1 .. p : q[i] = queue[s][i] /\ queue[s][i].ts <= ts
          /\ q[p + 1].src = s /\ q[p + 1].id = m + 1 /\ q[p + 1].ts = ts
          /\ \A i \in p + 2 .. n + 1 : q[i] = queue[s][i - 1]
          /\ \A i \in p + 1 .. n : ts < queue[s][i].ts
          /\ p \in 0 .. n
        <3> DEFINE e == [src |-> s, id |-> m + 1, ts |-> ts, bar |-> bar, age |-> 0]
        <3>1. /\ \A i \in 1 .. n + 1 :
                    q[i] = IF i <= p THEN queue[s][i]
                           ELSE IF i = p + 1 THEN e ELSE queue[s][i - 1]
              /\ \A i \in 1 .. p : queue[s][i].ts <= ts
              /\ \A i \in p + 1 .. n : ts < queue[s][i].ts
              /\ p \in 0 .. n
            BY <1>2, <2>1, <2>2, <2>3 DEF Added
        <3>2. q[p + 1] = e
            BY <3>1
        <3>3. \A i \in 1 .. p : q[i] = queue[s][i]
            BY <3>1
        <3>4. \A i \in p + 2 .. n + 1 : q[i] = queue[s][i - 1]
            BY <3>1
        <3>5. q[p + 1].src = s /\ q[p + 1].id = m + 1 /\ q[p + 1].ts = ts
            BY <3>2
        <3>6. /\ \A i \in 1 .. p : queue[s][i].ts <= ts
              /\ \A i \in p + 1 .. n : ts < queue[s][i].ts
              /\ p \in 0 .. n
            BY <3>1
        <3> HIDE DEF e
        <3> QED
            BY <3>3, <3>4, <3>5, <3>6, ZenonT(30)
    <2>5. highest'[s] \in Nat /\ ts <= highest'[s] /\ highest[s] <= highest'[s]
        <3>1. PICK h \in Nat : h = highest[s]
            BY NeverIs DEF Times
        <3>2. PICK t \in Nat : t = ts
            BY NeverIs DEF Times
        <3>3. /\ {t, h} \in SUBSET Nat /\ {t, h} # {} /\ t + h \in Nat
              /\ \A k \in {t, h} : k <= t + h
            OBVIOUS
        <3>4. Max({t, h}) \in {t, h} /\ \A k \in {t, h} : k <= Max({t, h})
            BY <3>3, MaxIs
        <3> QED
            BY <2>3, <3>1, <3>2, <3>4
    <2>6. /\ \A i \in 1 .. n :
                /\ queue[s][i].src = s
                /\ queue[s][i].id \in 1 .. m /\ queue[s][i].id \notin gone[s]
                /\ queue[s][i].ts <= highest[s] /\ queue[s][i].ts \in Nat
                /\ s \in unruly \/ queue[s][i].id = m - n + i
          /\ \A i, j \in 1 .. n : i < j => queue[s][i].ts <= queue[s][j].ts
          /\ \A i, j \in 1 .. n : i # j => queue[s][i].id # queue[s][j].id
          /\ gone[s] \subseteq 1 .. m
          /\ \A k \in 1 .. m : k \in gone[s] \/ \E i \in 1 .. n : queue[s][i].id = k
        <3>1. \A i \in 1 .. n : queue[s][i].ts \in Nat
            BY <2>1, LenIs, FragIs
        <3> QED
            BY <2>1, <2>2, <3>1 DEF QueueOk
    <2>7. ts \in Nat /\ highest[s] \in Nat
        BY NeverIs DEF Times
    \* Where the elements of the new queue come from.
    <2>8. ASSUME NEW i \in 1 .. n + 1
          PROVE  \/ i = p + 1 /\ q[i].src = s /\ q[i].id = m + 1 /\ q[i].ts = ts
                 \/ \E k \in 1 .. n : /\ q[i] = queue[s][k]
                                      /\ k = IF i <= p THEN i ELSE i - 1
                                      /\ i <= p \/ i > p + 1
        <3>1. CASE i <= p
            <4>1. i \in 1 .. n /\ i \in 1 .. p
                BY <2>4, <3>1
            <4> QED
                BY <2>4, <3>1, <4>1
        <3>2. CASE i = p + 1
            BY <2>4, <3>2
        <3>3. CASE i > p + 1
            <4>1. i - 1 \in 1 .. n /\ i \in p + 2 .. n + 1 /\ ~(i <= p)
                BY <2>4, <3>3
            <4> QED
                BY <2>4, <3>3, <4>1
        <3> QED
            BY <2>4, <3>1, <3>2, <3>3
    <2>9. s \in unruly' \/ p = n
        <3>1. SUFFICES ASSUME s \notin unruly' PROVE p = n
            OBVIOUS
        <3>2. highest[s] <= ts
            BY <2>3, <2>7, <3>1
        <3>3. ASSUME p < n PROVE FALSE
            <4>1. p + 1 \in 1 .. n /\ p + 1 \in p + 1 .. n
                BY <2>4, <3>3
            <4>2. ts < queue[s][p + 1].ts /\ queue[s][p + 1].ts <= highest[s]
                BY <2>4, <2>6, <4>1
            <4> QED
                BY <2>6, <2>7, <3>2, <4>1, <4>2
        <3> QED
            BY <2>4, <3>3
    <2>10. ASSUME NEW i \in 1 .. n + 1
           PROVE  /\ q[i].src = s /\ q[i].id \in 1 .. m + 1 /\ q[i].id \notin gone[s]
                  /\ q[i].ts <= highest'[s]
                  /\ s \in unruly' \/ q[i].id = (m + 1) - (n + 1) + i
        <3>1. CASE i = p + 1 /\ q[i].src = s /\ q[i].id = m + 1 /\ q[i].ts = ts
            <4>1. m + 1 \notin gone[s]
                BY <2>6
            <4>2. p = n => m + 1 = (m + 1) - (n + 1) + (p + 1)
                OBVIOUS
            <4> QED
                BY <2>5, <2>9, <3>1, <4>1, <4>2
        <3>2. CASE \E k \in 1 .. n : /\ q[i] = queue[s][k]
                                     /\ k = IF i <= p THEN i ELSE i - 1
                                     /\ i <= p \/ i > p + 1
            <4>1. PICK k \in 1 .. n : /\ q[i] = queue[s][k]
                                      /\ k = IF i <= p THEN i ELSE i - 1
                                      /\ i <= p \/ i > p + 1
                BY <3>2
            <4>2. /\ queue[s][k].src = s
                  /\ queue[s][k].id \in 1 .. m /\ queue[s][k].id \notin gone[s]
                  /\ queue[s][k].ts <= highest[s] /\ queue[s][k].ts \in Nat
                  /\ s \in unruly \/ queue[s][k].id = m - n + k
                BY <2>6
            <4>3. queue[s][k].ts <= highest'[s]
                BY <2>5, <2>7, <4>2
            <4>4. s \in unruly' \/ k = i
                BY <2>9, <4>1
            <4>5. m - n + i = (m + 1) - (n + 1) + i /\ 1 .. m \subseteq 1 .. m + 1
                OBVIOUS
            <4> QED
                BY <2>3, <4>1, <4>2, <4>3, <4>4, <4>5
        <3> QED
            BY <2>8, <3>1, <3>2
    <2>11. ASSUME NEW i \in 1 .. n + 1, NEW j \in 1 .. n + 1, i < j
           PROVE  q[i].ts <= q[j].ts /\ q[i].id # q[j].id
        <3>1. CASE i # p + 1 /\ j # p + 1
            <4>1. PICK k \in 1 .. n : q[i] = queue[s][k] /\ k = IF i <= p THEN i ELSE i - 1
                BY <2>8, <3>1
            <4>2. PICK l \in 1 .. n : q[j] = queue[s][l] /\ l = IF j <= p THEN j ELSE j - 1
                BY <2>8, <3>1
            <4>3. k < l
                BY <2>4, <2>11, <3>1, <4>1, <4>2
            <4>4. queue[s][k].ts <= queue[s][l].ts /\ queue[s][k].id # queue[s][l].id
                <5>1. k # l
                    BY <4>3
                <5> QED
                    BY <2>6, <4>3, <5>1
            <4> QED
                BY <4>1, <4>2, <4>4
        <3>2. CASE i = p + 1
            <4>1. j # p + 1 /\ q[i].id = m + 1 /\ q[i].ts = ts
                BY <2>4, <2>11, <3>2
            <4>2. PICK l \in 1 .. n : q[j] = queue[s][l] /\ l = IF j <= p THEN j ELSE j - 1
                BY <2>8, <4>1
            <4>3. l \in p + 1 .. n
                BY <2>4, <2>11, <3>2, <4>2
            <4>4. /\ ts < queue[s][l].ts /\ queue[s][l].ts \in Nat
                  /\ queue[s][l].id \in 1 .. m
                BY <2>4, <2>6, <4>3
            <4>5. ts <= queue[s][l].ts
                <5>1. ts \in Nat
                    BY <2>7
                <5> QED
                    BY <4>4, <5>1
            <4>6. m + 1 # queue[s][l].id
                BY <4>4
            <4> QED
                BY <4>1, <4>2, <4>5, <4>6
        <3>3. CASE j = p + 1
            <4>1. i # p + 1 /\ q[j].id = m + 1 /\ q[j].ts = ts
                BY <2>4, <2>11, <3>3
            <4>2. PICK k \in 1 .. n : q[i] = queue[s][k] /\ k = IF i <= p THEN i ELSE i - 1
                BY <2>8, <4>1
            <4>3. k \in 1 .. p
                BY <2>4, <2>11, <3>3, <4>2
            <4>4. queue[s][k].ts <= ts /\ queue[s][k].id \in 1 .. m
                BY <2>4, <2>6, <4>2, <4>3
            <4> QED
                BY <2>6, <2>7, <4>1, <4>2, <4>4, SMTT(30)
        <3> QED
            BY <3>1, <3>2, <3>3
    <2>12. ASSUME NEW i \in 1 .. n + 1, NEW j \in 1 .. n + 1, i # j PROVE q[i].id # q[j].id
        BY <2>11, <2>12
    <2>13. gone'[s] \subseteq 1 .. m + 1
        BY <2>6
    <2>14. ASSUME NEW k \in 1 .. m + 1
           PROVE  k \in gone[s] \/ \E i \in 1 .. n + 1 : q[i].id = k
        <3>1. CASE k = m + 1
            <4>1. p + 1 \in 1 .. n + 1
                BY <2>4
            <4> QED
                BY <2>4, <3>1, <4>1
        <3>2. CASE k \in 1 .. m /\ k \notin gone[s]
            <4>1. PICK l \in 1 .. n : queue[s][l].id = k
                BY <2>6, <3>2
            <4>2. CASE l <= p
                <5>1. l \in 1 .. p /\ l \in 1 .. n + 1
                    BY <2>4, <4>2
                <5> QED
                    BY <2>4, <4>1, <5>1
            <4>3. CASE l > p
                <5>1. PICK i \in p + 2 .. n + 1 : i - 1 = l
                    <6>1. l + 1 \in p + 2 .. n + 1 /\ (l + 1) - 1 = l
                        BY <2>4, <4>3
                    <6> QED
                        BY <6>1
                <5>2. q[i].id = k /\ i \in 1 .. n + 1
                    BY <2>4, <4>1, <5>1
                <5> QED
                    BY <5>2
            <4> QED
                BY <2>4, <4>2, <4>3
        <3> QED
            BY <3>1, <3>2
    <2> QED
        BY <2>3, <2>10, <2>11, <2>12, <2>13, <2>14, ZenonT(60) DEF QueueOk
<1> QED
    BY <1>1, <1>2

-----------------------------------------------------------------------------
(* The step of the queues and of what is remembered of the fragments. *)

RecordsTyped ==
    /\ newest \in [Sources -> Times] /\ got \in [Sources -> Nat]
    /\ gone \in [Sources -> SUBSET Nat] /\ highest \in [Sources -> Times]
    /\ unruly \subseteq Sources

\* The larger of two timestamps.
LEMMA LaterIs ==
    ASSUME NEW a \in Times, NEW b \in Times
    PROVE  Max({a, b}) \in {a, b} /\ a <= Max({a, b}) /\ b <= Max({a, b})
<1>1. PICK k \in Nat : k = a
    BY NeverIs DEF Times
<1>2. PICK l \in Nat : l = b
    BY NeverIs DEF Times
<1>3. {k, l} \in SUBSET Nat /\ {k, l} # {} /\ k + l \in Nat /\ \A i \in {k, l} : i <= k + l
    OBVIOUS
<1>4. Max({k, l}) \in {k, l} /\ \A i \in {k, l} : i <= Max({k, l})
    BY <1>3, MaxIs
<1> QED
    BY <1>1, <1>2, <1>4

\* So does every step.
LEMMA QueuesStep ==
    ASSUME QueuesTyped, RecordsTyped, known \in SUBSET Sources,
           sender \in Sources \/ step # "add",
           \A s \in Sources : QueueOk(s), [Next]_vars
    PROVE  QueuesTyped' /\ RecordsTyped' /\ \A s \in Sources : QueueOk(s)'
<1>1. QueuesSorted
    BY QueueOkIs
<1>2. CASE AddFragment
    <2>1. sender \in Sources /\ gone' = gone
        BY <1>2 DEF AddFragment
    <2>2. PICK ts \in Times, bar \in BOOLEAN, q \in Seq(Frags), p \in 0 .. Len(queue[sender]) :
              Added(ts, bar, q, p)
        BY <1>1, <1>2, <2>1, AddIs DEF RecordsTyped
    <2>3. \A s \in Sources : QueueOk(s)'
        BY <2>1, <2>2, AddOk DEF RecordsTyped
    <2>4. QueuesTyped'
        BY <2>1, <2>2 DEF QueuesTyped, Added
    <2>5. highest[sender] \in Times
        BY <2>1 DEF RecordsTyped
    <2>6. Max({ts, highest[sender]}) \in Times
        BY <2>5, LaterIs
    <2>7. /\ newest' = [newest EXCEPT ![sender] = ts]
          /\ got' = [got EXCEPT ![sender] = @ + 1]
          /\ highest' = [highest EXCEPT ![sender] = Max({ts, highest[sender]})]
          /\ unruly' \subseteq unruly \cup {sender}
        BY <2>1, <2>2 DEF Added, RecordsTyped
    <2>8. RecordsTyped'
        BY <2>1, <2>6, <2>7 DEF RecordsTyped
    <2> QED
        BY <2>3, <2>4, <2>8
<1>3. ASSUME ~AddFragment PROVE newest' \in [Sources -> Times]
    <2>1. 0 \in Times
        BY NeverIs DEF Times
    <2>2. CASE Reset
        BY <2>1, <2>2 DEF Reset, RecordsTyped
    <2>3. CASE ~Reset
        <3>1. newest' = newest
            BY <1>3, <2>3, Steps4 DEF FlushStep, FlushUntilStamp, FlushUntilTime,
               FlushCompletely, Flush,
               BarrierStep, CheckBarrier, AbortBarrier, Stall, GenerateBarrier, queues, ghosts,
               Talk, Accept, Connect, Disconnect, StallForming, EndFragments, EndPoll, IdlePoll,
               FlushQueues, HandleFragments, TryRead, Tick, vars
        <3> QED
            BY <3>1 DEF RecordsTyped
    <2> QED
        BY <2>2, <2>3
<1>4. CASE ~AddFragment /\ \E cut \in Cuts : Removes(cut) /\ got' = got /\ highest' = highest
                                              /\ unruly' = unruly
    <2>1. PICK cut \in Cuts : Removes(cut) /\ got' = got /\ highest' = highest
                              /\ unruly' = unruly
        BY <1>4
    <2>2. \A s \in Sources : QueueOk(s)'
        BY <2>1, RemovesOk DEF RecordsTyped
    <2>3. QueuesTyped'
        <3>1. queue' = [s \in Sources |-> Drop(queue[s], cut[s])]
            BY <2>1 DEF Removes
        <3>2. \A s \in Sources : queue'[s] \in Seq(Frags)
            BY <2>1, RemovesIs
        <3> QED
            BY <3>1, <3>2 DEF QueuesTyped
    <2>4. \A s \in Sources : {queue[s][i].id : i \in 1 .. cut[s]} \subseteq Nat
        <3> TAKE s \in Sources
        <3>1. \A i \in 1 .. cut[s] : i \in 1 .. Len(queue[s])
            BY <2>1, LenIs, RemovesIs
        <3> QED
            BY <3>1, LenIs, FragIs
    <2>5. gone' \in [Sources -> SUBSET Nat]
        BY <2>1, <2>4 DEF Removes, RecordsTyped
    <2> QED
        BY <1>3, <1>4, <2>1, <2>2, <2>3, <2>5 DEF RecordsTyped
<1>5. CASE Tick
    <2>1. /\ newest' = newest /\ got' = got /\ gone' = gone /\ highest' = highest
          /\ unruly' = unruly
        BY <1>5 DEF Tick, ghosts
    <2>2. QueuesTyped' /\ \A s \in Sources : QueueOk(s)'
        BY <1>5, TickIs, TickOk DEF QueuesTyped
    <2> QED
        BY <2>1, <2>2 DEF RecordsTyped
<1>6. CASE ~AddFragment /\ queue' = queue /\ gone' = gone /\ got' = got /\ highest' = highest
            /\ unruly' = unruly
    <2>1. QueuesTyped' /\ \A s \in Sources : QueueOk(s)'
        BY <1>6 DEF QueuesTyped, QueueOk
    <2> QED
        BY <1>3, <1>6, <2>1 DEF RecordsTyped
<1> QED
    BY <1>1, <1>2, <1>4, <1>5, <1>6, QueueKinds DEF RecordsTyped

\* The handler's marks and what is known of the output.
LEMMA MarksTyped ==
    ASSUME QueuesTyped, QueuesSorted, known \in SUBSET Sources, top \in Times,
           popped \in Times, past \in SUBSET Events, outcome \in SUBSET Outcomes, [Next]_vars
    PROVE  /\ top' \in Times /\ popped' \in Times
           /\ past' \subseteq Events /\ past \subseteq past'
           /\ outcome' \subseteq Outcomes /\ outcome \subseteq outcome'
<1> DEFINE Goal == /\ top' \in Times /\ popped' \in Times
                   /\ past' \subseteq Events /\ past \subseteq past'
                   /\ outcome' \subseteq Outcomes /\ outcome \subseteq outcome'
<1> USE DEF queues, sourcesState, ghosts, Command, Begin
<1>1. ASSUME NEW first, NEW cut \in Cuts, NEW late, MoveOut(first, cut, late)
      PROVE  top' \in Times /\ outcome' \subseteq Outcomes /\ outcome \subseteq outcome'
    <2>1. top' \in Times
        BY <1>1, TopIs
    <2>2. \E new \in SUBSET Outcomes : outcome' = outcome \cup new
        BY <1>1 DEF MoveOut
    <2> QED
        BY <2>1, <2>2
<1>2. ASSUME NEW events \in SUBSET Events, Note(events)
      PROVE  past' \subseteq Events /\ past \subseteq past'
    BY <1>2 DEF Note
<1>3. ASSUME NEW cut \in Cuts, Flush(cut)
      PROVE  top' \in Times /\ outcome' \subseteq Outcomes /\ outcome \subseteq outcome'
             /\ popped' \in Times
    BY <1>1, <1>3, PoppedIs DEF Flush
<1>4. CASE FlushUntilStamp
    <2>1. Flush(StampCut) /\ past' = past
        BY <1>4 DEF FlushUntilStamp
    <2> QED
        BY <1>3, <2>1, CutsAre
<1>5. CASE FlushUntilTime
    <2>1. Flush(TimeCut) /\ \E events \in SUBSET Events : Note(events)
        BY <1>5 DEF FlushUntilTime, Events
    <2> QED
        BY <1>2, <1>3, <2>1, CutsAre
<1>6. CASE FlushCompletely
    <2>1. MoveOut(FirstCut, WholeCut, Late(FirstCut)) /\ popped' = Popped(FirstCut)
        BY <1>6, CompletelyIs
    <2>2. \E events \in SUBSET Events : Note(events)
        BY <1>6 DEF FlushCompletely, Events
    <2>3. WholeCut \in Cuts /\ popped' \in Times
        BY <2>1, CutsAre, PoppedIs
    <2> QED
        BY <1>1, <1>2, <2>1, <2>2, <2>3
<1>7. ASSUME GenerateBarrier, outcome' = outcome PROVE Goal
    <2>1. popped' = popped /\ top' = top /\ \E events \in SUBSET Events : Note(events)
        BY <1>7 DEF GenerateBarrier, Events
    <2> QED
        BY <1>2, <1>7, <2>1
<1>8. CASE BarrierStep
    <2>1. \/ GenerateBarrier /\ outcome' = outcome
          \/ UNCHANGED <<queues, ghosts>>
        BY <1>8 DEF BarrierStep, CheckBarrier, AbortBarrier, Stall
    <2> QED
        BY <1>7, <2>1
<1>9. CASE \E s \in Sources : Connect(s)
    <2>1. popped' = popped /\ top' = top /\ outcome' = outcome
          /\ \E events \in SUBSET Events : Note(events)
        BY <1>9 DEF Connect, Events
    <2> QED
        BY <1>2, <2>1
<1>10. CASE Reset
    <2>1. top' = top /\ outcome' = outcome /\ \E events \in SUBSET Events : Note(events)
        BY <1>10 DEF Reset, Events
    <2>2. popped' = 0 /\ 0 \in Times
        BY <1>10, NeverIs DEF Reset, Times
    <2> QED
        BY <1>2, <2>1, <2>2
<1>11. CASE \/ \E s \in Sources : Accept(s) \/ Disconnect(s) \/ HandleFragments(s) \/ TryRead(s)
                                  \/ StallForming(s)
            \/ EndFragments \/ EndPoll \/ IdlePoll \/ FlushQueues \/ AddFragment \/ Tick
            \/ UNCHANGED vars
    BY <1>11 DEF Accept, Disconnect, StallForming, EndFragments, EndPoll, IdlePoll,
                FlushQueues, HandleFragments, TryRead, AddFragments, AddFragment, Tick, vars
<1> QED
    BY <1>4, <1>5, <1>6, <1>8, <1>9, <1>10, <1>11, Steps4 DEF FlushStep, Talk

\* Only what is added makes a twin, and only a batch overtakes.
LEMMA TwinsKept ==
    ASSUME [Next]_vars
    PROVE  (AddFragment \/ twins' = twins) /\ (FlushStep \/ overtaken' = overtaken)
<1> USE DEF queues, sourcesState, ghosts, Command, Begin
<1>1. CASE AddFragment
    BY <1>1 DEF AddFragment
<1>2. CASE FlushStep
    BY <1>2 DEF FlushStep, FlushUntilStamp, FlushUntilTime, FlushCompletely, Flush
<1>3. CASE BarrierStep
    BY <1>3 DEF BarrierStep, CheckBarrier, AbortBarrier, Stall, GenerateBarrier
<1>4. CASE Talk
    BY <1>4 DEF Talk, Accept, Connect, Disconnect, StallForming, EndFragments, EndPoll,
                IdlePoll, FlushQueues, Reset, HandleFragments, TryRead, AddFragments
<1>5. CASE Tick \/ UNCHANGED vars
    BY <1>5 DEF Tick, vars
<1> QED
    BY <1>1, <1>2, <1>3, <1>4, <1>5, Steps4

\* What is known of twins and of who was overtaken.
LEMMA TwinsTyped ==
    ASSUME twins \subseteq Sources, overtaken \subseteq Sources,
           sender \in Sources \/ step # "add", [Next]_vars
    PROVE  twins' \subseteq Sources /\ overtaken' \subseteq Sources
<1>1. CASE AddFragment
    <2>1. sender \in Sources /\ overtaken' = overtaken
        BY <1>1 DEF AddFragment
    <2>2. twins' \subseteq twins \cup {sender}
        BY <1>1 DEF AddFragment, Add
    <2> QED
        BY <2>1, <2>2
<1>2. ASSUME NEW first, NEW cut, NEW late, MoveOut(first, cut, late)
      PROVE  overtaken' \subseteq Sources
    <2>1. \E new \in SUBSET Sources : overtaken' = overtaken \cup new
        BY <1>2 DEF MoveOut
    <2> QED
        BY <2>1
<1>3. CASE FlushStep
    <2>1. \E first, cut, late : MoveOut(first, cut, late)
        BY <1>3, CompletelyIs DEF FlushStep, FlushUntilStamp, FlushUntilTime, Flush
    <2>2. ~AddFragment
        BY <1>3 DEF FlushStep, FlushUntilStamp, FlushUntilTime, FlushCompletely, Flush,
                    AddFragment
    <2> QED
        BY <1>2, <2>1, <2>2, TwinsKept
<1> QED
    BY <1>1, <1>3, TwinsKept

\* The types, by what the lemmas speak of.
LEMMA TypeIs ==
    TypeOK <=>
    /\ step \in Steps /\ call \in Calls /\ sender \in Sources \cup {Nobody}
    /\ known \subseteq Sources /\ live \subseteq Sources /\ dead \subseteq Sources
    /\ stalled \subseteq Sources /\ tries \subseteq Sources
    /\ conn \in [Sources -> {"none", "forming", "active"}]
    /\ pending \in BOOLEAN /\ watching \in BOOLEAN /\ flow \in Flows
    /\ QueuesTyped /\ RecordsTyped
    /\ top \in Times /\ popped \in Times /\ past \subseteq Events /\ outcome \subseteq Outcomes
    /\ twins \subseteq Sources /\ overtaken \subseteq Sources
BY DEF TypeOK, Flows, QueuesTyped, RecordsTyped

Basic == TypeOK /\ \A s \in Sources : QueueOk(s)

\* Every step keeps the types and the queues.
LEMMA BasicStep ==
    ASSUME Basic, sender = Nobody <=> step # "add", [Next]_vars
    PROVE  Basic'
<1>1. /\ QueuesTyped /\ QueuesSorted /\ known \in SUBSET Sources
      /\ sender \in Sources \/ step # "add"
    BY TypeIs, QueueOkIs DEF Basic
<1>2. step' \in Steps /\ call' \in Calls /\ sender' \in Sources \cup {Nobody}
    BY TypeIs, ControlTyped DEF Basic
<1>3. /\ known' \subseteq Sources /\ live' \subseteq Sources /\ dead' \subseteq Sources
      /\ conn' \in [Sources -> {"none", "forming", "active"}]
      /\ stalled' \subseteq Sources /\ tries' \subseteq Sources
    BY <1>1, TypeIs, SourcesTyped DEF Basic
<1>4. pending' \in BOOLEAN /\ watching' \in BOOLEAN
    BY TypeIs, FlagsTyped DEF Basic
<1>5. flow' \in Flows
    BY TypeIs, FlowTyped DEF Basic
<1>6. QueuesTyped' /\ RecordsTyped' /\ \A s \in Sources : QueueOk(s)'
    BY <1>1, TypeIs, QueuesStep DEF Basic
<1>7. /\ top' \in Times /\ popped' \in Times
      /\ past' \subseteq Events /\ outcome' \subseteq Outcomes
    BY <1>1, TypeIs, MarksTyped DEF Basic
<1>8. twins' \subseteq Sources /\ overtaken' \subseteq Sources
    BY <1>1, TypeIs, TwinsTyped DEF Basic
<1> QED
    BY <1>2, <1>3, <1>4, <1>5, <1>6, <1>7, <1>8
       DEF Basic, TypeOK, Flows, QueuesTyped, RecordsTyped

-----------------------------------------------------------------------------
(* Who sends, and what the flag knows. *)

Belong ==
    /\ sender = Nobody <=> step # "add"
    /\ sender \in known \cup {Nobody}
    /\ \A s \in Sources : queue[s] # <<>> \/ conn[s] = "active" \/ s \in tries => s \in known

\* QueuesOwn, but for the owners that QueueOk speaks of.
LEMMA OwnIs ==
    ASSUME QueuesTyped, \A s \in Sources : QueueOk(s)
    PROVE  QueuesOwn <=> Belong
BY QueueOkIs DEF QueuesOwn, Belong, Own

\* A queue that has something either had it before or is the sender's.
LEMMA Filled ==
    ASSUME QueuesTyped, QueuesSorted, known \in SUBSET Sources,
           gone \in [Sources -> SUBSET Nat],
           newest \in [Sources -> Times], got \in [Sources -> Nat],
           highest \in [Sources -> Times], sender \in Sources \/ step # "add", [Next]_vars,
           NEW s \in Sources, queue'[s] # <<>>
    PROVE  queue[s] # <<>> \/ (AddFragment /\ s = sender)
<1>1. CASE AddFragment
    <2>1. sender \in Sources
        BY <1>1 DEF AddFragment
    <2>2. PICK ts \in Times, bar \in BOOLEAN, q \in Seq(Frags), p \in 0 .. Len(queue[sender]) :
              Added(ts, bar, q, p)
        BY <1>1, <2>1, AddIs
    <2>3. queue' = [queue EXCEPT ![sender] = q]
        BY <2>2 DEF Added
    <2> QED
        BY <1>1, <2>1, <2>3 DEF QueuesTyped
<1>2. ASSUME NEW cut \in Cuts, Removes(cut) PROVE queue[s] # <<>>
    <2> SUFFICES ASSUME queue[s] = <<>> PROVE FALSE
        OBVIOUS
    <2>1. Len(queue[s]) = 0 /\ cut[s] \in 0 .. Len(queue[s])
        BY <1>2, RemovesIs
    <2>2. queue'[s] \in Seq(Frags) /\ Len(queue'[s]) = Len(queue[s]) - cut[s]
        BY <1>2, RemovesIs
    <2>3. Len(queue'[s]) = 0
        BY <2>1, <2>2
    <2> QED
        BY <2>2, <2>3, EmptySeq
<1>3. CASE Tick
    <2>1. queue' \in [Sources -> Seq(Frags)] /\ Len(queue'[s]) = Len(queue[s])
        BY <1>3, TickIs
    <2>2. queue[s] = <<>> => Len(queue[s]) = 0
        OBVIOUS
    <2>3. queue'[s] \in Seq(Frags)
        BY <2>1
    <2> QED
        BY <2>1, <2>2, <2>3, EmptySeq
<1> QED
    BY <1>1, <1>2, <1>3, QueueKinds

\* Only sources that have a queue send and have something queued.
LEMMA BelongStep ==
    ASSUME QueuesTyped, RecordsTyped, \A s \in Sources : QueueOk(s), known \in SUBSET Sources,
           conn \in [Sources -> {"none", "forming", "active"}], Belong, [Next]_vars
    PROVE  Belong'
<1>1. 0 \notin Sources /\ QueuesSorted
    BY HandlerAssumption, QueueOkIs DEF Sources
<1>2. /\ sender = Nobody <=> step # "add"
      /\ sender \in known \cup {Nobody}
      /\ \A s \in Sources : queue[s] # <<>> => s \in known
      /\ \A s \in Sources : conn[s] = "active" => s \in known
      /\ \A s \in Sources : s \in tries => s \in known
    BY DEF Belong
<1>3. sender \in Sources \/ step # "add"
    BY <1>2
<1> USE DEF queues, sourcesState, ghosts, Command, Begin, Nobody
<1>4. known \subseteq known'
    <2>1. CASE AddFragment \/ FlushStep \/ Tick \/ UNCHANGED vars
        BY <2>1 DEF AddFragment, FlushStep, FlushUntilStamp, FlushUntilTime,
                    FlushCompletely, Flush, Tick, vars
    <2>2. CASE BarrierStep
        BY <2>2 DEF BarrierStep, CheckBarrier, AbortBarrier, Stall, GenerateBarrier
    <2>3. CASE Talk
        BY <2>3 DEF Talk, Accept, Connect, Disconnect, StallForming, EndFragments, EndPoll,
                IdlePoll, FlushQueues, Reset, HandleFragments, TryRead, AddFragments
    <2> QED
        BY <2>1, <2>2, <2>3, Steps4
<1>5. \A s \in Sources : queue'[s] # <<>> => s \in known'
    <2> SUFFICES ASSUME NEW s \in Sources, queue'[s] # <<>> PROVE s \in known
        BY <1>4
    <2>1. CASE queue[s] # <<>>
        BY <1>2, <2>1
    <2>2. CASE AddFragment /\ s = sender
        BY <1>1, <1>2, <2>2
    <2> QED
        BY <1>1, <1>3, <2>1, <2>2, Filled DEF RecordsTyped
<1>6. /\ sender' = Nobody <=> step' # "add"
      /\ sender' \in known' \cup {Nobody}
    <2>1. CASE AddFragment
        BY <1>1, <1>2, <2>1 DEF AddFragment
    <2>2. CASE FlushStep
        BY <1>2, <2>2 DEF FlushStep, FlushUntilStamp, FlushUntilTime, FlushCompletely, Flush
    <2>3. CASE BarrierStep
        BY <1>2, <1>4, <2>3 DEF BarrierStep, CheckBarrier, AbortBarrier, Stall
    <2>4. CASE \E s \in Sources : HandleFragments(s) \/ TryRead(s)
        <3>1. PICK s \in Sources : HandleFragments(s) \/ TryRead(s)
            BY <2>4
        <3>2. sender' = s /\ step' = "add"
            BY <3>1 DEF HandleFragments, TryRead, AddFragments
        <3>3. s \in known
            BY <1>2, <3>1 DEF HandleFragments, TryRead
        <3> QED
            BY <1>1, <1>4, <3>2, <3>3
    <2>5. CASE \/ \E s \in Sources : Accept(s) \/ Connect(s) \/ Disconnect(s) \/ StallForming(s)
               \/ EndFragments \/ EndPoll \/ IdlePoll \/ FlushQueues \/ Reset
        BY <1>2, <1>4, <2>5 DEF Idle, AtEnd, Accept, Connect, Disconnect, StallForming,
            EndFragments, EndPoll, IdlePoll, FlushQueues, Reset
    <2>6. CASE Tick \/ UNCHANGED vars
        BY <1>2, <2>6 DEF Tick, vars
    <2> QED
        BY <2>1, <2>2, <2>3, <2>4, <2>5, <2>6, Steps4 DEF Talk
<1>7. \A s \in Sources : conn'[s] = "active" => s \in known'
    <2>1. CASE \E s \in Sources : Connect(s)
        BY <1>2, <2>1 DEF Connect
    <2>2. CASE \E s \in Sources : Accept(s) \/ Disconnect(s)
        BY <1>2, <1>4, <2>2 DEF Accept, Disconnect
    <2>3. CASE conn' = conn
        BY <1>2, <1>4, <2>3
    <2>4. CASE AddFragment \/ FlushStep \/ Tick \/ UNCHANGED vars
        BY <2>3, <2>4 DEF AddFragment, FlushStep, FlushUntilStamp, FlushUntilTime,
            FlushCompletely, Flush, Tick, vars
    <2>5. CASE BarrierStep
        BY <2>3, <2>5 DEF BarrierStep, CheckBarrier, AbortBarrier, Stall
    <2>6. CASE \/ \E s \in Sources : HandleFragments(s) \/ TryRead(s) \/ StallForming(s)
               \/ EndFragments \/ EndPoll \/ IdlePoll \/ FlushQueues \/ Reset
        BY <2>3, <2>6 DEF HandleFragments, TryRead, StallForming,
            EndFragments, EndPoll, IdlePoll, FlushQueues, Reset
    <2> QED
        BY <2>1, <2>2, <2>4, <2>5, <2>6, Steps4 DEF Talk
<1>8. \A s \in Sources : s \in tries' => s \in known'
    <2>1. CASE \E s \in Sources : HandleFragments(s)
        <3>1. tries' \subseteq {c \in Sources : conn[c] = "active"}
            BY <2>1 DEF HandleFragments, Others
        <3> QED
            BY <1>2, <1>4, <3>1
    <2>2. CASE tries' \subseteq tries
        BY <1>2, <1>4, <2>2
    <2>3. CASE AddFragment \/ FlushStep \/ Tick \/ UNCHANGED vars
        BY <2>2, <2>3 DEF AddFragment, FlushStep, FlushUntilStamp, FlushUntilTime,
            FlushCompletely, Flush, Tick, vars
    <2>4. CASE BarrierStep
        BY <2>2, <2>4 DEF BarrierStep, CheckBarrier, AbortBarrier, Stall
    <2>5. CASE \/ \E s \in Sources : Accept(s) \/ Connect(s) \/ Disconnect(s)
                                     \/ TryRead(s) \/ StallForming(s)
               \/ EndFragments \/ EndPoll \/ IdlePoll \/ FlushQueues \/ Reset
        BY <2>2, <2>5 DEF Accept, Connect, Disconnect, TryRead, StallForming,
            EndFragments, EndPoll, IdlePoll, FlushQueues, Reset
    <2> QED
        BY <2>1, <2>3, <2>4, <2>5, Steps4 DEF Talk
<1> QED
    BY <1>5, <1>6, <1>7, <1>8 DEF Belong

\* A barrier in a queue that only lost its front was there before.
LEMMA BarriersLeft ==
    ASSUME QueuesTyped, NEW cut \in Cuts, Removes(cut), BarrierQueued(queue')
    PROVE  BarrierQueued(queue)
<1>1. PICK s \in Sources : Barriers(queue'[s]) # {}
    BY DEF BarrierQueued
<1>2. PICK i \in DOMAIN queue'[s] : queue'[s][i].bar
    BY <1>1 DEF Barriers
<1>3. /\ cut[s] \in 0 .. Len(queue[s]) /\ queue'[s] \in Seq(Frags)
      /\ Len(queue'[s]) = Len(queue[s]) - cut[s]
      /\ \A k \in 1 .. Len(queue[s]) - cut[s] : queue'[s][k] = queue[s][cut[s] + k]
    BY RemovesIs
<1>4. PICK n \in Nat : n = Len(queue[s])
    BY LenIs
<1>5. PICK c \in 0 .. n : c = cut[s]
    BY <1>3, <1>4
<1>6. /\ queue'[s] \in Seq(Frags) /\ Len(queue'[s]) = n - c
      /\ \A k \in 1 .. n - c : queue'[s][k] = queue[s][c + k]
    BY <1>3, <1>4, <1>5
<1>7. DOMAIN queue'[s] = 1 .. n - c
    BY <1>6
<1>8. i \in 1 .. n - c
    BY <1>2, <1>7
<1>9. c + i \in 1 .. n
    BY <1>8
<1>10. queue'[s][i] = queue[s][c + i]
    BY <1>6, <1>8
<1>11. c + i \in DOMAIN queue[s]
    BY <1>4, <1>9, LenIs
<1> QED
    BY <1>2, <1>10, <1>11 DEF BarrierQueued, Barriers

\* The flag stays true to the queues unless a barrier is left over.
LEMMA PendingStep ==
    ASSUME QueuesTyped, RecordsTyped, \A s \in Sources : QueueOk(s), known \in SUBSET Sources,
           sender \in Sources \/ step # "add", past \in SUBSET Events, past \subseteq past',
           PendingKnown, [Next]_vars
    PROVE  PendingKnown'
<1> USE DEF queues, sourcesState, ghosts, Command, Begin
<1>1. QueuesSorted
    BY QueueOkIs
<1>2. SUFFICES ASSUME "leftover" \notin past', BarrierQueued(queue') PROVE pending'
    BY DEF PendingKnown
<1>3. BarrierQueued(queue) => pending
    BY <1>2 DEF PendingKnown
<1>4. CASE AddFragment
    <2>1. sender \in Sources
        BY <1>4 DEF AddFragment
    <2>2. PICK ts \in Times, bar \in BOOLEAN, q \in Seq(Frags), p \in 0 .. Len(queue[sender]) :
              Added(ts, bar, q, p)
        BY <1>1, <1>4, <2>1, AddIs DEF RecordsTyped
    <2>3. pending' = (pending \/ bar) /\ queue' = [queue EXCEPT ![sender] = q]
        BY <2>2 DEF Added
    <2>4. PICK s \in Sources : \E i \in DOMAIN queue'[s] : queue'[s][i].bar
        BY <1>2 DEF BarrierQueued, Barriers
    <2>5. CASE s # sender
        <3>1. queue'[s] = queue[s]
            BY <2>3, <2>5 DEF QueuesTyped
        <3>2. BarrierQueued(queue)
            BY <2>4, <3>1 DEF BarrierQueued, Barriers
        <3> QED
            BY <1>3, <2>3, <3>2
    <2>6. CASE s = sender
        <3>1. queue'[s] = q
            BY <2>1, <2>3, <2>6 DEF QueuesTyped
        <3>2. PICK n \in Nat : n = Len(queue[s])
            BY LenIs
        <3>3. PICK i \in 1 .. n + 1 : q[i].bar
            BY <2>2, <2>4, <2>6, <3>1, <3>2 DEF Added
        <3>4. q[i] = IF i <= p THEN queue[s][i]
                     ELSE IF i = p + 1 THEN [src |-> s, id |-> got[s] + 1, ts |-> ts,
                                             bar |-> bar, age |-> 0]
                     ELSE queue[s][i - 1]
            BY <2>2, <2>6, <3>2, <3>3 DEF Added
        <3>5. CASE i = p + 1
            <4>1. bar
                BY <3>3, <3>4, <3>5
            <4> QED
                BY <2>3, <4>1
        <3>6. CASE i # p + 1
            <4>1. PICK k \in 1 .. n : q[i] = queue[s][k]
                <5>1. p \in 0 .. n
                    BY <2>6, <3>2
                <5>2. i <= p => i \in 1 .. n
                    BY <5>1
                <5>3. ~(i <= p) => i - 1 \in 1 .. n
                    BY <3>6, <5>1
                <5> QED
                    BY <3>4, <3>6, <5>2, <5>3
            <4>2. k \in DOMAIN queue[s] /\ queue[s][k].bar
                BY <3>2, <3>3, <4>1, LenIs
            <4>3. BarrierQueued(queue)
                BY <4>2 DEF BarrierQueued, Barriers
            <4> QED
                BY <1>3, <2>3, <4>3
        <3> QED
            BY <3>5, <3>6
    <2> QED
        BY <2>5, <2>6
<1>5. CASE FlushStep
    <2>1. pending' = pending /\ ~AddFragment /\ ~Tick
        BY <1>5 DEF FlushStep, FlushUntilStamp, FlushUntilTime, FlushCompletely, Flush,
                    AddFragment, Tick, Idle
    <2>2. queue' = queue \/ \E cut \in Cuts : Removes(cut)
        BY <1>1, <2>1, QueueKinds DEF RecordsTyped
    <2> QED
        BY <1>2, <1>3, <2>1, <2>2, BarriersLeft
<1>6. ASSUME GenerateBarrier PROVE FALSE
    <2> DEFINE rest == [s \in Sources |-> IF s \in AtFront(queue) THEN Tail(queue[s])
                                          ELSE queue[s]]
    <2>1. /\ queue' = rest
          /\ past' = past \cup ({"barrier"} \cup
                                IF BarrierQueued(rest) THEN {"leftover"} ELSE {})
        BY <1>6 DEF GenerateBarrier, Note
    <2> HIDE DEF rest
    <2> QED
        BY <1>2, <2>1
<1>7. CASE BarrierStep
    <2>1. CASE CheckBarrier
        BY <1>2, <1>3, <1>6, <2>1 DEF CheckBarrier
    <2>2. CASE AbortBarrier
        BY <1>6, <2>2 DEF AbortBarrier
    <2>3. CASE \E s \in Sources : Stall(s)
        BY <1>2, <1>3, <1>6, <2>3 DEF Stall
    <2> QED
        BY <1>7, <2>1, <2>2, <2>3 DEF BarrierStep
<1>8. CASE Reset
    <2>1. queue' = queue /\ (BarrierQueued(queue) => "leftover" \in past')
        BY <1>8 DEF Reset, Note
    <2> QED
        BY <1>2, <2>1
<1>9. CASE Tick
    <2>1. pending' = pending
        BY <1>9 DEF Tick
    <2>2. PICK s \in Sources : \E i \in DOMAIN queue'[s] : queue'[s][i].bar
        BY <1>2 DEF BarrierQueued, Barriers
    <2>3. /\ queue'[s] \in Seq(Frags) /\ Len(queue'[s]) = Len(queue[s])
          /\ \A i \in 1 .. Len(queue[s]) : queue'[s][i].bar = queue[s][i].bar
        BY <1>9, TickIs
    <2>4. DOMAIN queue'[s] = 1 .. Len(queue[s]) /\ DOMAIN queue[s] = 1 .. Len(queue[s])
        BY <2>3, LenIs
    <2>5. BarrierQueued(queue)
        BY <2>2, <2>3, <2>4 DEF BarrierQueued, Barriers
    <2> QED
        BY <1>3, <2>1, <2>5
<1>10. CASE UNCHANGED <<queue, pending>>
    BY <1>2, <1>3, <1>10
<1>11. CASE Talk /\ ~Reset
    <2>1. UNCHANGED <<queue, pending>>
        BY <1>11 DEF Talk, Accept, Connect, Disconnect, StallForming, EndFragments, EndPoll,
                IdlePoll, FlushQueues, HandleFragments, TryRead
    <2> QED
        BY <1>10, <2>1
<1> QED
    BY <1>4, <1>5, <1>7, <1>8, <1>9, <1>10, <1>11, Steps4 DEF vars

-----------------------------------------------------------------------------
(* What is handed over. *)

\* Nothing is taken off unless that is noted.
Nothing(cut, event) == (\A s \in Sources : cut[s] = 0) \/ event \in past'

\* Who hands fragments over, and what is noted of it.
LEMMA FlushKinds ==
    ASSUME QueuesTyped, QueuesSorted, known \in SUBSET Sources, FlushStep
    PROVE  \E cut \in Cuts :
             \/ /\ FlushUntilStamp /\ cut = StampCut /\ Flush(cut) /\ past' = past
             \/ /\ FlushUntilTime /\ cut = TimeCut /\ Flush(cut)
                /\ Nothing(cut, "window")
             \/ /\ MoveOut(FirstCut, cut, Late(FirstCut)) /\ popped' = Popped(FirstCut)
                /\ Nothing(cut, "flush")
<1>1. StampCut \in Cuts /\ TimeCut \in Cuts /\ WholeCut \in Cuts
    BY CutsAre
<1>2. CASE FlushUntilStamp
    BY <1>1, <1>2 DEF FlushUntilStamp
<1>3. CASE FlushUntilTime
    <2>1. Flush(TimeCut) /\ (Dequeued(TimeCut) = {} \/ "window" \in past')
        BY <1>3 DEF FlushUntilTime, Note
    <2>2. Dequeued(TimeCut) = {} => \A s \in Sources : TimeCut[s] = 0
        <3>1. \A s \in Sources : TimeCut[s] \in Nat
            BY <1>1 DEF Cuts
        <3> QED
            BY <3>1 DEF Dequeued
    <2> QED
        BY <1>1, <1>3, <2>1, <2>2 DEF Nothing
<1>4. CASE FlushCompletely
    <2>1. MoveOut(FirstCut, WholeCut, Late(FirstCut)) /\ popped' = Popped(FirstCut)
        BY <1>4, CompletelyIs
    <2>2. (\A s \in Sources : queue[s] = <<>>) \/ "flush" \in past'
        BY <1>4 DEF FlushCompletely, Note
    <2>3. (\A s \in Sources : queue[s] = <<>>) => \A s \in Sources : WholeCut[s] = 0
        BY DEF WholeCut
    <2> QED
        BY <1>1, <1>4, <2>1, <2>2, <2>3 DEF Nothing
<1> QED
    BY <1>2, <1>3, <1>4 DEF FlushStep

\* What a batch shows of the output.
LEMMA OutcomeIs ==
    ASSUME QueuesTyped, NEW first, NEW cut \in Cuts, NEW late,
           MoveOut(first, cut, late), NEW o, o \in outcome', o \notin outcome
    PROVE  \E s \in Sources : \E i \in 1 .. cut[s] :
             \/ o = "backward" /\ queue[s][i].ts < top
             \/ o = "unnoticed" /\ queue[s][i].ts < top /\ queue[s][i].src \notin late
             \/ o = "mixed" /\ queue[s][i].bar
<1> DEFINE out(s) == {queue[s][i] : i \in 1 .. cut[s]}
           data == UNION {out(s) : s \in Sources}
           back == {e \in data : e.ts < top}
<1>1. outcome' = outcome \cup {oo \in Outcomes :
             \/ oo = "backward" /\ back # {}
             \/ oo = "unnoticed" /\ \E e \in back : e.src \notin late
             \/ oo = "mixed" /\ \E e \in data : e.bar}
    BY DEF MoveOut
<1>2. \A e \in data : \E s \in Sources : \E i \in 1 .. cut[s] : e = queue[s][i]
    OBVIOUS
<1>3. \/ o = "backward" /\ back # {}
      \/ o = "unnoticed" /\ \E e \in back : e.src \notin late
      \/ o = "mixed" /\ \E e \in data : e.bar
    BY <1>1
<1>4. \E e \in data : \/ o = "backward" /\ e.ts < top
                      \/ o = "unnoticed" /\ e.ts < top /\ e.src \notin late
                      \/ o = "mixed" /\ e.bar
    <2> HIDE DEF data
    <2> QED
        BY <1>3
<1> HIDE DEF data, back
<1> QED
    BY <1>2, <1>4

\* While nothing is left over, barriers are not taken along with the data.
LEMMA StampCutClean ==
    ASSUME QueuesTyped, QueuesSorted, known \in SUBSET Sources, PendingKnown,
           "leftover" \notin past, NEW s \in Sources, NEW i \in 1 .. StampCut[s]
    PROVE  ~queue[s][i].bar
<1>1. queue[s] \in Seq(Frags) /\ StampMark \in Nat
    BY LenIs, StampMarkIs DEF QueuesTyped
<1>2. StampCut[s] = CutAtStamp(queue[s], StampMark)
    BY DEF StampCut
<1>3. /\ StampCut[s] \in 0 .. Len(queue[s])
      /\ pending => \A k \in 1 .. StampCut[s] : ~queue[s][k].bar
    BY <1>1, <1>2, SortedIs, CutAtStampIs
<1>4. ~pending => Barriers(queue[s]) = {}
    BY DEF PendingKnown, BarrierQueued
<1>5. i \in DOMAIN queue[s]
    BY <1>3, LenIs
<1> QED
    BY <1>3, <1>4, <1>5 DEF Barriers

\* The build window takes no barriers along.
LEMMA TimeCutClean ==
    ASSUME QueuesTyped, NEW s \in Sources, NEW i \in 1 .. TimeCut[s]
    PROVE  ~queue[s][i].bar
<1>1. queue[s] \in Seq(Frags)
    BY LenIs
<1>2. TimeCut[s] = CutAtTime(queue[s])
    BY DEF TimeCut
<1> QED
    BY <1>1, <1>2, CutAtTimeIs

\* What handles no batch leaves the marks and the outcome; only Reset moves the mark back.
LEMMA MarksKept ==
    ASSUME [Next]_vars, ~FlushStep
    PROVE  /\ top' = top /\ outcome' = outcome
           /\ popped' = popped \/ past' \cap {"flush", "reset"} # {}
<1> USE DEF queues, sourcesState, ghosts, Command, Begin
<1>1. ASSUME GenerateBarrier PROVE top' = top /\ popped' = popped
    BY <1>1 DEF GenerateBarrier
<1>2. CASE CheckBarrier
    BY <1>1, <1>2 DEF CheckBarrier
<1>3. CASE AbortBarrier
    BY <1>1, <1>3 DEF AbortBarrier
<1>4. CASE \E s \in Sources : Stall(s)
    BY <1>1, <1>4 DEF Stall
<1>5. CASE Reset
    BY <1>5 DEF Reset, Note
<1>6. CASE Talk /\ ~Reset
    BY <1>6 DEF Talk, Accept, Connect, Disconnect, StallForming, EndFragments, EndPoll,
                IdlePoll,
                FlushQueues, HandleFragments, TryRead, AddFragments
<1>7. CASE AddFragment \/ Tick \/ UNCHANGED vars
    BY <1>7 DEF AddFragment, Tick, vars
<1> QED
    BY <1>2, <1>3, <1>4, <1>5, <1>6, <1>7, Steps4 DEF BarrierStep

\* The mark of what was handed over stays a true one.
LEMMA PoppedStep ==
    ASSUME QueuesTyped, QueuesSorted, known \in SUBSET Sources, top \in Times, popped \in Times,
           past \subseteq past', PoppedKnown, [Next]_vars
    PROVE  PoppedKnown'
<1>1. CASE ~FlushStep
    BY <1>1, MarksKept DEF PoppedKnown
<1>2. CASE FlushStep
    <2>1. SUFFICES ASSUME past' \cap {"flush", "reset"} = {} PROVE top' <= popped'
        BY DEF PoppedKnown
    <2>2. top <= popped
        BY <2>1 DEF PoppedKnown
    <2>3. PICK cut \in Cuts :
             \/ Flush(cut)
             \/ /\ MoveOut(FirstCut, cut, Late(FirstCut))
                /\ popped' = Popped(FirstCut) /\ Nothing(cut, "flush")
        BY <1>2, FlushKinds
    <2>4. CASE Flush(cut)
        <3>1. MoveOut(cut, cut, Late(cut)) /\ popped' = Popped(cut)
            BY <2>4 DEF Flush
        <3>2. /\ top' \in Times
              /\ \/ top' = top
                 \/ \E s \in Sources : \E i \in 1 .. cut[s] : top' = queue[s][i].ts
            BY <3>1, TopIs
        <3>3. /\ popped' \in Times /\ popped <= popped'
              /\ \A s \in Sources : cut[s] > 0 => queue[s][cut[s]].ts <= popped'
            BY <3>1, PoppedIs
        <3>4. top \in Nat /\ popped \in Nat /\ popped' \in Nat
            BY <3>3, NeverIs DEF Times
        <3>5. CASE top' = top
            BY <2>2, <3>3, <3>4, <3>5
        <3>6. ASSUME NEW s \in Sources, NEW i \in 1 .. cut[s], top' = queue[s][i].ts
              PROVE  top' <= popped'
            <4>1. PICK n \in Nat : n = Len(queue[s])
                BY LenIs
            <4>2. PICK c \in 0 .. n : c = cut[s]
                BY <4>1 DEF Cuts
            <4>3. c > 0 /\ i \in 1 .. n /\ c \in 1 .. n /\ (i = c \/ i < c)
                BY <3>6, <4>2
            <4>4. queue[s][i].ts \in Nat /\ queue[s][c].ts \in Nat
                BY <4>1, <4>3, LenIs, FragIs
            <4>5. queue[s][c].ts <= popped'
                BY <3>3, <4>2, <4>3
            <4>6. queue[s][i].ts <= queue[s][c].ts
                <5>1. i < c => queue[s][i].ts <= queue[s][c].ts
                    BY <4>1, <4>3, SortedIs
                <5> QED
                    BY <4>3, <4>4, <5>1
            <4> QED
                BY <3>4, <3>6, <4>4, <4>5, <4>6
        <3> QED
            BY <3>2, <3>5, <3>6
    <2>5. CASE /\ MoveOut(FirstCut, cut, Late(FirstCut)) /\ popped' = Popped(FirstCut)
             /\ Nothing(cut, "flush")
        <3>1. \A s \in Sources : cut[s] = 0
            BY <2>1, <2>5 DEF Nothing
        <3>2. \A s \in Sources : 1 .. cut[s] = {}
            BY <3>1
        <3>3. top' = top
            BY <2>5, <3>2, TopIs
        <3>4. popped' \in Times /\ popped <= popped'
            BY <2>5, CutsAre, PoppedIs
        <3>5. top \in Nat /\ popped \in Nat /\ popped' \in Nat
            BY <3>4, NeverIs DEF Times
        <3> QED
            BY <2>2, <3>3, <3>4, <3>5
    <2> QED
        BY <2>3, <2>4, <2>5
<1> QED
    BY <1>1, <1>2

\* A fragment behind the mark is noticed at the front of its list.
LEMMA NoticedStep ==
    ASSUME QueuesTyped, QueuesSorted, Own, known \in SUBSET Sources, top \in Times,
           popped \in Times, past \subseteq past', PoppedKnown, LateNoticed, [Next]_vars
    PROVE  LateNoticed'
<1>1. SUFFICES ASSUME "unnoticed" \in outcome', past' \cap {"flush", "reset"} = {} PROVE FALSE
    BY DEF LateNoticed
<1>2. "unnoticed" \notin outcome /\ top <= popped
    BY <1>1 DEF LateNoticed, PoppedKnown
<1>3. FlushStep
    BY <1>1, <1>2, MarksKept
<1>4. PICK cut \in Cuts :
             \/ Flush(cut)
             \/ /\ MoveOut(FirstCut, cut, Late(FirstCut))
                /\ popped' = Popped(FirstCut) /\ Nothing(cut, "flush")
    BY <1>3, FlushKinds
<1>5. CASE Flush(cut)
    <2>1. MoveOut(cut, cut, Late(cut))
        BY <1>5 DEF Flush
    <2>2. PICK s \in Sources : \E i \in 1 .. cut[s] :
               queue[s][i].ts < top /\ queue[s][i].src \notin Late(cut)
        BY <1>1, <1>2, <2>1, OutcomeIs
    <2>3. PICK i \in 1 .. cut[s] :
               queue[s][i].ts < top /\ queue[s][i].src \notin Late(cut)
        BY <2>2
    <2>4. PICK n \in Nat : n = Len(queue[s])
        BY LenIs
    <2>5. PICK c \in 0 .. n : c = cut[s]
        BY <2>4 DEF Cuts
    <2>6. cut[s] > 0 /\ i \in 1 .. n /\ 1 \in 1 .. n /\ (i = 1 \/ 1 < i)
        BY <2>3, <2>5
    <2>7. queue[s][1].ts \in Nat /\ queue[s][i].ts \in Nat /\ queue[s][i].src = s
        BY <2>4, <2>6, LenIs, FragIs DEF Own
    <2>8. ~(queue[s][1].ts < popped)
        BY <2>3, <2>6, <2>7 DEF Late, Dequeued
    <2>9. queue[s][1].ts <= queue[s][i].ts
        <3>1. 1 < i => queue[s][1].ts <= queue[s][i].ts
            BY <2>4, <2>6, SortedIs
        <3> QED
            BY <2>6, <2>7, <3>1
    <2>10. top \in Nat /\ popped \in Nat
        BY NeverIs DEF Times
    <2> QED
        BY <1>2, <2>3, <2>7, <2>8, <2>9, <2>10
<1>6. CASE /\ MoveOut(FirstCut, cut, Late(FirstCut)) /\ popped' = Popped(FirstCut)
             /\ Nothing(cut, "flush")
    <2>1. \A s \in Sources : 1 .. cut[s] = {}
        BY <1>1, <1>6 DEF Nothing
    <2> QED
        BY <1>1, <1>2, <1>6, <2>1, OutcomeIs
<1> QED
    BY <1>4, <1>5, <1>6

\* Barriers stay out of the data.
LEMMA ApartStep ==
    ASSUME QueuesTyped, QueuesSorted, known \in SUBSET Sources,
           past \subseteq past', PendingKnown, BarriersApart, [Next]_vars
    PROVE  BarriersApart'
<1>1. SUFFICES ASSUME "mixed" \in outcome', past' \cap {"leftover", "flush"} = {} PROVE FALSE
    BY DEF BarriersApart
<1>2. "mixed" \notin outcome /\ "leftover" \notin past
    BY <1>1 DEF BarriersApart
<1>3. FlushStep
    BY <1>1, <1>2, MarksKept
<1>4. PICK cut \in Cuts :
             \/ Flush(cut) /\ (cut = StampCut \/ cut = TimeCut)
             \/ MoveOut(FirstCut, cut, Late(FirstCut)) /\ Nothing(cut, "flush")
    BY <1>3, FlushKinds
<1>5. PICK first, late : MoveOut(first, cut, late)
    BY <1>4 DEF Flush
<1>6. PICK s \in Sources : \E i \in 1 .. cut[s] : queue[s][i].bar
    BY <1>1, <1>2, <1>5, OutcomeIs
<1>7. 1 .. cut[s] # {}
    BY <1>6
<1>8. cut = StampCut \/ cut = TimeCut
    BY <1>1, <1>4, <1>7 DEF Nothing
<1> QED
    BY <1>2, <1>6, <1>8, StampCutClean, TimeCutClean

-----------------------------------------------------------------------------
(* The order of the batches. *)

Calm == unruly = {} /\ past \cap Disorders = {}
LeftoverNoted == "leftover" \in past => past \cap {"barrier", "reset"} # {}
\* Ahead, of one source.
AheadOf(s) ==
    /\ (\A i \in 1 .. Len(queue[s]) : ~queue[s][i].bar) => top <= highest[s]
    /\ \A i \in 1 .. Len(queue[s]) :
          (\A j \in 1 .. i : ~queue[s][j].bar) => top <= queue[s][i].ts

\* A queue without barriers, and its front.
LEMMA BarsAre ==
    ASSUME NEW q \in Seq(Frags)
    PROVE  /\ DOMAIN q = 1 .. Len(q)
           /\ Barriers(q) = {} <=> \A i \in 1 .. Len(q) : ~q[i].bar
           /\ \A i \in 1 .. Len(q) :
                Barriers(q) \cap 1 .. i = {} <=> \A j \in 1 .. i : ~q[j].bar
<1>1. PICK n \in Nat : n = Len(q) /\ DOMAIN q = 1 .. n
    OBVIOUS
<1>2. Barriers(q) = {i \in 1 .. n : q[i].bar}
    BY <1>1 DEF Barriers
<1>3. Barriers(q) = {} <=> \A i \in 1 .. n : ~q[i].bar
    BY <1>2
<1>4. ASSUME NEW i \in 1 .. n
      PROVE  Barriers(q) \cap 1 .. i = {} <=> \A j \in 1 .. i : ~q[j].bar
    <2>1. \A j \in 1 .. i : j \in 1 .. n
        OBVIOUS
    <2>2. \A j \in 1 .. i : j \in Barriers(q) <=> q[j].bar
        BY <1>2, <2>1
    <2> QED
        BY <2>2
<1> QED
    BY <1>1, <1>3, <1>4

\* Ahead of sources with these queues, largest timestamps and mark.
AheadWith(k, qs, h, t) == \A s \in k :
    /\ Barriers(qs[s]) = {} => t <= h[s]
    /\ \A i \in DOMAIN qs[s] : Barriers(qs[s]) \cap 1 .. i = {} => t <= qs[s][i].ts
AheadEach(k, qs, h, t) == \A s \in k :
    /\ (\A i \in 1 .. Len(qs[s]) : ~qs[s][i].bar) => t <= h[s]
    /\ \A i \in 1 .. Len(qs[s]) : (\A j \in 1 .. i : ~qs[s][j].bar) => t <= qs[s][i].ts

\* They are the same.
LEMMA AheadSame ==
    ASSUME NEW k \in SUBSET Sources, NEW qs \in [Sources -> Seq(Frags)], NEW h, NEW t
    PROVE  AheadWith(k, qs, h, t) <=> AheadEach(k, qs, h, t)
<1>1. ASSUME NEW s \in k
      PROVE  ( /\ Barriers(qs[s]) = {} => t <= h[s]
               /\ \A i \in DOMAIN qs[s] : Barriers(qs[s]) \cap 1 .. i = {} => t <= qs[s][i].ts )
             <=>
             ( /\ (\A i \in 1 .. Len(qs[s]) : ~qs[s][i].bar) => t <= h[s]
               /\ \A i \in 1 .. Len(qs[s]) :
                      (\A j \in 1 .. i : ~qs[s][j].bar) => t <= qs[s][i].ts )
    <2>1. PICK q \in Seq(Frags) : q = qs[s]
        OBVIOUS
    <2> QED
        BY <2>1, BarsAre
<1> QED
    BY <1>1, Zenon DEF AheadWith, AheadEach

\* Ahead, source by source.
LEMMA AheadIs ==
    ASSUME QueuesTyped, known \in SUBSET Sources
    PROVE  Ahead <=> LeftoverNoted /\ (Calm => \A s \in known : AheadOf(s))
<1>1. Ahead <=> LeftoverNoted /\ (Calm => AheadWith(known, queue, highest, top))
    BY Zenon DEF Ahead, LeftoverNoted, Calm, AheadWith
<1>2. AheadEach(known, queue, highest, top) <=> \A s \in known : AheadOf(s)
    BY Zenon DEF AheadEach, AheadOf
<1> QED
    BY <1>1, <1>2, AheadSame DEF QueuesTyped

\* Taking all up to the earliest of the last stamps leaves nothing older behind.
LEMMA AheadFlush ==
    ASSUME QueuesTyped, QueuesSorted, known \in SUBSET Sources, PendingKnown,
           "leftover" \notin past, NoEmptyQueue, NEW first, NEW late,
           MoveOut(first, StampCut, late),
           top \in Times, highest \in [Sources -> Times], highest' = highest,
           NEW s \in known, QueueOk(s), AheadOf(s)
    PROVE  AheadOf(s)'
<1>1. StampCut \in Cuts /\ s \in Sources
    BY CutsAre
<1>2. PICK n \in Nat : n = Len(queue[s])
    BY <1>1, LenIs
<1>3. PICK c \in 0 .. n : c = StampCut[s]
    BY <1>1, <1>2 DEF Cuts
<1>4. Len(queue'[s]) = n - c /\ \A i \in 1 .. n - c : queue'[s][i] = queue[s][c + i]
    BY <1>1, <1>2, <1>3, MoveOutRemoves, RemovesIs
<1>5. \A i \in 1 .. n : queue[s][i].ts \in Nat /\ queue[s][i].ts <= highest[s]
    BY <1>1, <1>2, LenIs, FragIs DEF QueueOk
<1>6. top \in Nat /\ highest[s] \in Nat /\ top' \in Nat
    BY <1>1, TopIs, NeverIs DEF Times
<1>7. PICK mark \in Nat : mark = StampMark
    BY StampMarkIs DEF QueuesTyped
<1>8. top' = top \/ top' <= mark
    <2>1. SUFFICES ASSUME NEW r \in Sources, NEW i \in 1 .. StampCut[r], top' = queue[r][i].ts
                   PROVE  top' <= mark
        BY <1>1, TopIs
    <2>2. queue[r] \in Seq(Frags) /\ StampCut[r] = CutAtStamp(queue[r], mark)
        BY <1>7, LenIs DEF StampCut
    <2>3. \A k \in 1 .. StampCut[r] : queue[r][k].ts <= mark
        BY <2>2, SortedIs, CutAtStampIs
    <2> QED
        BY <2>1, <2>3
<1>9. \A i \in 1 .. c : ~queue[s][i].bar
    BY <1>1, <1>3, StampCutClean
<1>10. ASSUME NEW i \in 0 .. n - c, \A j \in 1 .. i : ~queue'[s][j].bar
      PROVE  \A j \in 1 .. c + i : ~queue[s][j].bar
    <2> TAKE j \in 1 .. c + i
    <2>1. CASE j <= c
        BY <1>9, <2>1
    <2>2. CASE j > c
        <3>1. PICK k \in 1 .. i : j = c + k
            <4>1. j - c \in 1 .. i /\ j = c + (j - c)
                BY <2>2
            <4> QED
                BY <4>1
        <3>2. k \in 1 .. n - c
            OBVIOUS
        <3> QED
            BY <1>4, <1>10, <3>1, <3>2
    <2> QED
        BY <2>1, <2>2
<1>11. ASSUME \A i \in 1 .. n - c : ~queue'[s][i].bar PROVE top' <= highest'[s]
    <2>1. n - c \in 0 .. n - c /\ c + (n - c) = n
        OBVIOUS
    <2>2. \A j \in 1 .. n : ~queue[s][j].bar
        BY <1>10, <1>11, <2>1
    <2>3. top <= highest[s]
        BY <1>2, <2>2 DEF AheadOf
    <2>4. queue[s] # <<>> /\ queue[s] \in Seq(Frags)
        BY <1>1, LenIs DEF NoEmptyQueue
    <2>5. n \in 1 .. n
        BY <1>2, <2>4, EmptySeq
    <2>6. Barriers(queue[s]) = {}
        BY <1>1, <1>2, <2>2, LenIs DEF Barriers
    <2>7. mark <= queue[s][n].ts
        BY <1>2, <1>7, <2>4, <2>6, StampMarkIs DEF QueuesTyped
    <2>8. mark <= highest[s]
        BY <1>5, <1>6, <2>5, <2>7
    <2> QED
        BY <1>6, <1>8, <2>3, <2>8
<1>12. ASSUME NEW i \in 1 .. n - c, \A j \in 1 .. i : ~queue'[s][j].bar
       PROVE  top' <= queue'[s][i].ts
    <2>1. \A j \in 1 .. c + i : ~queue[s][j].bar
        BY <1>10, <1>12
    <2>2. c + i \in 1 .. n /\ c + i \in c + 1 .. n
        OBVIOUS
    <2>3. top <= queue[s][c + i].ts
        BY <1>2, <2>1, <2>2 DEF AheadOf
    <2>4. mark < queue[s][c + i].ts
        <3>1. queue[s] \in Seq(Frags) /\ c = CutAtStamp(queue[s], mark)
            BY <1>1, <1>3, <1>7, LenIs DEF StampCut
        <3>2. \/ mark < queue[s][c + i].ts
              \/ \E j \in c + 1 .. c + i : queue[s][j].bar
            BY <1>1, <1>2, <2>2, <3>1, SortedIs, CutAtStampIs
        <3>3. \A j \in c + 1 .. c + i : j \in 1 .. c + i
            OBVIOUS
        <3> QED
            BY <2>1, <3>2, <3>3
    <2>5. queue'[s][i].ts = queue[s][c + i].ts /\ queue[s][c + i].ts \in Nat
        BY <1>4, <1>5, <2>2
    <2> QED
        BY <1>6, <1>8, <2>3, <2>4, <2>5
<1> QED
    BY <1>4, <1>11, <1>12 DEF AheadOf

\* A fragment that is not older than one before it goes to the end of its queue.
LEMMA AheadAdd ==
    ASSUME QueuesTyped, NEW ts \in Times, NEW bar \in BOOLEAN, NEW q \in Seq(Frags),
           sender \in Sources, NEW p \in 0 .. Len(queue[sender]), Added(ts, bar, q, p),
           highest \in [Sources -> Times], top \in Times, top' = top, unruly' = {},
           NEW s \in Sources, QueueOk(s), AheadOf(s)
    PROVE  AheadOf(s)'
<1>1. CASE s # sender
    <2>1. queue'[s] = queue[s] /\ highest'[s] = highest[s]
        BY <1>1 DEF Added, QueuesTyped
    <2> QED
        BY <2>1 DEF AheadOf
<1>2. CASE s = sender
    <2>1. PICK n \in Nat : n = Len(queue[s])
        BY LenIs
    <2>2. /\ queue'[s] = q /\ Len(q) = n + 1 /\ highest'[s] = Max({ts, highest[s]})
          /\ ~(ts < highest[s]) /\ p \in 0 .. n
        BY <1>2, <2>1 DEF Added, QueuesTyped
    <2>3. highest[s] \in Times
        OBVIOUS
    <2>4. highest'[s] \in Nat /\ highest[s] <= highest'[s]
        <3>1. highest'[s] \in Times
            BY <2>2, <2>3, LaterIs
        <3> QED
            BY <2>2, <2>3, <3>1, LaterIs, NeverIs DEF Times
    <2>5. ts \in Nat /\ highest[s] \in Nat /\ top \in Nat
        BY <2>3, NeverIs DEF Times
    <2>6. p = n
        <3>1. SUFFICES ASSUME p < n PROVE FALSE
            BY <2>2
        <3>2. p + 1 \in 1 .. n /\ p + 1 \in p + 1 .. n
            BY <2>2, <3>1
        <3>3. ts < queue[s][p + 1].ts
            BY <1>2, <2>1, <3>2 DEF Added
        <3>4. queue[s][p + 1].ts <= highest[s] /\ queue[s][p + 1].ts \in Nat
            BY <2>1, <3>2, LenIs, FragIs DEF QueueOk
        <3> QED
            BY <2>2, <2>5, <3>3, <3>4
    <2>7. (\A i \in 1 .. n : q[i] = queue[s][i]) /\ q[n + 1].ts = ts
        <3> DEFINE e == [src |-> s, id |-> got[s] + 1, ts |-> ts, bar |-> bar, age |-> 0]
        <3>1. \A i \in 1 .. n + 1 :
                 q[i] = IF i <= n THEN queue[s][i] ELSE IF i = n + 1 THEN e ELSE queue[s][i - 1]
            BY <1>2, <2>2, <2>6 DEF Added
        <3>2. q[n + 1] = e
            BY <3>1
        <3>3. \A i \in 1 .. n : q[i] = queue[s][i]
            BY <3>1
        <3> QED
            BY <3>2, <3>3
    <2>8. ASSUME \A i \in 1 .. n + 1 : ~q[i].bar
          PROVE  top <= highest[s]
        <3>1. \A i \in 1 .. n : ~queue[s][i].bar
            <4>1. \A i \in 1 .. n : i \in 1 .. n + 1
                OBVIOUS
            <4> QED
                BY <2>7, <2>8, <4>1
        <3> QED
            BY <2>1, <3>1 DEF AheadOf
    <2>9. (\A i \in 1 .. n + 1 : ~q[i].bar) => top <= highest'[s]
        BY <2>4, <2>5, <2>8
    <2>10. ASSUME NEW i \in 1 .. n + 1, \A j \in 1 .. i : ~q[j].bar PROVE top <= q[i].ts
        <3>1. CASE i = n + 1
            <4>1. top <= highest[s]
                BY <2>8, <2>10, <3>1
            <4> QED
                BY <2>2, <2>5, <2>7, <3>1, <4>1
        <3>2. CASE i \in 1 .. n
            <4>1. \A j \in 1 .. i : j \in 1 .. n
                BY <3>2
            <4>2. \A j \in 1 .. i : ~queue[s][j].bar
                BY <2>7, <2>10, <4>1
            <4>3. top <= queue[s][i].ts
                BY <2>1, <3>2, <4>2 DEF AheadOf
            <4> QED
                BY <2>7, <3>2, <4>3
        <3> QED
            BY <3>1, <3>2
    <2> QED
        BY <2>2, <2>9, <2>10 DEF AheadOf
<1> QED
    BY <1>1, <1>2

\* What a step may note.
LEMMA NotesAre ==
    ASSUME [Next]_vars
    PROVE  \/ past' = past
           \/ past' \cap {"barrier", "reset"} # {}
           \/ FlushStep /\ past' \subseteq past \cup {"window", "flush"}
           \/ \E s \in Sources : Connect(s) /\ past' \subseteq past \cup {"newSource"}
<1> USE DEF queues, sourcesState, ghosts, Command, Begin
<1>1. ASSUME GenerateBarrier PROVE past' \cap {"barrier", "reset"} # {}
    BY <1>1 DEF GenerateBarrier, Note
<1>2. CASE CheckBarrier
    BY <1>1, <1>2 DEF CheckBarrier
<1>3. CASE AbortBarrier
    BY <1>1, <1>3 DEF AbortBarrier
<1>4. CASE \E s \in Sources : Stall(s)
    BY <1>1, <1>4 DEF Stall
<1>5. CASE Reset
    BY <1>5 DEF Reset, Note
<1>6. CASE FlushStep
    BY <1>6 DEF FlushStep, FlushUntilStamp, FlushUntilTime, FlushCompletely, Note
<1>7. CASE \E s \in Sources : Connect(s)
    BY <1>7 DEF Connect, Note
<1>8. CASE \/ \E s \in Sources : Accept(s) \/ Disconnect(s) \/ HandleFragments(s) \/ TryRead(s)
                                 \/ StallForming(s)
           \/ EndFragments \/ EndPoll \/ IdlePoll \/ FlushQueues
    BY <1>8 DEF Accept, Disconnect, StallForming, EndFragments, EndPoll, IdlePoll,
                FlushQueues, HandleFragments, TryRead, AddFragments
<1>9. CASE AddFragment \/ Tick \/ UNCHANGED vars
    BY <1>9 DEF AddFragment, Tick, vars
<1> QED
    BY <1>2, <1>3, <1>4, <1>5, <1>6, <1>7, <1>8, <1>9, Steps4 DEF Talk, BarrierStep

\* The steps that leave queues, marks and what is known of them alone.
LEMMA QuietSteps ==
    ASSUME [Next]_vars
    PROVE  \/ AddFragment \/ FlushStep \/ Tick
           \/ past' \cap {"barrier", "reset"} # {}
           \/ /\ queue' = queue /\ highest' = highest /\ unruly' = unruly /\ top' = top
              /\ \/ known' = known
                 \/ \E s \in Sources : known' = known \cup {s} /\
                        (s \in known \/ top = 0 \/ "newSource" \in past')
<1> USE DEF queues, sourcesState, ghosts, Command, Begin
<1>1. ASSUME GenerateBarrier PROVE past' \cap {"barrier", "reset"} # {}
    BY <1>1 DEF GenerateBarrier, Note
<1>2. CASE CheckBarrier
    BY <1>1, <1>2 DEF CheckBarrier
<1>3. CASE AbortBarrier
    BY <1>1, <1>3 DEF AbortBarrier
<1>4. CASE \E s \in Sources : Stall(s)
    BY <1>1, <1>4 DEF Stall
<1>5. CASE Reset
    BY <1>5 DEF Reset, Note
<1>6. CASE \E s \in Sources : Connect(s)
    <2>1. PICK s \in Sources : Connect(s)
        BY <1>6
    <2>2. /\ queue' = queue /\ highest' = highest /\ unruly' = unruly /\ top' = top
          /\ known' = known \cup {s}
          /\ past' = past \cup IF s \in known \/ top = 0 THEN {} ELSE {"newSource"}
        BY <2>1 DEF Connect, Note
    <2> QED
        BY <2>2
<1>7. CASE \/ \E s \in Sources : Accept(s) \/ Disconnect(s) \/ HandleFragments(s) \/ TryRead(s)
                                 \/ StallForming(s)
           \/ EndFragments \/ EndPoll \/ IdlePoll \/ FlushQueues
    BY <1>7 DEF Accept, Disconnect, StallForming, EndFragments, EndPoll, IdlePoll,
                FlushQueues, HandleFragments, TryRead, AddFragments
<1>8. CASE UNCHANGED vars
    BY <1>8 DEF vars
<1> QED
    BY <1>2, <1>3, <1>4, <1>5, <1>6, <1>7, <1>8, Steps4 DEF Talk, BarrierStep

\* What a source once did wrong stays known.
LEMMA UnrulyGrows ==
    ASSUME QueuesTyped, RecordsTyped, \A s \in Sources : QueueOk(s), known \in SUBSET Sources,
           [Next]_vars
    PROVE  unruly \subseteq unruly'
<1>1. CASE AddFragment
    BY <1>1 DEF AddFragment, Add
<1>2. CASE Tick
    BY <1>2 DEF Tick, ghosts
<1> QED
    BY <1>1, <1>2, QueueKinds, QueueOkIs DEF RecordsTyped

\* A source without twins has no two fragments of the same age queued.
LEMMA TwinsStep ==
    ASSUME QueuesTyped, RecordsTyped, \A s \in Sources : QueueOk(s), known \in SUBSET Sources,
           sender \in Sources \/ step # "add", TwinsKnown, [Next]_vars
    PROVE  TwinsKnown'
<1> DEFINE Apart(q) == \A i, j \in 1 .. Len(q) : i < j => q[i].ts < q[j].ts
<1>1. \A s \in Sources : s \notin unruly \cup twins => Apart(queue[s])
    BY LenIs DEF TwinsKnown
<1>2. QueuesTyped'
    BY QueuesStep
<1>3. SUFFICES ASSUME NEW s \in Sources, s \notin unruly' \cup twins'
               PROVE  Apart(queue'[s])
    <2>1. \A s \in Sources : DOMAIN queue'[s] = 1 .. Len(queue'[s])
        BY <1>2 DEF QueuesTyped
    <2> QED
        BY <2>1 DEF TwinsKnown
<1>4. twins \subseteq twins'
    BY TwinsKept DEF AddFragment, Add
<1>5. s \notin unruly \cup twins
    BY <1>3, <1>4, UnrulyGrows
<1>6. PICK n \in Nat : n = Len(queue[s])
    BY LenIs
<1>7. \A i, j \in 1 .. n : i < j => queue[s][i].ts < queue[s][j].ts
    BY <1>1, <1>5, <1>6
<1>8. CASE AddFragment
    <2>1. sender \in Sources
        BY <1>8 DEF AddFragment
    <2>2. PICK ts \in Times, bar \in BOOLEAN, q \in Seq(Frags), p \in 0 .. Len(queue[sender]) :
              Added(ts, bar, q, p)
        BY <1>8, <2>1, AddIs, QueueOkIs DEF RecordsTyped
    <2>3. CASE s # sender
        <3>1. queue'[s] = queue[s]
            BY <2>2, <2>3 DEF Added, QueuesTyped
        <3> QED
            BY <1>1, <1>5, <3>1
    <2>4. CASE s = sender
        <3>1. /\ queue'[s] = q /\ Len(q) = n + 1 /\ p \in 0 .. n
              /\ \A i \in 1 .. n + 1 :
                    q[i].ts = IF i <= p THEN queue[s][i].ts ELSE IF i = p + 1 THEN ts
                              ELSE queue[s][i - 1].ts
              /\ \A i \in p + 1 .. n : ts < queue[s][i].ts
            BY <1>6, <2>1, <2>2, <2>4 DEF Added, QueuesTyped
        <3>2. ~(ts < highest[s]) /\ ~(ts = highest[s] /\ got[s] > 0)
            BY <1>3, <2>2, <2>4 DEF Added
        <3>3. highest[s] \in Nat /\ ts \in Nat /\ got[s] \in Nat
            BY NeverIs DEF RecordsTyped, Times
        <3>4. \A i \in 1 .. n : /\ queue[s][i].ts \in Nat /\ queue[s][i].ts <= highest[s]
                                /\ queue[s][i].id \in 1 .. got[s]
            BY <1>6, LenIs, FragIs DEF QueueOk
        <3>5. \A i \in 1 .. n : queue[s][i].ts < ts
            BY <3>2, <3>3, <3>4
        <3>6. p = n
            <4>1. ASSUME p # n PROVE FALSE
                <5>1. n \in p + 1 .. n /\ n \in 1 .. n
                    BY <3>1, <4>1
                <5>2. ts < queue[s][n].ts /\ queue[s][n].ts < ts
                    BY <3>1, <3>5, <5>1
                <5> QED
                    BY <3>3, <3>4, <5>1, <5>2
            <4> QED
                BY <4>1
        <3>7. q[n + 1].ts = ts /\ \A i \in 1 .. n : q[i].ts = queue[s][i].ts
            <4>1. n + 1 \in 1 .. n + 1 /\ \A i \in 1 .. n : i \in 1 .. n + 1 /\ i <= n
                OBVIOUS
            <4> QED
                BY <3>1, <3>6, <4>1
        <3>8. ASSUME NEW i \in 1 .. n + 1, NEW j \in 1 .. n + 1, i < j
              PROVE  q[i].ts < q[j].ts
            <4>1. i \in 1 .. n /\ (j = n + 1 \/ j \in 1 .. n)
                BY <3>8
            <4>2. CASE j = n + 1
                BY <3>5, <3>7, <4>1, <4>2
            <4>3. CASE j \in 1 .. n
                BY <1>7, <3>7, <3>8, <4>1, <4>3
            <4> QED
                BY <4>1, <4>2, <4>3
        <3> QED
            BY <3>1, <3>8
    <2> QED
        BY <2>3, <2>4
<1>9. ASSUME NEW cut \in Cuts, Removes(cut) PROVE Apart(queue'[s])
    <2>1. PICK c \in 0 .. n : c = cut[s]
        BY <1>6, <1>9, RemovesIs
    <2>2. Len(queue'[s]) = n - c /\ \A i \in 1 .. n - c : queue'[s][i] = queue[s][c + i]
        BY <1>6, <1>9, <2>1, RemovesIs
    <2>3. ASSUME NEW i \in 1 .. n - c, NEW j \in 1 .. n - c, i < j
          PROVE  queue'[s][i].ts < queue'[s][j].ts
        <3>1. c + i \in 1 .. n /\ c + j \in 1 .. n /\ c + i < c + j
            BY <2>3
        <3> QED
            BY <1>7, <2>2, <3>1
    <2> QED
        BY <2>2, <2>3
<1>10. CASE Tick
    <2>1. /\ Len(queue'[s]) = n
          /\ \A i \in 1 .. n : queue'[s][i].ts = queue[s][i].ts
        BY <1>6, <1>10, TickIs
    <2> QED
        BY <1>7, <2>1
<1>11. CASE queue' = queue
    BY <1>1, <1>5, <1>11
<1> QED
    BY <1>8, <1>9, <1>10, <1>11, QueueKinds, QueueOkIs DEF RecordsTyped

\* Nothing is handed over in FlushUntilTime and FlushCompletely without a note.
LEMMA CalmFlush ==
    ASSUME QueuesTyped, QueuesSorted, known \in SUBSET Sources, FlushStep,
           past' \cap Disorders = {}
    PROVE  \E first, late :
             \/ FlushUntilStamp /\ MoveOut(first, StampCut, late)
             \/ \E cut \in Cuts : MoveOut(first, cut, late) /\ \A s \in Sources : cut[s] = 0
<1>1. PICK cut \in Cuts :
          \/ FlushUntilStamp /\ cut = StampCut /\ Flush(cut)
          \/ Flush(cut) /\ Nothing(cut, "window")
          \/ MoveOut(FirstCut, cut, Late(FirstCut)) /\ Nothing(cut, "flush")
    BY FlushKinds
<1>2. "window" \notin past' /\ "flush" \notin past'
    BY DEF Disorders
<1> QED
    BY <1>1, <1>2 DEF Flush, Nothing

\* Nothing that stays or comes is older than what was handed over, without an excuse.
LEMMA AheadStep ==
    ASSUME QueuesTyped, RecordsTyped, \A s \in Sources : QueueOk(s), known \in SUBSET Sources,
           sender \in known \cup {Nobody}, sender = Nobody <=> step # "add",
           top \in Times, past \subseteq past', PendingKnown, Ahead,
           QueuesTyped', known' \in SUBSET Sources, [Next]_vars
    PROVE  Ahead'
<1>1. QueuesSorted /\ LeftoverNoted /\ (Calm => \A s \in known : AheadOf(s))
    BY QueueOkIs, AheadIs
<1>2. LeftoverNoted'
    BY <1>1, NotesAre DEF LeftoverNoted
<1>3. SUFFICES ASSUME Calm' PROVE \A s \in known' : AheadOf(s)'
    <2>1. Calm' => \A s \in known' : AheadOf(s)'
        BY <1>3
    <2>2. Ahead' <=> LeftoverNoted' /\ (Calm' => AheadWith(known', queue', highest', top'))
        BY Zenon DEF Ahead, LeftoverNoted, Calm, AheadWith
    <2>3. AheadEach(known', queue', highest', top') <=> \A s \in known' : AheadOf(s)'
        BY Zenon DEF AheadEach, AheadOf
    <2> QED
        BY <1>2, <2>1, <2>2, <2>3, AheadSame DEF QueuesTyped
<1>4. unruly' = {} /\ past' \cap Disorders = {} /\ past' \cap {"barrier", "reset"} = {}
    BY <1>3 DEF Calm, Disorders
<1>5. Calm /\ "leftover" \notin past
    BY <1>1, <1>4, UnrulyGrows DEF Calm, LeftoverNoted
<1>6. \A s \in known : AheadOf(s)
    BY <1>1, <1>5
<1>7. CASE AddFragment
    <2>1. sender \in Sources
        BY <1>7 DEF AddFragment
    <2>2. PICK ts \in Times, bar \in BOOLEAN, q \in Seq(Frags), p \in 0 .. Len(queue[sender]) :
              Added(ts, bar, q, p)
        BY <1>1, <1>7, <2>1, AddIs DEF RecordsTyped
    <2>3. top' = top /\ known' = known
        BY <1>7 DEF AddFragment
    <2> QED
        BY <1>4, <1>6, <2>1, <2>2, <2>3, AheadAdd DEF RecordsTyped
<1>8. CASE FlushStep
    <2>1. PICK first, late :
             \/ FlushUntilStamp /\ MoveOut(first, StampCut, late)
             \/ \E cut \in Cuts : MoveOut(first, cut, late) /\ \A s \in Sources : cut[s] = 0
        BY <1>1, <1>4, <1>8, CalmFlush
    <2>2. known' = known /\ highest' = highest
        BY <1>8 DEF FlushStep, FlushUntilStamp, FlushUntilTime, FlushCompletely, Flush
    <2>3. CASE FlushUntilStamp /\ MoveOut(first, StampCut, late)
        <3>1. NoEmptyQueue
            BY <2>3 DEF FlushUntilStamp
        <3> QED
            BY <1>1, <1>5, <1>6, <2>2, <2>3, <3>1, AheadFlush DEF RecordsTyped
    <2>4. CASE \E cut \in Cuts : MoveOut(first, cut, late) /\ \A s \in Sources : cut[s] = 0
        <3>1. PICK cut \in Cuts : MoveOut(first, cut, late) /\ \A s \in Sources : cut[s] = 0
            BY <2>4
        <3>2. \A s \in Sources : 1 .. cut[s] = {}
            BY <3>1
        <3>3. top' = top
            BY <3>1, <3>2, TopIs
        <3>4. ASSUME NEW s \in known PROVE AheadOf(s)'
            <4>1. PICK n \in Nat : n = Len(queue[s])
                BY LenIs
            <4>2. Len(queue'[s]) = n - 0 /\ \A i \in 1 .. n - 0 : queue'[s][i] = queue[s][0 + i]
                BY <3>1, <4>1, MoveOutRemoves, RemovesIs
            <4>3. Len(queue'[s]) = Len(queue[s])
                  /\ \A i \in 1 .. Len(queue[s]) : queue'[s][i] = queue[s][i]
                BY <4>1, <4>2
            <4>4. \A i \in 1 .. n : \A j \in 1 .. i : j \in 1 .. n
                OBVIOUS
            <4> QED
                BY <1>6, <2>2, <3>3, <4>1, <4>3, <4>4 DEF AheadOf
        <3> QED
            BY <2>2, <3>4
    <2> QED
        BY <2>1, <2>3, <2>4
<1>9. CASE Tick
    <2>1. known' = known /\ top' = top /\ highest' = highest
        BY <1>9 DEF Tick, ghosts
    <2>2. ASSUME NEW s \in known PROVE AheadOf(s)'
        <3>1. PICK n \in Nat : n = Len(queue[s])
            BY LenIs
        <3>2. /\ Len(queue'[s]) = n
              /\ \A i \in 1 .. n : queue'[s][i].ts = queue[s][i].ts
                                   /\ queue'[s][i].bar = queue[s][i].bar
            BY <1>9, <3>1, TickIs
        <3>3. \A i \in 1 .. n : \A j \in 1 .. i : j \in 1 .. n
            OBVIOUS
        <3> QED
            BY <1>6, <2>1, <3>1, <3>2, <3>3 DEF AheadOf
    <2> QED
        BY <2>1, <2>2
<1>10. CASE /\ queue' = queue /\ highest' = highest /\ unruly' = unruly /\ top' = top
           /\ \/ known' = known
              \/ \E s \in Sources : known' = known \cup {s} /\
                     (s \in known \/ top = 0 \/ "newSource" \in past')
    <2>1. SUFFICES ASSUME NEW s \in known' PROVE AheadOf(s)'
        OBVIOUS
    <2>2. CASE s \in known
        BY <1>6, <1>10, <2>2 DEF AheadOf
    <2>3. CASE s \notin known
        <3>1. top = 0 /\ s \in Sources
            BY <1>4, <1>10, <2>3 DEF Disorders
        <3>2. 0 <= highest[s] /\ \A i \in 1 .. Len(queue[s]) : 0 <= queue[s][i].ts
            <4>1. highest[s] \in Nat
                BY <3>1, NeverIs DEF RecordsTyped, Times
            <4>2. \A i \in 1 .. Len(queue[s]) : queue[s][i].ts \in Nat
                BY <3>1, LenIs, FragIs
            <4> QED
                BY <4>1, <4>2
        <3> QED
            BY <1>10, <3>1, <3>2 DEF AheadOf
    <2> QED
        BY <2>2, <2>3
<1> QED
    BY <1>4, <1>7, <1>8, <1>9, <1>10, QuietSteps

\* So no batch goes back.
LEMMA OrderStep ==
    ASSUME QueuesTyped, RecordsTyped, \A s \in Sources : QueueOk(s), known \in SUBSET Sources,
           \A s \in Sources : queue[s] # <<>> => s \in known,
           top \in Times, past \subseteq past', PendingKnown, Ahead, InOrder, [Next]_vars
    PROVE  InOrder'
<1>1. QueuesSorted /\ LeftoverNoted /\ (Calm => \A s \in known : AheadOf(s))
    BY QueueOkIs, AheadIs
<1>2. SUFFICES ASSUME "backward" \in outcome', unruly' = {}, past' \cap Disorders = {}
               PROVE  FALSE
    BY DEF InOrder
<1>3. Calm /\ "backward" \notin outcome
    BY <1>2, UnrulyGrows DEF Calm, InOrder
<1>4. "leftover" \notin past
    BY <1>1, <1>3 DEF Calm, LeftoverNoted, Disorders
<1>5. FlushStep
    BY <1>2, <1>3, MarksKept
<1>6. PICK first, late :
          \/ FlushUntilStamp /\ MoveOut(first, StampCut, late)
          \/ \E cut \in Cuts : MoveOut(first, cut, late) /\ \A s \in Sources : cut[s] = 0
    BY <1>1, <1>2, <1>5, CalmFlush
<1>7. CASE MoveOut(first, StampCut, late)
    <2>1. StampCut \in Cuts
        BY <1>1, CutsAre
    <2>2. PICK s \in Sources : \E i \in 1 .. StampCut[s] : queue[s][i].ts < top
        BY <1>2, <1>3, <1>7, <2>1, OutcomeIs
    <2>3. PICK i \in 1 .. StampCut[s] : queue[s][i].ts < top
        BY <2>2
    <2>4. PICK n \in Nat : n = Len(queue[s])
        BY LenIs
    <2>5. StampCut[s] \in 0 .. n
        BY <2>1, <2>4 DEF Cuts
    <2>6. i \in 1 .. n /\ \A j \in 1 .. i : j \in 1 .. StampCut[s]
        BY <2>5
    <2>7. s \in known
        <3>1. queue[s] # <<>>
            BY <2>4, <2>6
        <3> QED
            BY <3>1
    <2>8. \A j \in 1 .. i : ~queue[s][j].bar
        BY <1>1, <1>4, <2>6, StampCutClean
    <2>9. top <= queue[s][i].ts
        BY <1>1, <1>3, <2>4, <2>6, <2>7, <2>8 DEF AheadOf
    <2>10. top \in Nat /\ queue[s][i].ts \in Nat
        BY <2>4, <2>6, LenIs, FragIs, NeverIs DEF Times
    <2> QED
        BY <2>3, <2>9, <2>10
<1>8. CASE \E cut \in Cuts : MoveOut(first, cut, late) /\ \A s \in Sources : cut[s] = 0
    <2>1. PICK cut \in Cuts : MoveOut(first, cut, late) /\ \A s \in Sources : cut[s] = 0
        BY <1>8
    <2>2. \A s \in Sources : 1 .. cut[s] = {}
        BY <2>1
    <2> QED
        BY <1>2, <1>3, <2>1, <2>2, OutcomeIs
<1> QED
    BY <1>6, <1>7, <1>8

-----------------------------------------------------------------------------
(* Theorems. *)

\* HandlerInv, by what the lemmas speak of.
LEMMA InvIs ==
    HandlerInv <=> Basic /\ Belong /\ TwinsKnown /\ PendingKnown /\ PoppedKnown /\ Ahead
<1>1. ASSUME TypeOK
      PROVE  EachOnce /\ QueuesSorted /\ InSequence /\ QueuesOwn
                 <=> (\A s \in Sources : QueueOk(s)) /\ Belong
    <2>1. QueuesTyped
        BY <1>1, TypeIs
    <2>2. QueuesOwn <=> Belong /\ Own
        BY DEF QueuesOwn, Belong, Own
    <2> QED
        BY <2>1, <2>2, QueueOkIs
<1> QED
    BY <1>1 DEF HandlerInv, Basic

\* HandlerInv holds in the beginning.
LEMMA HandlerInit == ASSUME Init PROVE HandlerInv
<1>1. 0 \in Times /\ 0 \notin Sources
    BY NeverIs, HandlerAssumption DEF Times, Sources
<1>2. /\ queue = [s \in Sources |-> <<>>] /\ got = [s \in Sources |-> 0]
      /\ gone = [s \in Sources |-> {}] /\ highest = [s \in Sources |-> 0]
      /\ newest = [s \in Sources |-> 0] /\ top = 0 /\ popped = 0
      /\ known = {} /\ past = {} /\ tries = {} /\ unruly = {}
      /\ sender = Nobody /\ step = "idle"
    BY DEF Init
<1>3. QueuesTyped /\ RecordsTyped
    BY <1>1, <1>2 DEF QueuesTyped, RecordsTyped
<1>4. TypeOK
    <2>1. flow \in Flows
        BY DEF Init, Flows
    <2>2. /\ step \in Steps /\ call \in Calls /\ sender \in Sources \cup {Nobody}
          /\ known \subseteq Sources /\ live \subseteq Sources /\ dead \subseteq Sources
          /\ stalled \subseteq Sources /\ tries \subseteq Sources
          /\ conn \in [Sources -> {"none", "forming", "active"}]
          /\ pending \in BOOLEAN /\ watching \in BOOLEAN
          /\ past \subseteq Events /\ outcome \subseteq Outcomes
          /\ twins \subseteq Sources /\ overtaken \subseteq Sources
        BY DEF Init, Steps, Calls
    <2> QED
        BY <1>1, <1>2, <1>3, <2>1, <2>2, TypeIs
<1>5. ASSUME NEW s \in Sources PROVE QueueOk(s)
    <2>1. queue[s] = <<>> /\ got[s] = 0 /\ gone[s] = {}
        BY <1>2
    <2>2. Len(queue[s]) = 0 /\ 1 .. 0 = {}
        BY <2>1
    <2> QED
        BY <2>1, <2>2 DEF QueueOk
<1>6. Belong
    <2>1. /\ \A s \in Sources : queue[s] = <<>>
          /\ \A s \in Sources : conn[s] # "active"
        BY <1>2 DEF Init
    <2> QED
        BY <1>2, <2>1 DEF Belong
<1>7. PendingKnown
    <2>1. \A s \in Sources : DOMAIN queue[s] = {}
        BY <1>2
    <2> QED
        BY <2>1 DEF PendingKnown, BarrierQueued, Barriers
<1>8. PoppedKnown
    BY <1>2 DEF PoppedKnown
<1>9. Ahead
    BY <1>2 DEF Ahead
<1>10. TwinsKnown
    BY <1>2 DEF TwinsKnown
<1> QED
    BY <1>4, <1>5, <1>6, <1>7, <1>8, <1>9, <1>10, InvIs DEF Basic

\* What the lemmas of the steps need of HandlerInv.
LEMMA FactsAre ==
    ASSUME HandlerInv
    PROVE  /\ QueuesTyped /\ RecordsTyped /\ QueuesSorted /\ Own
           /\ \A s \in Sources : QueueOk(s)
           /\ known \in SUBSET Sources /\ conn \in [Sources -> {"none", "forming", "active"}]
           /\ top \in Times /\ popped \in Times
           /\ past \in SUBSET Events /\ outcome \in SUBSET Outcomes
           /\ sender = Nobody <=> step # "add"
           /\ sender \in known \cup {Nobody} /\ (sender \in Sources \/ step # "add")
           /\ \A s \in Sources : queue[s] # <<>> => s \in known
<1>1. Basic /\ Belong
    BY InvIs
<1>2. QueuesTyped /\ \A s \in Sources : QueueOk(s)
    BY <1>1, TypeIs DEF Basic
<1>3. QueuesSorted /\ Own
    BY <1>2, QueueOkIs
<1>4. /\ RecordsTyped /\ known \in SUBSET Sources
      /\ conn \in [Sources -> {"none", "forming", "active"}]
      /\ top \in Times /\ popped \in Times
      /\ past \in SUBSET Events /\ outcome \in SUBSET Outcomes
      /\ sender \in Sources \cup {Nobody}
    BY <1>1, TypeIs DEF Basic
<1>5. /\ sender = Nobody <=> step # "add"
      /\ sender \in known \cup {Nobody}
      /\ \A s \in Sources : queue[s] # <<>> => s \in known
    BY <1>1 DEF Belong
<1> QED
    BY <1>2, <1>3, <1>4, <1>5

\* Every step keeps HandlerInv.
LEMMA HandlerStep == ASSUME HandlerInv, [Next]_vars PROVE HandlerInv'
<1>1. Basic /\ Belong /\ TwinsKnown /\ PendingKnown /\ PoppedKnown /\ Ahead
    BY InvIs
<1>2. Basic'
    BY <1>1, FactsAre, BasicStep
<1>3. past \subseteq past'
    BY FactsAre, MarksTyped
<1>4. Belong'
    BY <1>1, FactsAre, BelongStep
<1>5. PendingKnown'
    BY <1>1, <1>3, FactsAre, PendingStep
<1>6. PoppedKnown'
    BY <1>1, <1>3, FactsAre, PoppedStep
<1>7. QueuesTyped' /\ known' \in SUBSET Sources
    BY <1>2 DEF Basic, TypeOK, QueuesTyped
<1>8. Ahead'
    BY <1>1, <1>3, <1>7, FactsAre, AheadStep
<1>9. TwinsKnown'
    BY <1>1, FactsAre, TwinsStep
<1>10. (HandlerInv
           <=> Basic /\ Belong /\ TwinsKnown /\ PendingKnown /\ PoppedKnown /\ Ahead)'
    BY InvIs, PTL
<1> QED
    BY <1>2, <1>4, <1>5, <1>6, <1>8, <1>9, <1>10

\* HandlerInv: every fragment received is queued once or was handed over; a queue is sorted
\* and holds what its source sent last; the flag of barriers and the mark of what was handed
\* over are true, and nothing left is older than what was handed over without an excuse.
THEOREM HandlerInvariant == Spec => []HandlerInv
<1>1. HandlerInv /\ [Next]_vars => HandlerInv'
    BY HandlerStep
<1> QED
    BY <1>1, HandlerInit, PTL DEF Spec

\* What was handed over of a source in order is a beginning of what it sent.
LEMMA PrefixIs ==
    ASSUME HandlerInv, NEW s \in Sources, s \notin unruly
    PROVE  \A i \in gone[s] : 1 .. i \subseteq gone[s]
<1> SUFFICES ASSUME NEW i \in gone[s], NEW k \in 1 .. i PROVE k \in gone[s]
    OBVIOUS
<1>1. QueueOk(s) /\ QueuesTyped /\ RecordsTyped
    BY FactsAre
<1>2. PICK n \in Nat : n = Len(queue[s])
    BY <1>1, LenIs
<1>3. PICK m \in Nat : m = got[s]
    BY <1>1 DEF RecordsTyped
<1>4. /\ gone[s] \subseteq 1 .. m
      /\ \A j \in 1 .. m : j \in gone[s] \/ \E l \in 1 .. n : queue[s][l].id = j
      /\ \A l \in 1 .. n : queue[s][l].id \notin gone[s] /\ queue[s][l].id = m - n + l
    BY <1>1, <1>2, <1>3 DEF QueueOk
<1>5. i \in 1 .. m /\ k \in 1 .. m /\ k <= i
    BY <1>4
<1>6. ASSUME k \notin gone[s] PROVE FALSE
    <2>1. PICK l \in 1 .. n : k = m - n + l
        BY <1>4, <1>5, <1>6
    <2>2. l + (i - k) \in 1 .. n /\ m - n + (l + (i - k)) = i
        BY <1>5, <2>1
    <2> QED
        BY <1>4, <2>2
<1> QED
    BY <1>6

\* Only fragments with the same timestamp, in the two lists of a complete flush, overtake.
LEMMA OvertakenIs ==
    ASSUME HandlerInv, NEW s \in Sources, s \notin unruly, s \notin overtaken,
           s \in overtaken', NEW first, NEW cut \in Cuts, NEW late, MoveOut(first, cut, late)
    PROVE  s \in twins /\ cut[s] # 0 /\ first # cut
<1>1. QueueOk(s) /\ QueuesTyped /\ RecordsTyped /\ TwinsKnown
    BY FactsAre, InvIs
<1>2. PICK n \in Nat : n = Len(queue[s])
    BY <1>1, LenIs
<1>3. PICK c \in 0 .. n : c = cut[s]
    BY <1>2 DEF Cuts
<1>4. PICK swapped \in SUBSET {r \in Sources : first[r] # cut[r]} :
          overtaken' = overtaken \cup {r \in Sources : \E i, j \in 1 .. cut[r] :
             /\ queue[r][i].id > queue[r][j].id
             /\ LeavesBefore(queue[r], first[r], r \in swapped, i, j)}
    BY Zenon DEF MoveOut
<1>5. PICK i \in 1 .. c, j \in 1 .. c :
          /\ queue[s][i].id > queue[s][j].id
          /\ LeavesBefore(queue[s], first[s], s \in swapped, i, j)
    BY <1>3, <1>4
<1>6. PICK m \in Nat : m = got[s]
    BY <1>1 DEF RecordsTyped
<1>7. i \in 1 .. n /\ j \in 1 .. n
    BY <1>3
<1>8. queue[s][i].id = m - n + i /\ queue[s][j].id = m - n + j
    BY <1>1, <1>2, <1>6, <1>7 DEF QueueOk
<1>9. j < i /\ ~(i < j)
    BY <1>5, <1>7, <1>8
<1>10. s \in swapped /\ queue[s][i].ts = queue[s][j].ts
    BY <1>5, <1>9 DEF LeavesBefore
<1>11. s \in twins
    <2>1. SUFFICES ASSUME s \notin twins PROVE FALSE
        OBVIOUS
    <2>2. queue[s][j].ts < queue[s][i].ts
        BY <1>1, <1>2, <1>7, <1>9, <2>1, LenIs DEF TwinsKnown
    <2>3. queue[s][i].ts \in Nat
        BY <1>1, <1>2, <1>7, LenIs, FragIs
    <2> QED
        BY <1>10, <2>2, <2>3
<1>12. cut[s] # 0
    BY <1>3, <1>5
<1>13. first # cut
    BY <1>4, <1>10
<1> QED
    BY <1>11, <1>12, <1>13

\* Every step keeps SourceOrder.
LEMMA SourceStep == ASSUME HandlerInv, SourceOrder, [Next]_vars PROVE SourceOrder'
<1>1. QueuesTyped /\ QueuesSorted /\ known \in SUBSET Sources /\ HandlerInv'
    BY FactsAre, HandlerStep
<1>2. past \subseteq past' /\ unruly \subseteq unruly'
    BY FactsAre, MarksTyped, UnrulyGrows
<1>3. twins \subseteq twins'
    BY TwinsKept DEF AddFragment, Add
<1>4. SUFFICES ASSUME NEW s \in Sources, s \notin unruly'
               PROVE  /\ \A i \in gone'[s] : 1 .. i \subseteq gone'[s]
                      /\ s \in overtaken' => "flush" \in past' /\ s \in twins'
    BY Zenon DEF SourceOrder
<1>5. \A i \in gone'[s] : 1 .. i \subseteq gone'[s]
    <2>1. (HandlerInv /\ s \notin unruly => \A i \in gone[s] : 1 .. i \subseteq gone[s])'
        BY PrefixIs, PTL
    <2> QED
        BY <1>1, <1>4, <2>1
<1>6. s \notin unruly
    BY <1>2, <1>4
<1>7. CASE s \in overtaken
    BY <1>2, <1>3, <1>5, <1>6, <1>7 DEF SourceOrder
<1>8. ASSUME s \notin overtaken, s \in overtaken' PROVE "flush" \in past' /\ s \in twins'
    <2>1. FlushStep
        BY <1>8, TwinsKept
    <2>2. PICK cut \in Cuts :
             \/ Flush(cut)
             \/ MoveOut(FirstCut, cut, Late(FirstCut)) /\ Nothing(cut, "flush")
        BY <1>1, <2>1, FlushKinds
    <2>3. PICK first, late : /\ MoveOut(first, cut, late)
                             /\ first = cut \/ Nothing(cut, "flush")
        BY <2>2 DEF Flush
    <2>4. s \in twins /\ cut[s] # 0 /\ first # cut
        BY <1>6, <1>8, <2>3, OvertakenIs
    <2> QED
        BY <1>3, <2>3, <2>4 DEF Nothing
<1> QED
    BY <1>5, <1>7, <1>8

\* A source whose timestamps do not go back is output in the order it sent, but for
\* fragments with the same timestamp that a complete flush handed over in two lists.
THEOREM SourceSafe == Spec => []SourceOrder
<1>1. Init => SourceOrder
    BY DEF Init, SourceOrder
<1>2. HandlerInv /\ SourceOrder /\ [Next]_vars => SourceOrder'
    BY SourceStep
<1> QED
    BY <1>1, <1>2, HandlerInvariant, PTL DEF Spec

\* Batches follow each other in the order of the timestamps, as long as no source's go back,
\* none joins late, no queue waits out the build window and there are no barriers.
THEOREM OrderSafe == Spec => []InOrder
<1>1. Init => InOrder
    BY DEF Init, InOrder
<1>2. HandlerInv /\ InOrder /\ [Next]_vars => InOrder'
    <2> SUFFICES ASSUME HandlerInv, InOrder, [Next]_vars PROVE InOrder'
        OBVIOUS
    <2>1. past \subseteq past'
        BY FactsAre, MarksTyped
    <2> QED
        BY <2>1, FactsAre, InvIs, OrderStep
<1> QED
    BY <1>1, <1>2, HandlerInvariant, PTL DEF Spec

\* A barrier is handed over with the barriers of the other sources and not among the data,
\* but in a complete flush or when the flag was cleared early.
THEOREM ApartSafe == Spec => []BarriersApart
<1>1. Init => BarriersApart
    BY DEF Init, BarriersApart
<1>2. HandlerInv /\ BarriersApart /\ [Next]_vars => BarriersApart'
    <2> SUFFICES ASSUME HandlerInv, BarriersApart, [Next]_vars PROVE BarriersApart'
        OBVIOUS
    <2>1. past \subseteq past'
        BY FactsAre, MarksTyped
    <2> QED
        BY <2>1, FactsAre, InvIs, ApartStep
<1> QED
    BY <1>1, <1>2, HandlerInvariant, PTL DEF Spec

\* The data late observers are told of the first fragment of each source in a batch, if one
\* of the source's there is older than one handed over before, unless a flush or a reset made
\* the handler forget.
THEOREM NoticedSafe == Spec => []LateNoticed
<1>1. Init => LateNoticed
    BY DEF Init, LateNoticed
<1>2. HandlerInv /\ LateNoticed /\ [Next]_vars => LateNoticed'
    <2> SUFFICES ASSUME HandlerInv, LateNoticed, [Next]_vars PROVE LateNoticed'
        OBVIOUS
    <2>1. past \subseteq past'
        BY FactsAre, MarksTyped
    <2> QED
        BY <2>1, FactsAre, InvIs, NoticedStep
<1> QED
    BY <1>1, <1>2, HandlerInvariant, PTL DEF Spec
===============================================================================
