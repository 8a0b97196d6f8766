------------------------------ MODULE SortPipeline ------------------------------
(***************************************************************************)
(* The three threads of the event orderer's output: the fragment handler   *)
(* queues batches of sorted lists for the sort thread, which merges each   *)
(* into one list and queues it for the output thread, which hands it to    *)
(* the observers.  Two atomic counters say how many fragments are in       *)
(* flight; the handler adds them up, without a lock, to flow its sources   *)
(* on and off.  The queues are CBufferQueues: a get that finds nothing     *)
(* waits.                                                                  *)
(*                                                                         *)
(* What a handler may want to queue is any of Batches; FragmentHandler     *)
(* models where they come from.  A fragment is told apart by its list, its *)
(* place in it and its timestamp.                                          *)
(***************************************************************************)
EXTENDS Integers, Sequences, FiniteSets, FiniteSetsExt, SequencesExt, Sums

CONSTANTS
    Fragments,          \* the fragments there may be, each with its ts
    Batches,            \* what the handler may queue
    Trials,             \* further batches for MergeIsRight
    XonLimit, XoffLimit,    \* m_nXonLimit, m_nXoffLimit
    MaxBatches          \* bound: batches queued

\* What flushQueues and generateBarrier make: a list, or several that are sorted
\* and not empty.  No fragment is queued twice.
IsBatch(lists) ==
    /\ lists \in Seq(Seq(Fragments)) /\ lists # <<>>
    /\ Len(lists) > 1 => \A l \in DOMAIN lists :
          /\ lists[l] # <<>>
          /\ \A i, j \in DOMAIN lists[l] : i < j => lists[l][i].ts <= lists[l][j].ts
    /\ \A k, l \in DOMAIN lists : \A i \in DOMAIN lists[k], j \in DOMAIN lists[l] :
          lists[k][i] = lists[l][j] => k = l /\ i = j

ASSUME PipelineAssumption ==
    /\ \A f \in Fragments : f.ts \in Nat
    /\ \A b \in Batches \cup Trials : IsBatch(b)
    /\ XonLimit \in Nat \ {0} /\ XoffLimit \in Nat /\ XonLimit <= XoffLimit
    /\ MaxBatches \in Nat

VARIABLES
    todo,       \* handler: what is left of addFragments or IdlePoll
    batch,      \* handler: the batch it is queueing
    seen,       \* handler: the counter it has read, and its value
    xoffed,     \* m_fXoffed
    toSort,     \* CSortThread::m_fragmentQueue
    queued,     \* m_nQueuedFrags
    sorter,     \* sort thread: where it is and what it has
    toOutput,   \* COutputThread::m_inputQueue
    inflight,   \* m_nInflightCount
    writer,     \* output thread: where it is and what it has
    submitted,  \* ghost: the batches queued so far
    delivered   \* ghost: the lists the observers have had

handler == <<todo, batch, seen, xoffed>>
vars == <<handler, toSort, queued, sorter, toOutput, inflight, writer,
          submitted, delivered>>

Unread == [counter |-> "none", value |-> 0]
Sorter(at, b, list) == [at |-> at, lists |-> b, list |-> list]
Writer(at, list) == [at |-> at, list |-> list]

Init ==
    /\ todo = <<>> /\ batch = <<>> /\ seen = Unread /\ xoffed = FALSE
    /\ toSort = <<>> /\ queued = 0 /\ sorter = Sorter("get", <<>>, <<>>)
    /\ toOutput = <<>> /\ inflight = 0 /\ writer = Writer("get", <<>>)
    /\ submitted = <<>> /\ delivered = <<>>

-----------------------------------------------------------------------------
(* Merging. *)

Size(lists) == Total([l \in DOMAIN lists |-> Len(lists[l])])

\* The multimap of lists by first timestamp: behind those with the same one.
Place(heap, list) ==
    InsertAt(heap, Cardinality({k \in DOMAIN heap : heap[k][1].ts <= list[1].ts}) + 1,
             list)

MinHeap(lists) ==
    LET heap[n \in 0 .. Len(lists)] ==
          IF n = 0 THEN <<>> ELSE Place(heap[n - 1], lists[n])
    IN  heap[Len(lists)]

\* The first fragment of the earliest list.
HeapTurn(m) ==
    LET list == Head(m.heap)
    IN  [out |-> Append(m.out, Head(list)),
         heap |-> IF Len(list) = 1 THEN Tail(m.heap)
                  ELSE Place(Tail(m.heap), Tail(list))]

\* Mutant of PairTurn: forgets what is left of one list when the other runs out.
PairTurnShort(m) ==
    LET k == IF m.heap[1][1].ts < m.heap[2][1].ts THEN 1 ELSE 2
        list == m.heap[k]
    IN  [out |-> Append(m.out, Head(list)),
         heap |-> IF Len(list) = 1 THEN << <<>> >> ELSE [m.heap EXCEPT ![k] = Tail(list)]]

\* The merge of two lists: of equal timestamps the second list's goes first.
PairTurn(m) ==
    LET k == IF m.heap[1][1].ts < m.heap[2][1].ts THEN 1 ELSE 2
        list == m.heap[k]
    IN  [out |-> Append(m.out, Head(list)),
         heap |-> IF Len(list) = 1 THEN <<m.heap[3 - k]>>
                  ELSE [m.heap EXCEPT ![k] = Tail(list)]]

\* One turn of either loop, until one list is left, which is appended.
Turn(m) ==
    IF Len(m.heap) = 1 THEN m ELSE IF Len(m.heap) = 2 THEN PairTurn(m) ELSE HeapTurn(m)

Merge(lists) ==
    LET start == [out |-> <<>>, heap |-> IF Len(lists) = 2 THEN lists ELSE MinHeap(lists)]
        m[n \in 0 .. Size(lists)] == IF n = 0 THEN start ELSE Turn(m[n - 1])
        end == m[Size(lists)]
    IN  IF Len(lists) = 1 THEN lists[1] ELSE end.out \o end.heap[1]

Merged == [b \in Batches |-> Merge(b)]

-----------------------------------------------------------------------------
(* The fragment handler. *)

Does(what) == todo # <<>> /\ Head(todo) = what /\ todo' = Tail(todo)

\* flushQueues hands over data or not, checks, and hands over a barrier or not.
Queue == <<"count", "queue">>
FlushQueues ==
    {data \o <<"xon">> \o barrier : data \in {<<>>, Queue},
                                   barrier \in {<<>>, <<"xon">> \o Queue}}

Start(last) ==
    /\ todo = <<>>
    /\ \E chores \in FlushQueues :
          /\ todo' = chores \o last
          /\ Len(submitted) + Cardinality({i \in DOMAIN chores : chores[i] = "count"})
                <= MaxBatches
    /\ UNCHANGED <<batch, seen, xoffed, toSort, queued, sorter, toOutput, inflight,
                   writer, submitted, delivered>>
AddFragments == Start(<<"xoff">>)
IdlePoll == Start(<<"xon">>)
Flush == Start(<<>>)

\* CSortThread::queueFragments
CountBatch ==
    /\ Does("count") /\ batch' \in Batches /\ queued' = queued + Size(batch')
    /\ UNCHANGED <<seen, xoffed, toSort, sorter, toOutput, inflight, writer,
                   submitted, delivered>>

\* Mutant of QueueBatch: in front of those that wait.
QueueBatchFirst ==
    /\ Does("queue") /\ toSort' = <<batch>> \o toSort
    /\ submitted' = Append(submitted, batch) /\ batch' = <<>>
    /\ UNCHANGED <<seen, xoffed, queued, sorter, toOutput, inflight, writer, delivered>>

QueueBatch ==
    /\ Does("queue") /\ toSort' = Append(toSort, batch)
    /\ submitted' = Append(submitted, batch) /\ batch' = <<>>
    /\ UNCHANGED <<seen, xoffed, queued, sorter, toOutput, inflight, writer, delivered>>

\* inFlightFragmentCount: two loads, in the order the compiler likes.
ReadFirst ==
    /\ todo # <<>> /\ Head(todo) \in {"xon", "xoff"} /\ seen = Unread
    /\ seen' \in {[counter |-> "inflight", value |-> inflight],
                  [counter |-> "queued", value |-> queued]}
    /\ UNCHANGED <<todo, batch, xoffed, toSort, queued, sorter, toOutput, inflight,
                   writer, submitted, delivered>>

InFlightSeen ==
    seen.value + IF seen.counter = "inflight" THEN queued ELSE inflight

Checked ==
    /\ seen # Unread /\ seen' = Unread
    /\ UNCHANGED <<batch, toSort, queued, sorter, toOutput, inflight, writer,
                   submitted, delivered>>
CheckXon ==
    /\ Does("xon") /\ Checked
    /\ xoffed' = (xoffed /\ InFlightSeen >= XonLimit)
CheckXoff ==
    /\ Does("xoff") /\ Checked
    /\ xoffed' = (xoffed \/ InFlightSeen > XoffLimit)

-----------------------------------------------------------------------------
(* The sort thread. *)

SortGet ==
    /\ sorter.at = "get" /\ toSort # <<>>
    /\ sorter' = Sorter("merge", Head(toSort), <<>>) /\ toSort' = Tail(toSort)
    /\ UNCHANGED <<handler, queued, toOutput, inflight, writer, submitted, delivered>>

\* merge, releaseFragments and the counter.
SortMerge ==
    /\ sorter.at = "merge"
    /\ LET list == Merged[sorter.lists]
       IN  sorter' = Sorter("count", <<>>, list) /\ queued' = queued - Len(list)
    /\ UNCHANGED <<handler, toSort, toOutput, inflight, writer, submitted, delivered>>

\* COutputThread::queueFragments
SortCount ==
    /\ sorter.at = "count" /\ sorter' = [sorter EXCEPT !.at = "queue"]
    /\ inflight' = inflight + Len(sorter.list)
    /\ UNCHANGED <<handler, toSort, queued, toOutput, writer, submitted, delivered>>
SortQueue ==
    /\ sorter.at = "queue" /\ sorter' = Sorter("get", <<>>, <<>>)
    /\ toOutput' = Append(toOutput, sorter.list)
    /\ UNCHANGED <<handler, toSort, queued, inflight, writer, submitted, delivered>>

-----------------------------------------------------------------------------
(* The output thread. *)

OutputGet ==
    /\ writer.at = "get" /\ toOutput # <<>>
    /\ writer' = Writer("count", Head(toOutput)) /\ toOutput' = Tail(toOutput)
    /\ UNCHANGED <<handler, toSort, queued, sorter, inflight, submitted, delivered>>

\* Mutant of OutputCount: a list counts as one.
OutputCountOne ==
    /\ writer.at = "count" /\ writer' = [writer EXCEPT !.at = "observe"]
    /\ inflight' = inflight - Min({1, inflight})
    /\ UNCHANGED <<handler, toSort, queued, sorter, toOutput, submitted, delivered>>

OutputCount ==
    /\ writer.at = "count" /\ writer' = [writer EXCEPT !.at = "observe"]
    /\ inflight' = inflight - Len(writer.list)
    /\ UNCHANGED <<handler, toSort, queued, sorter, toOutput, submitted, delivered>>

OutputObserve ==
    /\ writer.at = "observe" /\ writer' = Writer("get", <<>>)
    /\ delivered' = Append(delivered, writer.list)
    /\ UNCHANGED <<handler, toSort, queued, sorter, toOutput, inflight, submitted>>

-----------------------------------------------------------------------------
Handle == CountBatch \/ QueueBatch \/ ReadFirst \/ CheckXon \/ CheckXoff
Sort == SortGet \/ SortMerge \/ SortCount \/ SortQueue
Output == OutputGet \/ OutputCount \/ OutputObserve

Next == AddFragments \/ IdlePoll \/ Flush \/ Handle \/ Sort \/ Output

Spec == Init /\ [][Next]_vars

\* The threads are scheduled, and the idle timer expires between other handlers.
FairSpec == Spec /\ WF_vars(Handle) /\ SF_vars(IdlePoll) /\ WF_vars(Sort) /\ WF_vars(Output)

-----------------------------------------------------------------------------
(* Properties. *)

Chores == {"count", "queue", "xon", "xoff"}

TypeOK ==
    /\ todo \in Seq(Chores) /\ batch \in Batches \cup {<<>>} /\ xoffed \in BOOLEAN
    /\ seen \in [counter : {"none", "inflight", "queued"}, value : Nat]
    /\ toSort \in Seq(Batches) /\ toOutput \in Seq(Seq(Fragments))
    /\ queued \in Nat /\ inflight \in Nat
    /\ sorter \in [at : {"get", "merge", "count", "queue"}, lists : Batches \cup {<<>>},
                   list : Seq(Fragments)]
    /\ writer \in [at : {"get", "count", "observe"}, list : Seq(Fragments)]
    /\ submitted \in Seq(Batches) /\ delivered \in Seq(Seq(Fragments))

\* The fragments each counter stands for.
Unsorted ==
    Total([k \in DOMAIN toSort |-> Size(toSort[k])]) + Size(sorter.lists)
    + IF todo # <<>> /\ Head(todo) = "queue" THEN Size(batch) ELSE 0
Sorted ==
    Size(toOutput) + (IF sorter.at = "queue" THEN Len(sorter.list) ELSE 0)
    + (IF writer.at = "count" THEN Len(writer.list) ELSE 0)

\* No addition or subtraction of three threads is lost, and neither counter
\* goes below zero: what the sorter has merged and not yet counted again is all
\* that is missing.
CountsExact == queued = Unsorted /\ inflight = Sorted

PipelineInv == TypeOK /\ CountsExact

\* Every batch that was queued is handed to the observers.
Drains == \A k \in 1 .. MaxBatches : (Len(submitted) >= k) ~> (Len(delivered) >= k)

Conduit == INSTANCE SortConduit

\* CSortThread::merge sorts and keeps the order within each list.  It depends on no
\* variable: looking once, before anything is queued, is enough.
MergeIsRight ==
    submitted = <<>> => \A b \in Batches \cup Trials : Conduit!IsMerge(Merge(b), b)

\* The threads deliver each batch once, in order, merged; and they do deliver it.
IsConduit == Conduit!Spec /\ Drains

\* Sources that were flowed off are flowed on again.
XonAgain == xoffed ~> ~xoffed
=================================================================================
