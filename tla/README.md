# NSCLDAQ in TLA+

NSCLDAQ takes data from nuclear physics experiments. Front ends read hardware and put *ring
items* into shared-memory *ring buffers*; ring sources forward them to an *event builder*, which
orders and combines the fragments of several front ends and puts events into another ring; loggers
and displays read rings; a Tcl/Tk GUI, a state manager and small servers control all of it.

This directory models the parts of it that carry data between concurrent programs, checks them
with TLC on small instances, and proves safety of the ring buffer, the fragment handler, the sort
and output threads, both readouts and glom with TLAPS for every instance. Every definition is translated from the source;
`PROJECT.json` says from which lines.

    tlc -workers 2 -config RingTransfer.cfg MCRingBuffer.tla      # a run
    tlapm RingBufferProofs.tla                                    # the proofs; also RingStreamProofs,
                # FragmentHandlerProofs, SortPipelineProofs, UsbReadoutProofs, SbsReadoutProofs,
                # GlomProofs, CommonLemmas

| file | what it is |
|---|---|
| `RingBuffer.tla` | the shared-memory ring: attach, detach, put, get, death |
| `RingStream.tla` | what the ring promises: a bounded stream with several readers |
| `MCRingBuffer.tla`, `Ring*.cfg` | instances |
| `RingBufferProofs.tla` | theorems about `RingBuffer`: who owns what, nothing is overrun |
| `RingStreamProofs.tla` | theorems about the bytes, and that `RingBuffer` implements `RingStream` |
| `FragmentHandler.tla` | the event orderer: queues, barriers, flow control, connections |
| `MCFragmentHandler.tla`, `Evb*.cfg` | instances |
| `FragmentHandlerProofs.tla` | theorems about `FragmentHandler` |
| `SortPipeline.tla` | the orderer's threads: handler, sort thread, output thread |
| `SortConduit.tla` | what the two threads promise: each batch once, in order, merged |
| `MCSortPipeline.tla`, `SortPipeline.cfg` | an instance |
| `SortPipelineProofs.tla` | theorems about the merge and the threads, and that they implement `SortConduit` |
| `Glom.tla`, `MCGlom.tla`, `Glom*.cfg` | glom: building events, and its buffered output |
| `GlomProofs.tla` | theorems about `Glom` |
| `UsbReadout.tla`, `MCUsbReadout.tla`, `Usb*.cfg` | the VM-USB readout program: four threads |
| `UsbReadoutProofs.tla` | theorems about `UsbReadout` |
| `SbsReadout.tla`, `MCSbsReadout.tla`, `Sbs*.cfg` | the SBS readout framework: trigger loop and interpreter |
| `SbsReadoutProofs.tla` | theorems about `SbsReadout` |
| `Sums.tla` | the sum of a sequence of numbers, for `SortPipeline` and `Glom` |
| `CommonLemmas.tla` | lemmas about sequences, sums and loops that several proofs need |

Definitions called a *mutant* in a comment, or named `Bad...`, are mistakes one could make in the
code. They are used by no specification; substituting one for the definition after it must make a
property fail, which shows that the property says something about that code.

## 1. Inventory

### Data flow (`base/dataflow`)

**Ring buffer** (`CRingBuffer.cpp`, `ringbufint.h`). A mapped file with a header, one producer
record, up to `s_maxConsumer` consumer records and the data. A record is a pid (-1 free, 0
joining) and an offset, both volatile. Operations: construct (`attach`, `allocateConsumer`),
destroy, `put`, `get`, `peek`, `skip`, `while`, and static ones (create, format, remove). put and
get take no lock: they read the other side's offset, wait by polling, copy, and move their own
offset. Construction and destruction hold a POSIX record lock on the header.
*Hard:* every load and store of a peer is a point of interleaving; each offset is loaded twice by
`difference` and stored twice by `Skip`; consumers join while put searches for space; processes
die anywhere. *Correct when:* what a consumer has not read is never overwritten; get returns the
next bytes of the stream, as many as it says; records have one owner; nobody waits for data or
space that is there.

**RingMaster** (`RingMaster.tcl`, `CRingMaster.cpp`). One process per host. Keeps, for each
client socket, the records its client holds (CONNECT, DISCONNECT), the registered rings, and
starts `ringtostdout` for remote clients. On end of file it releases what the client still holds.
*Hard:* the client dies between claiming a record and saying so; a record has a new owner when it
is released. *Correct when:* a record is released exactly when its owner is gone.

**Remote rings, stream commands, Tcl command** — pipes between a ring and a socket or file, and
argument checking.

### Event builder (`daq/eventbuilder`, `daq/evbtools`)

**Connection manager** (`ConnectionManager.tcl`). State: connections (forming, active), the set
of stalled ones, whether data are accepted, which sockets have a readable callback. Operations:
accept, CONNECT, FRAGMENTS, DISCONNECT, end of file, the stall check, flow on and off.

**Fragment handler** (`CFragmentHandler.cpp`). State: a sorted queue per source with its newest
timestamp and flow flag, `m_fBarrierPending`, `m_fXoffed`, the most recently popped timestamp, the
live sources and dead sockets. Operations: `addFragments`, `IdlePoll` (every second), `flush`,
`abortBarrierProcessing`, `resetTimestamps`, `markSocketFailed`, `reviveSocket`. Both run in one
Tcl event loop; the loop is not re-entered, but a handler that reads a message also tries the
other connections (`tryRead`), so that one event adds fragments of several sources.
*Hard:* sources that connect late, fall silent, send late data or out of order; barriers, which
hold a queue until every source has one, for at most four build windows; two levels of flow
control (per queue, whole handler) over one set of sockets. *Correct when:* no fragment is lost or
doubled; a source's fragments stay in order; batches follow each other by timestamp unless one of
a few named things happened, and then the late data are reported; barriers leave together and
never among the data; everything received leaves; flow control lets go.

**Sort and output threads** (`CSortThread`, `COutputThread`). The handler queues batches; the
sort thread merges each and queues it for the output thread, which calls the observers. Two
atomics count fragments in flight. *Hard:* the handler adds the two without a lock.
*Correct when:* every batch comes out once, in order, merged; the counts are exact; flow-off ends.

**glom** (`glomMain.cpp`, `CBufferedOutput.cpp`). Reads ordered fragments, glues those within a
coincidence window into events, passes everything else on, and writes ring items. State: the event
being built with its first and last timestamp, sum and count; the number of events and the nesting
of runs; a pool of buffers between the main thread and an output thread. *Hard:* fragments slightly
out of order; items that overtake the event being built and barriers that must not; counters that
outlive an event; slow or failing output, input that pauses or ends. *Correct when:* every physics
fragment is in one event, events are as large as the rules allow, state changes stay in their
places, counts and timestamps describe the events, and the output is a beginning of what was made.

**Clients, ring source** — one request at a time over TCP; fragment packing. Other filters —
sequential. **GUI, statistics, REST** — observers.

### Readout and control

**USB readouts** (`usb/vmusb/core`, `usb/ccusb/core`). Main thread (the operator's commands),
acquisition thread, Tcl server (slow control clients, monitor list), output thread. They share the
run state, a pool of data buffers, a request and a reply queue under one mutex, the controller
under another. *Hard:* commands and clients that meet; an acquisition thread that fails with a
request unanswered or a buffer in its hands; run state looked at and then acted on. *Correct when:*
each request gets its own reply; who acquired the controller has it alone; a run that has ended has
stopped data taking; no buffer is lost; the ring shows runs in turn; nobody waits for ever.

**SBS readout** (`sbs/readout`). The trigger loop's thread and the Tcl thread share flags without
a lock; the Tcl thread's event queue carries the end of a run, documented variables and errors.
*Hard:* a stop that meets a start or a failure; the thread of a failed loop still on its way out;
a ring that must not be written by two threads. *Correct when:* the run state is the truth about
the loop, each operation returns, a stop stops, the ring shows runs in turn with true counts.

**GUI run state** (`RunstateMachine.tcl`, bundles, data source manager): legal transitions and
callouts. **State manager, experiment manager**: the same over a message bus and a database.
**Port manager**: ports owned by connections. **Software trigger framework**: a dispatcher,
workers that ask for work, and a sorter that restores order. **Event logger**: segments of a run's
items.

### Base libraries and the rest

Buffer queues, mutexes, conditions, shared memory, buffered output, sockets, sqlite, security; item
formats and converters; displays, dumpers, wizards; packages for particular devices; vendored code.
`PROJECT.json` lists each with its reason for being left out.

## 2. Plan

| | module | of | state |
|---|---|---|---|
| 1 | `RingBuffer`, `RingStream` | ring buffer | checked and proved, the refinement too |
| 2 | `FragmentHandler` | fragment handler and connection manager | checked and proved |
| 3 | `SortPipeline`, `SortConduit` | sort and output threads | checked and proved, the refinement too |
| 4 | `UsbReadout` | VM-USB acquisition, control, Tcl server and output threads | checked and proved |
| 5 | `SbsReadout` | SBS trigger loop against begin, pause, resume, end and failure | checked and proved |
| 6 | `Glom` | glom and its buffered output | checked and proved |

The order is that of the data's way, the parts with several actors first. Modules meet where the
code does: what leaves `FragmentHandler` is what enters `SortPipeline` (any of `Batches`), whose
counters are `FragmentHandler`'s `Loads`; what leaves `SortPipeline` is `Glom`'s input; both
readouts put into a `RingBuffer`, which they see as one that always has space.
Abstract specifications: `RingStream` and `SortConduit`. Section 10 says what was left and why.

"Proved" means every safety invariant a run of the module checks, except `StreamInTurn` of the USB
readout; liveness is checked by TLC only. Definitions that are to be proved about use no `RECURSIVE`
operator and no fold: a loop is a recursive function over the number of its turns, about which
`CommonLemmas` says what can be said without induction over operators. Theorems worth having next:
`StreamInTurn`; that what `FragmentHandler` emits satisfies `IsBatch`.

## 3. Ring buffer

### Correspondence

A process is a client with one `CRingBuffer`. `prodPid`, `putOff`, `slotPid`, `slotOff` are the
records, `mem` the data (each cell holds the stream position of its byte), `lock` the record lock,
`usage` RingMaster's entries. `pc` is where a process is in the code; `want`, `scan`, `take` are
locals. An action is one access to a word that another process may change:

* constructor: `Lock`, `FindProducer`/`ClaimProducer` or
  `FindSlot`/`ClaimSlot`/`CompareOffset`/`CopyOffset`/`PublishPid`, `Notify` (CONNECT succeeds, or
  fails and the record is given back); destructor: `Detach`, `Disconnect`;
* put: `PutBegin`, then `availablePutSpace` record by record (`ScanTest`, `ScanUse` with the first
  load, `ScanFree` with the second), `PutReady`/`PutRetry`/`PutTimeout`, `PutCopy`, and the two
  stores of `Skip`, `PutSkip` and `PutWrap`;
* get: `GetBegin`, then `LoadFirst` and the second load three times over (for the predicate, the
  transfer size and inside `peek`), `PeekCheck`, `PeekSize`, `PeekCopy`, `GetSkip`, `GetWrap`;
* `Die` at any label for processes in `Mortal`, or in a memcpy at an offset outside the ring;
  `ReleaseDead` is RingMaster's answer.

Arithmetic is on `size_t`: `SizeT` is modulo `Word`, any number larger than four rings (2^64 in
the code).

### Windows

The code relies on timing in seven places. Rather than exclude them, the model executes them and
records in the ghost `races` that one was hit; the safety properties say `races = {} => ...`.

| window | code | what happens |
|---|---|---|
| `tornPut` | `difference` from `availablePutSpace` | the consumer wraps between the two loads |
| `lapPut` | the same | the consumer has stored its unwrapped offset |
| `tornGet` | `difference` from `availableData` | the producer wraps between the two loads |
| `lapGet` | the same | the producer has stored its unwrapped offset, and the reader has wrapped already |
| `lateJoin` | `availablePutSpace:1025` | a joiner in record 0 is not waited for twice |
| `transient` | `attach`, `allocateConsumer` | the ring is taken over at an unwrapped put offset |
| `staleRelease` | `RingMaster.tcl:490` | a record is released under a new owner |

A property that excused every behaviour would be worthless: the mutants of these properties are
refuted in behaviours that hit no window.

### Runs

| run | instance | shows |
|---|---|---|
| `ring_transfer` | 1 producer, 1 consumer, 3 bytes, 7 written, puts of 1 to 3, gets of [1,1], [1,2], [2,2], [2,3], time-outs of 0 and finite (2.9 M states) | `DataIntact`, `GetIsExact`, and the inductive invariant `StreamInv`, which holds `RingInv` and from which `NoOverrun` follows |
| `ring_fanout` | 2 producers, 2 consumers, 2 records, deaths of one of each (4.7 M) | `RecordsExclusive`, `NoOverrun`, and that the ring implements `RingStream` |
| `ring_live` | 1 producer, 2 consumers, waits without limit | `GetCompletes`, `PutCompletes` |

Seven bytes through three cells wrap each offset more than twice, and puts and gets of two sizes
make every distance between the offsets occur, full (two bytes) and empty included. Two consumers
are enough for "another one joins, leaves or dies meanwhile", since a consumer touches no other
consumer's record. The third record and larger rings are what the theorems are for. A put of
`Size` bytes is allowed by the code and can never succeed; it is among the inputs.

*Refinement.* `RingStream` is a stream of `sent` bytes, readers with positions that never fall more
than the capacity behind, and reads that deliver the bytes from the reader's position. The mapping
takes published bytes for `sent` and `readPos` for positions; put's copy and all loads stutter. It
allows anything once `races` is not empty.

*Fairness.* Weak fairness for each step of a call in progress: processes are scheduled and the
polling waits end. No fairness for starting a put, attaching or detaching. `PutCompletes`
supposes that readers call get again, which is the code's own condition for space to appear, and
that joining comes to rest, since each joiner seen restarts the search. `ring_live` does not
explore past a window (`CONSTRAINT NoWindowHit`): both properties hold there by their own terms.

### Proofs (`RingBufferProofs.tla`, `RingStreamProofs.tla`)

`RingInvariant`: `Spec => []RingInv` for all sets of producers and consumers, every ring size, any
requests, and any subset of mortal processes. Assumptions: `ProcsAssumption` (pids are distinct
from -1 and 0 and producers are not consumers) and `SizeAssumption` (a ring of two bytes or more,
requests with min at most max, a word of more than four rings).

`NoOverrun` alone is not inductive. A put copies on the strength of a number it computed while
consumers moved, so `RingInv` says for each point of each call what the process has learnt and
that it stays true:

* `OwnInv` — which pid a record holds while its owner is at each label, so that the producer sees
  every consumer it must respect; `IndexInv` keeps indices in range;
* `PutInv` — the put offset is in the ring but between the two stores of `Skip`, and the request
  is at most the free space that was found;
* `ReadInv` — unread bytes equal the distance from a consumer's offset to the put offset, both
  taken modulo the ring: the step from pointers to the stream;
* `TakeInv` — a get between its loads: the size it took is still there, and if it compared the
  offsets one way, the second load cannot turn the result over;
* `ScanInv` — for every record the search has passed, or that has joined since, unread plus the
  free space found is less than the ring. Consumers only make it smaller; a joiner starts at zero.

`LockExclusive` and `TypeOK` hold without the premise on windows. The corollaries are
`TypeCorrect`, `LockSafe`, `NoOverrunSafe` and `RecordsSafe`. One lemma per action and conjunct it
disturbs; the arithmetic of offsets is in lemmas of its own.

The bytes come second (`RingStreamProofs`). `StreamInv` adds to `RingInv`, as long as no window was
hit: what put has copied and not yet published is the next part of the stream (`FreshInv`), every
byte a consumer still has to read is in its cell (`UnreadInv`), and what get has decided with its
six loads, and copied, answers its caller (`FetchInv`). A put overwrites only cells whose distance
from every consumer's offset exceeds what is unread, which is `NoOverrun` with the arithmetic of
`RingInv`. `DataSafe` and `GetSafe` are `DataIntact` and `GetIsExact`; `RingIsStream`
is the refinement, `Spec => IsStream`: each action is a step of `RingStream` or a stutter, by
cases, with the invariant for the guard of its read (a reader is never further behind than the
capacity) and of its write.

Only checked by TLC: liveness.

### What the model leaves out

Memory is sequentially consistent: the code's barriers sit after its stores, and x86 keeps the
order of stores; a machine that reorders stores is not covered. Also `skip`, `peek` and `while`
called by themselves, `forceProducerRelease` and its like by hand, formatting a ring in use, and
several clients in one process (for which the record lock does not exclude).

## 4. Fragment handler

### Correspondence

Handlers of the Tcl event loop run one at a time. Those that receive or flush are a chain of actions
through `step` (`add`, `flush`, `barrier`, `last`): `add` is a turn of the loop over a message's
fragments, the others are the parts of the code that look at flow control one by one, because the
load it sees may change in between; `call` says for whom, `sender` whose message it is.
All others are one action. No other handler can run while `step # "idle"`.

* `HandleFragments` and `TryRead` are `_Fragments` and `tryRead` into `addFragments`; `tries` are
  the connections the loop has still to look at. `AddFragment` adds a fragment of the message, and
  whether it is the last is open: messages have any length from one. `Insert` is `insertFragment`, `Add` is
  `addFragment` with the replacement of `NULL_TIMESTAMP` by the newest.
* `FlushUntilStamp`, `FlushUntilTime` and `FlushCompletely` are `flushQueues`: by the earliest of the
  stamps at the backs of the queues when no queue is empty, by the build window when one is,
  everything for a complete flush. A complete flush hands over one batch with two lists for a source,
  what the ordinary flush would have cut and the rest; the sort thread merges these like any two
  lists, and of two fragments with one timestamp either list's may come first. So a barrier can
  overtake data of its own source with the same timestamp: the ghosts `twins` (sources that sent a
  timestamp twice in a row) and `overtaken` (sources of which fragments may have changed places in a
  batch) say for whom. `UntilFirst` and `UntilLast` are `CopyPopUntil` and
  `CopyPopUntilR`; the second goes from the back and does not see barriers.
* `CheckBarrier` is `checkBarrier` and `generateBarrier`; `AbortBarrier`, `Reset`, `FlushQueues`
  are the commands; `Stall` and `StallForming` the stall check.
* `QueueFlow` is `XoffQueue` and `XonQueue`, `Xon` and `Xoff` the whole handler's; `flow` joins
  what the handler believes (`off`, `qoff`) and what the sockets do (`accepting`, `reading`). A
  queue's `s_qid` is the socket of the connection it was created for and is never updated: once that
  is closed (`flow.closed`) the queue's flow on and off match no connection of the
  ConnectionManager, which only remembers the last word (`accepting`). A socket name of Tcl is taken
  not to come back within the life of the program.

The clock is replaced by each queued fragment's age in seconds, up to `MaxAge`, one more than four
windows: beyond that the code makes no difference. `Tick` lets a second pass between handlers
only; handlers take no time. The load of the threads is any of `Loads`, chosen anew at each look,
because the threads run meanwhile (`SortPipeline` has the real counters).

Abstracted: a fragment is its source, its place in the source's sequence (a ghost), its timestamp
and whether it is a barrier. One source id per connection. Messages are well formed. Left out:
statistics and the reports to observers other than data late, `popOldest`'s treatment of empty
source names, and `clearQueues`, whose command the orderer does not register.

### Properties

`HandlerInv`: nothing is lost, doubled or unsorted (`EachOnce`, `QueuesSorted`), and what the other
properties rest on (below).
`SourceOrder`: what was handed over of a source is a prefix of what it sent, and in the order it
sent, so nothing passes one of its barriers, unless its own timestamps went back; within the batch
of a complete flush fragments with equal timestamps may change places, and only those. `LateNoticed`
is about the first of a source's late fragments in a batch, which is all that the code reports.
`InOrder`, `BarriersApart`,
`LateNoticed`: what may be wrong with the output, and the only events that excuse it; the ghosts
`past` and `outcome` record both. For instance a batch starts before an earlier one ended only if
a source sent out of order or joined late, a queue waited out the build window, a barrier stood in
a queue, or a user flushed or reset. `EverythingLeaves` and `ReadAgain`: liveness. `ReadAgain`
covers a source that has come back and whose queue still names its former socket: it is read because
flow off no longer reaches it either. It is about connections after their CONNECT; one that was
accepted while a queue is off is section 9's.

### Runs

| run | instance | shows |
|---|---|---|
| `evb_order` | 2 sources with 2 fragments each, 2 timestamps, window 1 s, queue limits 1 and 2; flush, abort, stall (6.5 M states) | `HandlerInv`, `SourceOrder`, `InOrder`, `BarriersApart`, `LateNoticed` |
| `evb_live` | window 1 s, limits of 1, all loads; disconnect and reset (0.15 M) | `EverythingLeaves`, `ReadAgain` |

Two sources with two fragments each give late, early, equal and reversed timestamps, a barrier in
front of, behind and between data, and a queue that is empty while the other is not. A third
source adds nothing to the decisions of `flushQueues`, which look at the minimum over queues, at
"all" and at "one is empty"; it matters for `Cardinality` in `Stall`, which two already break.
`evb_order` goes on (`FewTroubles`) only from states in which at most one source has been found
stalled, and none if a complete flush found fragments: what a stall and a flush do to one batch
together is left to the theorems. The load is low there, since the high load only keeps the handler
from receiving; `evb_live` has both.

*Fairness* (`FairSpec`). A handler in progress goes on (weak fairness of its parts): the code has
no waits in it. The clock moves and the idle timer expires although other events keep arriving
(strong fairness of `Tick` and `IdlePoll`): Tcl serves timers in turn with files. A poll finds the
load low again and again (strong fairness of the ending of a poll that leaves the handler on):
`SortPipeline!Drains` is the reason. Nothing obliges a source to send, connect or
stay, or a user to do anything.

### Proofs (`FragmentHandlerProofs.tla`)

`HandlerInvariant`, `SourceSafe`, `OrderSafe`, `ApartSafe`, `NoticedSafe`: the five invariants of
`evb_order`, for any number of sources, any timestamps, windows, limits, commands and messages, and
without its bound.
`HandlerAssumption` asks that some timestamp is the last, as 2^64 - 1 is.

None of the four properties about the output is inductive: each is about a batch, and what makes
a batch good was established when its fragments came in and when earlier batches left.
`HandlerInv` therefore also says:

* `QueuesOwn`: only sources with a queue send, and a queue holds its source's own;
* `InSequence`: the queue of a source that sent in order is the last of what it sent, place by
  place. With `EachOnce` this is the first half of `SourceOrder`;
* `TwinsKnown`: a source whose timestamps rose each time has no two alike in its queue. With it the
  two lists of a complete flush can be merged in one way only, the other half of `SourceOrder`;
* `PendingKnown`: unless a barrier is left over, `m_fBarrierPending` is set while one is queued.
  `DequeueUntilStamp` goes by the flag, so `BarriersApart` depends on it;
* `PoppedKnown`: `m_nMostRecentlyPopped` is no older than anything handed over, unless a flush or
  reset went past it. `LateNoticed` follows since the front of a sorted list is its oldest;
* `Ahead`: without an excuse nothing in front of the barriers of a queue is older than what was
  handed over, nor is what an empty or barrier-free queue will get next. A cut at the earliest of
  the last timestamps keeps it: it takes what is at or before the mark and leaves what is after.

The lemmas about the operators (`MinIs`, `MaxIs`, `InsertIs`, `UntilFirstIs`, `CutAtStampIs`, ...) come
first, by least counterexamples where induction would be used on paper. Then `QueueKinds`: a step
adds one fragment, removes some from the fronts, ages all or leaves the queues alone, and only the
first three need an argument for each conjunct.

Only checked by TLC: `EverythingLeaves` and `ReadAgain`.

## 5. Sort and output threads

`todo` is what is left of a call of the handler: handing over a batch (`CountBatch`, `QueueBatch`:
the counter before the queue), and looking at the counters (`ReadFirst`, then `CheckXon` or
`CheckXoff` with the second load; C++ leaves open which is first). The sort thread takes one
batch at a time (`SortGet`), merges it and takes it off its counter (`SortMerge`), counts it for
the output thread (`SortCount`) and queues it (`SortQueue`); the output thread takes a list, takes
it off its counter, and calls the observers. A queue operation is one step, as its mutex makes it.

`Merge` follows the code: one list as it is, two merged, more through a heap of lists by their
first timestamp until two are left. Each turn of a loop is `HeapTurn` or `PairTurn`, and there are
no more turns than fragments (`Size`). `SortConduit!IsMerge` is what it should be, and the run
compares them in `MergeIsRight` for all inputs of up to three lists of up to two fragments
(`Trials`), and the batches that it queues. `IsBatch` says what the handler may queue: one list, as
`generateBarrier` makes it and as it comes, or several from `flushQueues`, none of them empty and
each sorted, because a source's queue is. A fragment is one object in memory and is in one list.

| run | instance | shows |
|---|---|---|
| `sort_pipeline` | 3 batches of four kinds: an empty list (a complete flush without barrier), barriers, two lists, four lists (0.26 M states) | `CountsExact` (in `PipelineInv`), `MergeIsRight`, `IsConduit` with `Drains`, `XonAgain` |

Three batches put one in each of the three threads at once. *Fairness:* threads are scheduled; the
idle timer expires (strong fairness of `IdlePoll`), which is all that turns flow on again when
nothing arrives. The wait of `CBufferQueue::get` may miss a signal and then lasts half a second,
so that a get on a queue that has elements returns in any case: this is what the weak fairness of
`SortGet` and `OutputGet` stands for.

The sort thread uses an iterator of its heap after erasing it. In the builds in use the node's
memory is still intact then, and the model has only that outcome.

### Proofs (`SortPipelineProofs.tla`)

`MergeIs` (and from it `MergeIsRightHolds`), `PipelineInvHolds` and `Implements`, for any fragments,
batches, limits and number of batches; of the constants `PipelineAssumption` is used: timestamps are
naturals, and what is queued is a batch.

* *The merge.* `Merging(b, out, left)` relates what is out and the set of lists that are left: every
  fragment of the batch is in one of them, what is out is in order, and nothing left may stand before
  it. `TakeFirst` shows that taking the first fragment of a list that begins no later than the others
  keeps it; it knows nothing of the heap. `PlaceIs` and `MinHeapIs` show that the heap stays `Ordered`
  by first timestamps while it has more than two lists, so that `HeapTurnOk` takes such a list;
  `PairTurnOk` compares the two. `AfterTurns` says that every turn but the last puts a fragment out.
  No fragment stands before itself, so that none is out twice (`OutIs`), and after as many turns as
  there are fragments (`AllIs`: their number is `Size`) a single list is left (`EndIs`).
* *The threads.* `PipelineIInv` is `TypeOK`, `CountsExact` and three parts that make it inductive.
  `ChoresOk`: a batch that is counted is queued next, so that the handler holds one exactly between
  the two. `SorterOk`: the sort thread has lists while it merges. `InOrder`: what is `Produced` (had
  by the observers, by the output thread, queued for it, and merged, in that order) is what the first
  batches merge to, and `Waiting` are the rest. A step moves a list from one of these places to the
  next, which changes neither (`LineMoves`), or merges the first that waits (`ConductsMerge`), or
  lets one more wait (`ConductsSubmit`). A merge does not change the number of fragments, or the
  counters would not fit: `CountsExact` rests on `MergeIs`.
* *The refinement.* `QueueBatch` is `Submit`, `OutputObserve` is `Deliver` because of `InOrder`, and
  every other step is a stutter of `SortConduit`.

Only checked by TLC: `Drains` (in `IsConduit`) and `XonAgain`, which are liveness. The counters'
wrapping is out of the question once they are never below zero and count fragments in memory.

## 6. USB readout

`acq` says where each acquisition thread is in `CAcquisitionThread.cpp`, `back` where `stopDaq` and
`startDaq` return to; `main` and `op` the same for the operator's command, `tcl` for the Tcl
server, `out` for the output thread. `requests` and `replies` are the queues of `CControlQueues`,
`queueLock` its mutex, `globalLock` the controller's; `free` and `filled` the buffer queues; `daq`
the controller's own state. A step is what lies between two accesses to what another thread may
change; a wait for a mutex, a reply, a buffer or a thread is a guard.

* acquisition: `InitBegin` to `Signal` are `init`, `startDaq`, `beginRun`; `GetBuffer`, `Read`,
  `Test` the main loop and `processCommand`; `StopLock` to `Stopped` are `stopDaq` and `drainUsb`;
  `Grant`, `Released`, `Autonomous` an acquire; `Pause` to `Resumed` are `pauseDaq`; `Ended` to
  `Return` the way out, which exceptions share;
* main: `Begin`, `Reconnect`, `Spawn`, `Started`; `End`, `PauseRun`, `ResumeRun`, `Exit` and the
  rest of each: `IfRunning`, `Ask`, `Answered`, `Join`, `Finish`;
* Tcl server: `SlowControl` to `Unlock` are Set, Get and Update; `MonitorDevices`, `TriggerList`;
  `WatchActive`, `SendWatched`; output: `GetFilled`, `PutFilled`.

Faults: a start, a read, the restart after a client had the controller (`RestartThrows`: the write
of `VMusbToAutonomous` behind RELEASE), a write to the controller while it is stopped or drained, and
a second such write while the first is dealt with (`WriteThrows`), may each throw once. `drainUsb`
has no handler: when its write throws, the buffer it has taken from the pool is in nobody's hands any
more. The ghost `lost` counts these, and `BuffersKept` says that no other is lost, and not more than
there were failed writes. A thread that failed may be on its way out while the next one begins,
and shares `m_Running`, the run state and the thread's `living` with it; the ghost `crossed` records
that a run began so. `RequestsFit`, `ControllerGranted`, `StoppedMeansOff` and `RequestsAnswered` are
about behaviours in which none did; section 9 has what happens in the others.

| run | instance | shows |
|---|---|---|
| `usb_readout` | 2 threads, 2 buffers, 2 runs, 2 of 5 faults, 1 buffer of data (0.8 M states) | `ReadoutInv` with `BuffersKept`, `RequestsFit`, `ControllerGranted`, `StoppedMeansOff`, `RunStateTrue`, `StreamInTurn`, `RequestsAnswered` |
| `usb_end_deadlock` | 1 thread, 1 run, no fault | a finding, section 9 |

Two runs let one thread's way out meet the next begin, with all that the two share; a third thread
adds what `crossed` excuses, and the theorems are about any number. Two buffers are the
fewest with which the main loop and `drainUsb` can each hold one; two faults reach the paths where a handler of an exception throws.

*Fairness* (`FairSpec`). Threads are scheduled, and a mutex that is released over and over is got
in the end (strong fairness), which Linux's futexes give in practice and POSIX does not promise; a
weaker assumption would let the main loop starve a client. The acquisition threads are one process
in this (`\E w : Acquire(w)`): two are there at once only in the cases below. Nobody has to type a
command or ask the server. `RequestsAnswered` names what ends a wait nowhere in the code: the
embrace of section 9, an acquisition thread that is gone, two threads at once (`crossed`), and a
pool that has lost so many buffers that fewer than two are left.

### Proofs (`UsbReadoutProofs.tla`)

`ReadoutInvariant`, `BuffersSafe`, `RequestsSafe`, `ControllerSafe`, `OffSafe`, `RunStateSafe`: the
invariants of the run, for any number of threads, runs, buffers and any set of faults.

`BuffersKept` and `LockInv` (who holds the two mutexes) are inductive in all behaviours. All else
rests on there being one acquisition thread, and holds until a run is `crossed`, which takes a
failed read or restart (`crossed => Bolted`), the two after which a thread leaves unasked:

* `ThreadInv`: one thread at most is anywhere, it is the one `tid` names, and `running` and `living`
  tell where it is;
* `CommandInv`, `StateInv`: where the operator's command and the thread can be together, and what
  the run state is meanwhile. A command is accepted by the state, and the thread changes it at two
  places only;
* `TalkInv`: the request and the reply queue hold at most one message, for the one who waits. The
  mutex of the control queues makes it so, and the assertions of `testRequest` and `pauseDaq`
  (`RequestsFit`) follow from who may be waiting;
* `FaultInv`, `TakingInv`: what the code of a handler of an exception finds, and that the controller
  takes data only while the thread is in its main loop or about to stop it.

The proof takes the only thread as a constant (`Solo`) and splits on the places; each action has a
lemma that says where it can be enabled.

Only checked by TLC: `StreamInTurn`, which is about the contents of the queue of filled buffers, and
`RequestsAnswered`.

Left out: the timer of `CMonitorVariables`, lists executed between runs, a failing output thread,
`ExitHandler`, quick start, and errors in the configuration. Also the CC-USB's copies of these
files, which differ in details.

## 7. SBS readout

`loop` says where each thread of the trigger loop is, `main` and `op` where the Tcl thread is;
`running`, `stopping`, `pausing`, `failed` are the loop's flags, every store a step; `events` is
the queue of the interpreter. `phase` and `shown` are what a reader of the ring makes of the items.
The item of a begin or resume is committed to the ring before `onBegin`, `onResume` and the start of
the thread are tried, and when one of these throws nobody takes it back: the program is where it was,
and the ring shows a run begun (or resumed) that is none. The ghost `vain` says that the last such
item is of a start that failed.

* starting: `Begin`/`Resume`, `StartItem` (which may throw ahead of the item), `StartPut` (the
  item, behind which `onBegin` or `onResume` may throw), `StartLoop` (which throws when a loop is
  running), `StartThrows`, `Spawn`, `Started`; stopping: `Pause`/`End`,
  `StopLoop`, `SetStopping`, `SetPausing`, or `Sync` when there is no loop to stop;
* the loop: `Birth`, `Run`, `Clear`; `PollEvent`, `ReadEvent`, `CountEvent`; `PollScaler`,
  `TriggerScalerReadout`, `AfterScalers`; `While`, `ScheduleEndRunBuffer`; `ReportFail` to `Failed`;
* the interpreter's events: `HandleEndRunEvent`, `EndSync`, `Join`; `HandleVarTrigger`, `Dump`;
  `HandleTriggerLoopError`, which ends the run as `readoutStateHook.tcl` has it.

| run | instance | shows |
|---|---|---|
| `sbs_readout` | 2 threads, 3 starts, dwell count 2, 2 faults, 2 events, 1 scaler (0.3 M states) | `SbsInv`, `RingSerialized`, `EventsCounted`, `StateTrue`, `OperationsReturn`, `StopHalts` |
| `sbs_end_lost` | 1 thread, 1 start, nothing fires | a finding, section 9 |

Three starts let a failed run, a second one and a resume follow each other; a dwell count of two
has turns with and without a look at the flags; two events make the count differ from a flag.

*Fairness.* Threads are scheduled, and the Tcl event loop comes round to the interpreter's queue
however many commands there are (strong fairness of `HandleEvent`). `StopHalts` begins when the
loop can see the request, since before that the code may lose it.

### Proofs (`SbsReadoutProofs.tla`)

`SbsInvariant`, `RingSafe`, `ItemsSafe`, `CountSafe`, `StateSafe`, for any number of threads, starts,
faults, events and any dwell count. The run state is stored by two threads and read by both without
a lock, so `SbsInv` is mostly about who is where:

* `LoopInv`: of all threads ever started at most one still reads or writes events, and the flags are
  true to where it is;
* `MainInv`: where the Tcl thread is in an operation, with the run state and the flags there;
* `QueueInv`: in the interpreter's queue a thread's own end or dump is last, behind the failures of
  threads before it, so that the Tcl thread joins the right one;
* `ShownInv`: the run a reader of the ring has seen is the run the program is in, or the one of a
  start in vain when the program is in none (or still paused), and the events shown are those
  counted, less the one between the two. `ItemsInTurn` follows: begins, pauses, resumes and ends take
  turns, data and documentation come only in a run that is being taken, and what may follow an item
  in vain is the next begin, resume or end that the program accepts;
* `FaultlessInv`: without faults there is one thread and a join waits for it.

Only checked by TLC: `OperationsReturn`, `StopHalts`. Larger instances were checked once with the same
result: 3 faults and 4 starts (0.8 M states), 3 threads (0.7 M).

Left out: the VME lock between processes, exceptions of the hooks that stop a run, the run
timer, statistics, spurious wake-ups of the conditions, and exceptions in the interpreter's event
handlers.

## 8. glom

`acc` is glom's file-scope state as a record; what the main thread does with a fragment is a
function of it: `Handle` is the body of `main`'s loop, `AccumulateEvent`, `FlushEvent`,
`OutputBarrier`, `OutputEventCount`, `GlomParameters` are the functions of these names. Their
output is `acc.out`, items that `PutItem` puts one at a time into the current `buffer`; a full
buffer, an item behind which the code flushes (its field `flush`) or a timeout (at any put) queues
it, and `GetFreeBuffer` waits for the next. The output thread is `GetQueuedBuffer`, `WriteBuffer`, `WriteFails`; `Exit` is
the end of the process, which takes the output thread along, in the middle of a write or not.
`EndOfInput` and `ReadFails` are the ways out of the main loop. `received`, `stream`, `written` and
`ends` are ghosts: what was read, what was made of it, what was written of that, and where in it
each queued buffer ends.

`Fragments` are records of kind, barrier type and timestamp; timestamps are modulo `Word` (2^64),
the nesting of runs modulo `Unsigned` (2^32). At an end of input within a run the code makes an item
of whatever is behind the fragment header on its stack (section 9): any kind in `Junk`.

| run | instance | shows |
|---|---|---|
| `glom` | inputs of up to 4 of 6 kinds of fragment, 3 timestamps, window 1, `--maxfragments` 1, each policy and no building, 2 buffers of 2 items (1.0 M states) | `GlomInv` with `BuffersKept`, `StreamKept` and `AccInv`, `EventsBuilt`, `BarriersBetween`, `CountsTrue`, `StampsTrue`, `EndSeen` |
| `glom_maximum` | the same with `--maxfragments` 2 and inputs of up to 3 | a finding, section 9 |

Timestamps 0, 2, 3 have pairs inside and outside the window in both directions, and the sum of two
threes is one `Word`. Four fragments are begin, two of an event and a scaler, or a full event and
its successor on either side of a barrier. Two buffers make the main thread wait for the output
thread, which ten would in a longer input only.

`EventsBuilt` says what events are without reference to how they are accumulated: the physics
fragments in order, cut where the next one would not fit, and nowhere else. What fits is the code's:
fragments are counted before the limit is looked at, so that an event may have `--maxfragments` + 1
(`WithinMaximum` is the documented limit, which `glom_maximum` refutes). *Fairness:* both threads
are scheduled; input need neither come nor end. `EndSeen` is about what is flushed; physics data
behind it may stay in the buffer for as long as input pauses, for the timeout is looked at in `put`.

### Proofs (`GlomProofs.tla`)

`GlomInvariant`, `EventsSafe`, `BarriersSafe`, `CountsSafe`, `StampsSafe`, for any fragments, window,
limit, word sizes, pool and length of input; of the constants only `GlomAssumption` is used. The
inductive invariant `GlomIInv` is `TypeOK`, `BuffersKept`, `StreamKept` and `MadeInv`.

* `MadeInv`: main handles a fragment by several functions in a row, and the invariants hold between
  any two of them. So they are stated as `Ok(a, s, r, n)`, of an accumulator `a`, the stream `s` made
  so far, the input `r` and how many `n` of it are handled, and there is a lemma for each function:
  `EndEvent` (flushEvent), `PassOk` (outputBarrier), `ParamsOk`, `AccumulateOk`; `HandleOk` puts them
  together, `OkLonger` lets the input grow, `OkNext` ends it. The parts of `Ok` are the properties for
  the items in the stream, and what makes them inductive: the statics (`firstEvent`, the stamps, the
  count and the sum) describe the event being built (`StaticsOk`), no barrier is behind its first
  fragment (`BarsOk`), and it is parted from the last one in the stream (`NowOk`). Without an event
  being built a barrier must be behind the last one (`Closed`), which is why the next fragment may
  begin an event: the flush at a barrier is the only one that leaves no event behind.
* `Kept`: what is written, in hand, queued, buffered and still to be put are parts of the stream, one
  behind the other. Places in the stream (`Part`, `ends`) take the place of a concatenation of all
  queued buffers, about which nothing could be proved without induction.
* `Total` (`Sums`), the sum of an event's stamps, is a recursive function. `TotalIs` proves from the existence
  of such a function, by a least counterexample, what a longer sequence adds (`TotalAppend`);
  `ApartIsNear` that the two unsigned differences find what is within the window on a clock of `Word`
  ticks.

Only checked by TLC: `EndSeen`.

Left out: the fragment reader's own buffering, and the division of an item over two buffers, which
the output thread undoes.

## 9. Findings

Three runs end in a violation of what the code or its documents say of it:

* **`EndAnswered`** (`CSetCommand.cpp`, `CControlQueues.cpp`, `CAcquisitionThread.cpp`). Set, Get and
  Update hold the controller's mutex and ask for the control queues; the end of a run holds the
  queues' mutex and waits for the acquisition thread; `stopDaq` wants the controller's mutex.
* **`EndEnds`** (`CTriggerLoop.cpp`). `start` returns when `running` is set, and the new thread
  clears `stopping` after that: an end in between is forgotten and the run goes on.
* **`WithinMaximum`** (`glomMain.cpp`). `--maxfragments` is the "Maximum number of fragments in an
  event" (`glom.ggo`), and glom makes events of one more.

Observed while modelling; the models execute them, and the properties are stated around them:

* `CRingBuffer.cpp:1373`: `Skip` publishes the unwrapped offset first. A consumer that has wrapped
  and looks then computes a whole ring too much and returns bytes it has read before (`lapGet`).
* `CRingBuffer.cpp:1025`: after the sleep for a joiner the search restarts at record 0 but does not
  test that record's pid again; a consumer joining there can be overrun (`lateJoin`).
* `CFragmentHandler.cpp:1479`: generating a barrier clears `m_fBarrierPending` although a source may
  have queued a second one.
* `CFragmentHandler.cpp:755`: a failed source's own barrier is counted against the live sources, and
  a barrier is given up that a live source still misses.
* `CFragmentHandler.cpp:958`: a complete flush queues two lists of one source for one merge, in which
  a barrier can overtake earlier data with the same timestamp (`overtaken`).
* `CFragmentHandler.cpp:1640`: a queue's socket name is set when the queue is created. After its source
  has come back the queue's flow control reaches nobody: the source sends on into a queue that is over
  its limit.
* Of the late fragments of a source in one batch only the first is reported to the observers.
* `CFragmentHandler.cpp:1775`: the two counters of the threads are read one after the other, and a
  batch on its way between them is in neither: sources are flowed on above the low water mark.
* `CSetCommand.cpp`: a client that looks while a run starts uses the controller without acquiring it
  while data are taken; `TclServer.cpp:469`: a late monitor trigger restarts data taking after the
  end of a run. An `init` that fails to start leaves the state Starting.
* `CAcquisitionThread.cpp`, `Thread.cpp`: a thread whose read failed stores `m_Running` and the run
  state last of all. If a second run has begun by then these stores are taken for that run's end: a
  third begin is accepted while the second thread is paused, and the assertions of `testRequest`
  and `pauseDaq` can fail (`crossed`).
* `CAcquisitionThread.cpp:788`: a write that throws in `drainUsb` loses the buffer it holds; two such
  leave a pool of two empty. `:347` and `:675`: a write that throws when data taking is restarted
  behind a client's RELEASE ends the thread, as a failed read does.
* `CExperiment.cpp:283`: a begin or resume that fails leaves its item in the ring, so that the ring has
  two begins, or two resumes, in a row (`vain`). The command reports that the run state has not
  changed, which is true of the program only.
* `CTriggerLoop.cpp:100`: `m_pausing` is stored after `m_stopping`. A loop that looks in between takes
  a pause for an end, and after a pause and a resume an end for a pause: the run that `EndEnds` says
  should end is paused.
* `CTriggerLoop.cpp`: `failed` is set after the error is queued, so that the end the error handler
  asks for may be lost.
* `glomMain.cpp`: the 64-bit sum behind `average` wraps for timestamps in nanoseconds since
  1970 from eleven fragments on; "earliest" is the first received; `emitAbnormalEnd` never copies the
  item it makes; the outputter is never destroyed, so that the last items can be lost at the end;
  after a failed write the main thread fills the pool and then waits for ever.

Hard to test as well, and covered by no property: record locks exclude processes only, not two `CRingBuffer`s
of one process (`CRingBuffer.cpp:611`); `get` accepts a minimum that the ring can never hold (`:811`);
a connection accepted while one queue is off is not readable until the whole handler has been flowed
off and on (`ConnectionManager.tcl:641`); `pruneRings` appends to a variable named after the list
(`RingMaster.tcl:380`); `CBufferQueue::get` may miss a signal (`CBufferQueue.cpp:94`).

## 10. Limits and what is not modelled

TLC checks the instances above; the theorems are about every instance of `RingBuffer`,
`FragmentHandler`, `SortPipeline`, `UsbReadout`, `SbsReadout` and `Glom`. What stays with TLC, and why:

* liveness: fairness and `ENABLED` are beyond the provers used;
* `StreamInTurn` of the USB readout, as said above.

What a property excuses it does not check, and some of section 1's hazards are in the excuses: the
ring's timing windows; a barrier left behind (`leftover`) and a reset that forgets what was off;
`crossed`, and the USB readout's stream of items once a fault occurred (`StreamInTurn` asks for
`faults = {}`); a wait for an acquisition thread that is gone; a stop that the SBS loop cannot see yet;
a fragment out of order within one of glom's events. `PutCompletes` supposes readers that live and
`EndSeen` one that goes on reading. That the flow is not turned on too early is no property of
`SortPipeline`: `CountsExact` says by how much the sum of the counters may be short.

Most of the repository is outside this project. Vendored code, device packages, displays, wizards,
converters and documentation have no behaviour of their own that several actors share. Hardware
libraries translate configuration into bus operations. The run state machine of the GUI, the
data source manager and the experiment manager run one step after another in one interpreter; what
can go wrong there is in the programs and scripts they start. The state manager and the software
trigger framework stand on message libraries (ZMQ, MPI) whose guarantees are not in these sources.
RingMaster's registry, the port manager, the event logger and the ring source are sequential
servers and filters. `PROJECT.json` gives the reason for each component.
