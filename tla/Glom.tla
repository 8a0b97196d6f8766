---------------------------------- MODULE Glom ----------------------------------
(***************************************************************************)
(* glom, the last stage of the event builder's pipeline: it reads the      *)
(* ordered fragments, glues those that are close in time into events, lets *)
(* everything else through and writes ring items.  The main thread puts    *)
(* them into buffers (CBufferedOutput); an output thread writes the        *)
(* buffers.                                                                *)
(*                                                                         *)
(* A fragment is what its header and the ring item in its body say: its    *)
(* kind, its barrier type (0: none) and its timestamp.  It is told apart   *)
(* by its place in the input.  An item is put and written whole.           *)
(***************************************************************************)
EXTENDS Integers, Sequences, FiniteSets, SequencesExt, Sums

CONSTANTS
    Fragments,      \* what the input may hold: [kind, bar, ts]
    Junk,           \* the kinds of item the stack may look like
    Options,        \* the command lines: [policy, build]
    Window,         \* --dt
    MaxFragments,   \* --maxfragments
    Word, Unsigned, \* values of a uint64_t and of an unsigned
    NBuffers,       \* buffers of the output's pool
    Capacity,       \* items a buffer holds
    MaxInput        \* bound: fragments read

Known == {"PHYSICS", "BEGIN", "END", "SCALER", "ABEND"}

ASSUME GlomAssumption ==
    /\ \A f \in Fragments : /\ f.kind \in Known \cup {"OTHER"}
                            /\ f.bar \in Nat /\ f.ts \in 0 .. Word - 1
    /\ Options \subseteq [policy : {"earliest", "latest", "average"}, build : BOOLEAN]
    /\ Junk \subseteq Known \cup {"OTHER"}
    /\ Window \in Nat /\ MaxFragments \in Nat
    /\ Word \in Nat \ {0} /\ Unsigned \in Nat \ {0}
    /\ NBuffers \in Nat \ {0} /\ Capacity \in Nat \ {0} /\ MaxInput \in Nat

VARIABLES
    options,    \* the command line: policy, and whether to build
    acc,        \* main: the event it accumulates, its counters, what it has to put
    buffer,     \* main: m_pCurrent's items
    main,       \* main: where it is
    queued,     \* m_queuedBuffers
    ends,       \* ghost: where in the stream each of them ends
    free,       \* how many are in m_freeBuffers
    writer,     \* output thread: where it is
    hand,       \* output thread: what is left of the buffer it writes
    received,   \* ghost: the fragments read
    stream,     \* ghost: the items made of them
    written     \* ghost: the items written

output == <<buffer, queued, ends, free, writer, hand, written>>
vars == <<options, acc, main, received, stream, output>>

\* flush: the outputter is flushed behind the item.
Item(type, frags, ts, n, flush) ==
    [type |-> type, frags |-> frags, ts |-> ts, n |-> n, flush |-> flush]
Bare(type) == Item(type, <<>>, 0, 0, FALSE)

\* outputEventFormat is the first to put.
Init ==
    /\ options \in Options
    /\ acc = [event |-> <<>>, firstEvent |-> TRUE, first |-> 0, last |-> 0, sum |-> 0,
              count |-> 0, events |-> 0, nesting |-> 0, firstBarrier |-> TRUE,
              out |-> <<Bare("FORMAT")>>]
    /\ buffer = <<>> /\ main = "run" /\ queued = <<>> /\ ends = <<>>
    /\ free = NBuffers - 1
    /\ writer = "get" /\ hand = <<>>
    /\ received = <<>> /\ stream = <<Bare("FORMAT")>> /\ written = <<>>

-----------------------------------------------------------------------------
(* What main does with a fragment: functions of acc. *)

Put(a, item) == [a EXCEPT !.out = Append(@, item)]

EventTimestamp(a) ==
    CASE options.policy = "earliest" -> a.first
      [] options.policy = "latest" -> a.last
      [] options.policy = "average" -> a.sum \div a.count

FlushEvent(a) ==
    IF a.event = <<>> THEN a
    ELSE [Put(a, Item("EVENT", a.event, EventTimestamp(a), 0, FALSE)) EXCEPT
            !.event = <<>>, !.firstEvent = TRUE, !.events = @ + 1]

OutputEventCount(a) == Put(a, Item("COUNT", <<>>, 0, a.events, FALSE))

\* Mutant of Passed: nothing is flushed.
PassedUnflushed(kind, id) ==
    Item(IF kind \in Known THEN kind ELSE "UNKNOWN", <<id>>, 0, 0, FALSE)

\* The item in a fragment's body, or the fragment if that is none, put and flushed.
Passed(kind, id) ==
    Item(IF kind \in Known THEN kind ELSE "UNKNOWN", <<id>>, 0, 0, TRUE)

\* Mutant of OutputBarrier: a begin run leaves the counter of events.
OutputBarrierCounting(a, id, kind) ==
    LET b == Put(a, Passed(kind, id))
    IN  CASE kind = "BEGIN" -> [b EXCEPT !.nesting = (@ + 1) % Unsigned]
          [] kind = "END" -> [b EXCEPT !.nesting = (@ - 1) % Unsigned]
          [] kind = "SCALER" -> OutputEventCount(b)
          [] kind = "ABEND" -> [b EXCEPT !.nesting = 0]
          [] OTHER -> b

\* outputBarrier, of every fragment that is not built into an event.
OutputBarrier(a, id, kind) ==
    LET b == Put(a, Passed(kind, id))
    IN  CASE kind = "BEGIN" -> [b EXCEPT !.events = 0, !.nesting = (@ + 1) % Unsigned]
          [] kind = "END" -> [b EXCEPT !.nesting = (@ - 1) % Unsigned]
          [] kind = "SCALER" -> OutputEventCount(b)
          [] kind = "ABEND" -> [b EXCEPT !.nesting = 0]
          [] OTHER -> b

\* Mutant of TimeApart: in one direction only.
TimeAfter(t, first) == (t - first) % Word

\* tsdiff: unsigned differences in both directions.
TimeApart(t, first) ==
    LET forth == (t - first) % Word
        back == (first - t) % Word
    IN  IF forth < back THEN forth ELSE back

\* The event is complete before a fragment with timestamp t.
Complete(a, t) ==
    \/ ~options.build
    \/ ~a.firstEvent /\ TimeApart(t, a.first) > Window
    \/ a.count > MaxFragments

\* Mutant of BeginEvent: the sum of the previous event stays.
BeginEventSumming(a, t) ==
    IF a.firstEvent THEN [a EXCEPT !.first = t, !.firstEvent = FALSE, !.count = 0] ELSE a

BeginEvent(a, t) ==
    IF a.firstEvent
    THEN [a EXCEPT !.first = t, !.firstEvent = FALSE, !.count = 0, !.sum = 0]
    ELSE a

AccumulateEvent(a, id, t) ==
    LET b == BeginEvent(IF Complete(a, t) THEN FlushEvent(a) ELSE a, t)
    IN  [b EXCEPT !.last = t, !.count = @ + 1, !.sum = (@ + t) % Word,
                  !.event = Append(@, id)]

\* outputGlomParameters
GlomParameters(a, bar) ==
    IF a.firstBarrier /\ bar = 1
    THEN [Put(a, Bare("PARAMS")) EXCEPT !.firstBarrier = FALSE] ELSE a

\* Mutant of Handle: a barrier does not end the event.
HandleUnflushed(a, id, f) ==
    IF f.bar # 0 THEN GlomParameters(OutputBarrier(a, id, f.kind), f.bar)
    ELSE LET b == [a EXCEPT !.firstBarrier = TRUE]
         IN  IF f.kind = "PHYSICS" THEN AccumulateEvent(b, id, f.ts)
             ELSE OutputBarrier(b, id, f.kind)

\* The body of main's loop.
Handle(a, id, f) ==
    IF f.bar # 0 THEN GlomParameters(OutputBarrier(FlushEvent(a), id, f.kind), f.bar)
    ELSE LET b == [a EXCEPT !.firstBarrier = TRUE]
         IN  IF f.kind = "PHYSICS" THEN AccumulateEvent(b, id, f.ts)
             ELSE OutputBarrier(b, id, f.kind)

-----------------------------------------------------------------------------
(* The main thread. *)

Becomes(a) == acc' = a /\ stream' = stream \o a.out

\* io::writeData has written some of the buffer.
WriteSome ==
    \E n \in 0 .. Len(hand) :
        /\ written' = written \o SubSeq(hand, 1, n)
        /\ hand' = SubSeq(hand, n + 1, Len(hand))

Reading == main = "run" /\ acc.out = <<>>

GetFragment ==
    /\ Reading /\ Len(received) < MaxInput
    /\ \E f \in Fragments :
          /\ received' = Append(received, f)
          /\ Becomes(Handle(acc, Len(received) + 1, f))
    /\ UNCHANGED <<options, main, output>>

\* The end of the input: the item of an abnormal end is made of what is on the
\* stack behind the fragment header, since the body is never copied into it.  Its
\* place is behind the input.
EndOfInput ==
    /\ Reading /\ main' = "return"
    /\ LET a == FlushEvent(acc)
       IN  IF a.nesting = 0 THEN Becomes(a)
           ELSE \E kind \in Junk : Becomes(OutputBarrier(a, Len(received) + 1, kind))
    /\ UNCHANGED <<options, received, output>>

\* The other exceptions: an error from read or poll, a fragment cut short.
ReadFails ==
    /\ Reading /\ main' = "return"
    /\ UNCHANGED <<options, acc, received, stream, output>>

\* main returns, and the output thread ends with the process, in the middle of a
\* write or not: nobody deletes the outputter.
Exit ==
    /\ main = "return" /\ acc.out = <<>> /\ main' = "exited" /\ WriteSome
    /\ UNCHANGED <<options, acc, received, stream, buffer, queued, ends, free, writer>>

\* CBufferedOutput::put.  "full" and "fullReturn": flush has queued the buffer and
\* waits for a free one.
Waiting == [run |-> "full", return |-> "fullReturn"]
Resumed == [full |-> "run", fullReturn |-> "return"]
Putting == main \in DOMAIN Waiting /\ acc.out # <<>>

Flush(items) ==
    /\ queued' = Append(queued, items) /\ ends' = Append(ends, Len(stream) - Len(acc'.out))
    /\ buffer' = <<>> /\ main' = Waiting[main]

PutItem ==
    /\ Putting /\ acc' = [acc EXCEPT !.out = Tail(@)]
    /\ LET item == Head(acc.out)
           items == Append(buffer, item)
       IN  \/ Flush(items)             \* full, or flushed, or the timeout has passed
           \/ /\ Len(items) < Capacity /\ ~item.flush
              /\ buffer' = items /\ UNCHANGED <<queued, ends, main>>
    /\ UNCHANGED <<options, received, stream, free, writer, hand, written>>

\* reset
GetFreeBuffer ==
    /\ main \in DOMAIN Resumed /\ free > 0
    /\ free' = free - 1 /\ main' = Resumed[main]
    /\ UNCHANGED <<options, acc, received, stream, buffer, queued, ends, writer,
                   hand, written>>

-----------------------------------------------------------------------------
(* The output thread. *)

Alive == main # "exited"

\* Mutant of GetQueuedBuffer: the one queued last.
GetQueuedLast ==
    /\ Alive /\ writer = "get" /\ queued # <<>>
    /\ hand' = Last(queued) /\ queued' = Front(queued) /\ ends' = Front(ends)
    /\ writer' = "write"
    /\ UNCHANGED <<options, acc, main, received, stream, buffer, free, written>>

GetQueuedBuffer ==
    /\ Alive /\ writer = "get" /\ queued # <<>>
    /\ hand' = Head(queued) /\ queued' = Tail(queued) /\ ends' = Tail(ends)
    /\ writer' = "write"
    /\ UNCHANGED <<options, acc, main, received, stream, buffer, free, written>>

\* The exception ends the thread, which keeps the buffer.
WriteFails ==
    /\ Alive /\ writer = "write" /\ writer' = "dead" /\ WriteSome
    /\ UNCHANGED <<options, acc, main, received, stream, buffer, queued, ends, free>>

\* io::writeData and freeBuffer
WriteBuffer ==
    /\ Alive /\ writer = "write" /\ writer' = "get"
    /\ written' = written \o hand /\ hand' = <<>> /\ free' = free + 1
    /\ UNCHANGED <<options, acc, main, received, stream, buffer, queued, ends>>

-----------------------------------------------------------------------------
MainOutputs == PutItem \/ GetFreeBuffer
WriterOutputs == GetQueuedBuffer \/ WriteBuffer

Next ==
    \/ GetFragment \/ EndOfInput \/ ReadFails \/ Exit
    \/ MainOutputs \/ WriterOutputs \/ WriteFails

Spec == Init /\ [][Next]_vars

\* Both threads are scheduled.  Input need never come, nor end.
FairSpec == Spec /\ WF_vars(MainOutputs) /\ WF_vars(WriterOutputs)

-----------------------------------------------------------------------------
(* Properties. *)

Types == Known \cup {"EVENT", "COUNT", "UNKNOWN", "FORMAT", "PARAMS"}
Items == [type : Types, frags : Seq(1 .. MaxInput + 1), ts : 0 .. Word - 1, n : Nat,
          flush : BOOLEAN]
Accumulators ==
    [event : Seq(1 .. MaxInput), firstEvent : BOOLEAN, first : 0 .. Word - 1,
     last : 0 .. Word - 1, sum : 0 .. Word - 1, count : Nat, events : Nat,
     nesting : 0 .. Unsigned - 1, firstBarrier : BOOLEAN, out : Seq(Items)]

TypeOK ==
    /\ options \in Options /\ acc \in Accumulators
    /\ received \in Seq(Fragments) /\ Len(received) <= MaxInput
    /\ main \in {"run", "full", "return", "fullReturn", "exited"}
    /\ writer \in {"get", "write", "dead"} /\ free \in 0 .. NBuffers
    /\ {buffer, hand, stream, written} \subseteq Seq(Items)
    /\ queued \in Seq(Seq(Items)) /\ ends \in Seq(Nat)

\* No buffer of the pool is lost or used twice: each is free, queued, the output
\* thread's or main's, and main's is never full when it wants to put.
BuffersKept ==
    /\ free + Len(queued) + (IF writer = "get" THEN 0 ELSE 1)
            + (IF main \in DOMAIN Resumed THEN 0 ELSE 1) = NBuffers
    /\ Len(buffer) < Capacity
    /\ writer = "get" => hand = <<>>
    /\ main \in DOMAIN Resumed => buffer = <<>>
    /\ \A k \in DOMAIN queued : queued[k] # <<>>

\* s is what the stream has behind place n.
Part(s, n) == n + Len(s) <= Len(stream) /\ \A i \in DOMAIN s : s[i] = stream[n + i]
Start(k) == IF k = 1 THEN Len(written) + Len(hand) ELSE ends[k - 1]

\* Nothing is lost, doubled or reordered between the two threads: what is written,
\* in the output thread's hands, queued, in main's buffer and still to be put is
\* the stream, also after a failed write and after the process has ended.
StreamKept ==
    /\ Part(written, 0) /\ Part(hand, Len(written))
    /\ Len(ends) = Len(queued)
    /\ \A k \in DOMAIN queued :
          Part(queued[k], Start(k)) /\ ends[k] = Start(k) + Len(queued[k])
    /\ LET n == Start(Len(queued) + 1)
       IN  /\ Part(buffer, n) /\ Part(acc.out, n + Len(buffer))
           /\ n + Len(buffer) + Len(acc.out) = Len(stream)

Stamp(id) == received[id].ts
Stamps(e) == [i \in DOMAIN e |-> Stamp(e[i])]
\* On a clock of Word ticks.
Near(s, t) == \E d \in -Window .. Window : s = (t + d) % Word
IsBarrier(id) == id \in DOMAIN received /\ received[id].bar # 0
IsPhysics(id) == id \in DOMAIN received /\ received[id].bar = 0 /\ received[id].kind = "PHYSICS"
BarrierWithin(i, j) == \E id \in i .. j : IsBarrier(id)
IsEvent(x) == x.type = "EVENT"
\* The events put since the last begin run, at place p.
Since(p) == {q \in 1 .. p : IsEvent(stream[q]) /\ \A r \in q .. p : stream[r].type # "BEGIN"}

\* The statics describe the event being built, no barrier is behind its first
\* fragment, and there is none only if a barrier is behind the last one.
AccInv ==
    /\ acc.firstEvent <=> acc.event = <<>>
    /\ acc.event # <<>> =>
          /\ acc.first = Stamp(acc.event[1]) /\ acc.last = Stamp(Last(acc.event))
          /\ acc.count = Len(acc.event) /\ acc.sum = Total(Stamps(acc.event)) % Word
    /\ acc.events = Cardinality(Since(Len(stream)))
    /\ \A id \in Range(acc.event) : \A b \in id .. Len(received) : ~IsBarrier(b)
    /\ acc.event = <<>> /\ main \in {"run", "full"} =>
          \A p \in DOMAIN stream : IsEvent(stream[p]) =>
              BarrierWithin(Last(stream[p].frags), Len(received))

\* An item is made of what has been read, or at the end of what is behind it.
ReadInv ==
    \A p \in DOMAIN stream : \A id \in Range(stream[p].frags) :
        id <= Len(received) + (IF main \in {"run", "full"} THEN 0 ELSE 1)

GlomInv == TypeOK /\ BuffersKept /\ StreamKept /\ AccInv /\ ReadInv

\* An event is near its first fragment, in the order of arrival, and no longer than
\* accumulateEvent's own limit, fragmentCount > maxFragments before a fragment is added (one
\* fragment if not building).  It is not the limit of the option: see WithinMaximum.
EventOk(e) ==
    /\ e # <<>> /\ Len(e) <= IF options.build THEN MaxFragments + 1 ELSE 1
    /\ \A i \in DOMAIN e : IsPhysics(e[i]) /\ Near(Stamp(e[i]), Stamp(e[1]))
    /\ \A i, j \in DOMAIN e : i < j => e[i] < e[j]
Before(d, e) == \A i \in DOMAIN d, j \in DOMAIN e : d[i] < e[j]
\* d could not have taken the first fragment of e.
Parted(d, e) ==
    \/ ~options.build
    \/ Len(d) = MaxFragments + 1
    \/ ~Near(Stamp(e[1]), Stamp(d[1]))
    \/ BarrierWithin(Last(d), e[1])

\* With the event being built.
Made == IF acc.event = <<>> THEN stream
        ELSE Append(stream, Item("EVENT", acc.event, 0, 0, FALSE))
MadeEvents == {p \in DOMAIN Made : IsEvent(Made[p])}

\* accumulateEvent: every physics fragment is in one event, in the order of
\* arrival; events are as they should be, and none could have taken the first
\* fragment of the next one.
EventsBuilt ==
    /\ \A id \in DOMAIN received :
          IsPhysics(id) => \E p \in MadeEvents : id \in Range(Made[p].frags)
    /\ \A p \in MadeEvents : EventOk(Made[p].frags)
    /\ \A p, q \in MadeEvents : p < q =>
          /\ Before(Made[p].frags, Made[q].frags)
          /\ (p + 1 .. q - 1) \cap MadeEvents = {} => Parted(Made[p].frags, Made[q].frags)

\* --maxfragments, "Maximum number of fragments in an event": no event that glom puts has
\* more.  The code allows one more, and this is violated.
WithinMaximum ==
    options.build =>
        \A p \in DOMAIN stream : IsEvent(stream[p]) => Len(stream[p].frags) <= MaxFragments

\* Physics data never moves across a state change: of two items of which one is a
\* barrier's, the one that arrived first is put first, and all of it.
BarriersBetween ==
    \A p, q \in DOMAIN stream : p < q =>
        \A i \in Range(stream[p].frags), j \in Range(stream[q].frags) :
            (IsBarrier(i) \/ IsBarrier(j)) => (i < j)

\* outputEventCount: a count is the number of events put since the last begin run.
CountsTrue ==
    \A p \in DOMAIN stream : stream[p].type = "COUNT" => stream[p].n = Cardinality(Since(p))

StampTrue(stamps, ts) ==
    /\ options.policy = "average" /\ Total(stamps) < Word =>
          ts * Len(stamps) \in Total(stamps) - Len(stamps) + 1 .. Total(stamps)
    /\ (\A i, j \in DOMAIN stamps : i < j => stamps[i] <= stamps[j]) =>
          /\ options.policy = "earliest" =>
                ts \in Range(stamps) /\ \A t \in Range(stamps) : ts <= t
          /\ options.policy = "latest" =>
                ts \in Range(stamps) /\ \A t \in Range(stamps) : t <= ts

\* --timestamp-policy: the mean timestamp of an event, if their sum is no larger than
\* a uint64_t; or, of one whose fragments are in order, the smallest or the largest.
StampsTrue ==
    \A p \in DOMAIN stream :
        IsEvent(stream[p]) => StampTrue(Stamps(stream[p].frags), stream[p].ts)

Owed == \E id \in DOMAIN received :
            /\ received[id].kind # "PHYSICS"
            /\ \A p \in DOMAIN written : id \notin Range(written[p].frags)

\* outputBarrier's flush ("So end runs are always seen quickly"): whenever input
\* pauses, all that is not physics gets written, unless a write fails or the
\* process ends first.
EndSeen == Owed ~> (~Owed \/ writer = "dead" \/ ~Alive)
=================================================================================
