---------------------------- MODULE FragmentHandler ----------------------------
(***************************************************************************)
(* The event orderer's CFragmentHandler with the ConnectionManager in front*)
(* of it: data sources connect, send fragments that are kept in one sorted *)
(* queue per source, and are handed in batches to the sort thread as soon  *)
(* as every source has passed them, or the build window has.  A barrier    *)
(* fragment holds its queue until every source has one.                    *)
(*                                                                         *)
(* All of it runs in the Tcl event loop.  A handler is one chain of actions*)
(* through step: between two of them no other handler runs.  Each source   *)
(* has a socket of its own.  The sort and output threads appear only as    *)
(* the load checkXon and checkXoff read; SortPipeline models them.  The    *)
(* age of a queued fragment replaces the clock: seconds since it was       *)
(* received, no further than the handler can tell apart.                   *)
(***************************************************************************)
EXTENDS Integers, Sequences, FiniteSets, FiniteSetsExt, SequencesExt

CONSTANTS
    NSources,       \* source ids are 1 .. NSources
    Stamps,         \* timestamps of fragments, 0 for NULL_TIMESTAMP
    Window,         \* m_nBuildWindow in seconds
    QXon, QXoff,    \* m_nPerQXonLimit, m_nPerQXoffLimit
    Loads,          \* in-flight counts checkXon and checkXoff may see
    Commands,       \* commands of users and of scripts that may be given
    MaxFragments    \* bound: fragments each source sends

Sources == 1 .. NSources
Null == 0
Nobody == 0
Never == Max(Stamps) + 1        \* UINT64_MAX, past every timestamp
MaxAge == 4 * Window + 1
AnyCommand == {"flush", "abort", "reset", "stall", "disconnect"}

ASSUME HandlerAssumption ==
    /\ NSources \in Nat \ {0} /\ Stamps \subseteq Nat /\ Stamps \ {Null} # {}
    /\ \E last \in Stamps : \A t \in Stamps : t <= last
    /\ Window \in Nat /\ QXon \in Nat \ {0} /\ QXoff \in Nat /\ QXon <= QXoff
    /\ Loads \subseteq {"low", "between", "high"} /\ Loads # {}
    /\ Commands \subseteq AnyCommand
    /\ MaxFragments \in Nat

VARIABLES
    step,       \* what the handler in progress does next
    call,       \* the entry point it was called by
    sender,     \* the source whose message addFragments is working on
    known,      \* m_FragmentQueues: the ids that have a queue
    queue,      \* s_queue of each
    newest,     \* s_newestTimestamp of each
    live,       \* m_liveSources
    dead,       \* sources whose connection's socket is in m_deadSockets
    pending,    \* m_fBarrierPending
    popped,     \* m_nMostRecentlyPopped
    flow,       \* Xon and Xoff: what the handler and the sockets believe
    conn,       \* connections: none, forming, active
    stalled,    \* timedoutSources of the ConnectionManager
    watching,   \* whether _CheckSourceTimeouts is scheduled
    tries,      \* connections the tryRead loop has still to look at
    got,        \* ghost: fragments received of each source, their ids
    gone,       \* ghost: ids of each source handed to the sort thread
    top,        \* ghost: the largest timestamp handed over but in barriers
    highest,    \* ghost: the largest timestamp received of each source
    unruly,     \* ghost: sources that sent a fragment older than one before it
    twins,      \* ghost: sources that sent one just as old as the newest before it
    overtaken,  \* ghost: sources of which a batch had a fragment before an earlier one
    past,       \* ghost: which of Events have happened
    outcome     \* ghost: which of Outcomes some batch has had

queues == <<known, queue, newest, popped>>
sourcesState == <<live, dead, conn, stalled, watching, tries>>
ghosts == <<got, gone, top, highest, unruly, twins, overtaken, past, outcome>>
vars == <<step, call, sender, queues, pending, flow, sourcesState, ghosts>>

\* What may change the order of the output, a barrier left queued without the
\* flag, and a queue flowed off and forgotten.
Events == {"newSource", "window", "barrier", "flush", "reset", "leftover", "forgot"}
\* What the output may look like: a fragment older than one of an earlier batch,
\* with the data late observers told or not; a barrier among the data.
Outcomes == {"backward", "unnoticed", "mixed"}

Init ==
    /\ step = "idle" /\ call = "none" /\ sender = Nobody
    /\ known = {} /\ queue = [s \in Sources |-> <<>>]
    /\ newest = [s \in Sources |-> 0]
    /\ live = {} /\ dead = {}
    /\ pending = FALSE /\ popped = 0
    /\ flow = [off |-> FALSE, qoff |-> {}, accepting |-> TRUE, reading |-> {},
               closed |-> {}]
    /\ conn = [s \in Sources |-> "none"]
    /\ stalled = {} /\ watching = TRUE /\ tries = {}
    /\ got = [s \in Sources |-> 0] /\ gone = [s \in Sources |-> {}]
    /\ top = 0 /\ highest = [s \in Sources |-> 0]
    /\ unruly = {} /\ twins = {} /\ overtaken = {} /\ past = {} /\ outcome = {}

-----------------------------------------------------------------------------
(* Queues. *)

\* Mutant of Insert: before those with the same timestamp.
InsertBeforeEquals(q, e) ==
    InsertAt(q, Max({0} \cup {i \in DOMAIN q : q[i].ts < e.ts}) + 1, e)

\* insertFragment: behind the last fragment that is not newer.
Insert(q, e) ==
    InsertAt(q, Max({0} \cup {i \in DOMAIN q : q[i].ts <= e.ts}) + 1, e)

Barriers(q) == {i \in DOMAIN q : q[i].bar}
BarrierQueued(qs) == \E s \in Sources : Barriers(qs[s]) # {}
AtFront(qs) == {s \in Sources : qs[s] # <<>> /\ Head(qs[s]).bar}

\* CopyPopUntil: how many are in front of the first of stop.
UntilFirst(q, stop) == IF stop = {} THEN Len(q) ELSE Min(stop) - 1
\* CopyPopUntilR: how many are left when those of keep are taken off the back.
UntilLast(q, keep) == Max({0} \cup (DOMAIN q \ keep))

NoEmptyQueue == \A s \in known : queue[s] # <<>>

\* findStampMark: the earliest of the stamps at the backs of the queues.
LastStamp(q) ==
    LET data == DOMAIN q \ Barriers(q) IN IF data = {} THEN Never ELSE q[Max(data)].ts
LatestMark == Max({0} \cup {LastStamp(queue[s]) : s \in known})    \* mutant
StampMark == Min({Never} \cup {LastStamp(queue[s]) : s \in known})

\* DequeueUntilStamp: barriers stop it only while one is known to be pending.
CutAtStamp(q, mark) ==
    LET newer == {i \in DOMAIN q : q[i].ts > mark}
    IN  IF pending THEN UntilFirst(q, newer \cup Barriers(q)) ELSE UntilLast(q, newer)

\* DequeueUntilAbsTime
CutThroughBarriers(q) == UntilFirst(q, {i \in DOMAIN q : q[i].age < Window})  \* mutant
CutAtTime(q) ==
    UntilFirst(q, {i \in DOMAIN q : q[i].age < Window} \cup Barriers(q))

\* What they take off each queue.
StampCut == LET mark == StampMark IN [s \in Sources |-> CutAtStamp(queue[s], mark)]
TimeCut == [s \in Sources |-> CutAtTime(queue[s])]

-----------------------------------------------------------------------------
(* Flow control. *)

Connected == {s \in Sources : conn[s] # "none"}

\* Mutant of QueueFlow: the sockets are not told that their queue is on again.
QuietQueueFlow(f, qs) ==
    LET offs == {s \in known \ f.qoff : Len(qs[s]) >= QXoff}
        ons  == {s \in f.qoff : Len(qs[s]) < QXon}
    IN  [f EXCEPT !.qoff = (@ \cup offs) \ ons, !.reading = @ \ (offs \ f.closed),
                  !.accepting = IF offs = {} THEN @ ELSE FALSE]

\* XoffQueue and XonQueue of every queue in the order of the source ids.  A queue's
\* s_qid is the socket it was created for: once that is closed no connection has
\* it.  The ConnectionManager remembers the last word, whichever socket it was for.
QueueFlow(f, qs) ==
    LET offs == {s \in known \ f.qoff : Len(qs[s]) >= QXoff}
        ons  == {s \in f.qoff : Len(qs[s]) < QXon}
        told == offs \cup ons
    IN  [f EXCEPT !.qoff = (@ \cup offs) \ ons,
                  !.accepting = IF told = {} THEN @ ELSE Max(told) \in ons,
                  !.reading = (@ \ (offs \ f.closed)) \cup (ons \ f.closed)]

Xon(f) == [f EXCEPT !.off = FALSE, !.accepting = TRUE, !.reading = Connected]
Xoff(f) == [f EXCEPT !.off = TRUE, !.accepting = FALSE, !.reading = {}]

\* checkXon and checkXoff, for any load the threads may have at the time.
CheckXon(f) == {IF f.off /\ load = "low" THEN Xon(f) ELSE f : load \in Loads}
CheckXoff(f) == {IF ~f.off /\ load = "high" THEN Xoff(f) ELSE f : load \in Loads}

-----------------------------------------------------------------------------
(* Barriers. *)

Note(events) == past' = past \cup events

\* generateBarrier and observe: the barriers at the fronts go, the flag too.
GenerateBarrier ==
    LET front == AtFront(queue)
        rest == [s \in Sources |-> IF s \in front THEN Tail(queue[s]) ELSE queue[s]]
    IN  /\ queue' = rest /\ pending' = FALSE
        /\ gone' = [s \in Sources |-> gone[s] \cup
                      IF s \in front THEN {Head(queue[s]).id} ELSE {}]
        /\ Note({"barrier"} \cup IF BarrierQueued(rest) THEN {"leftover"} ELSE {})
        /\ flow' \in IF front = {} THEN {flow} ELSE CheckXon(flow)
        /\ UNCHANGED <<known, newest, popped, got, top, highest, unruly, twins, overtaken>>

-----------------------------------------------------------------------------
(* Connections. *)

Idle == step = "idle"
Begin(who, next) == Idle /\ call' = who /\ step' = next
Command == Begin("none", "idle") /\ tries' = {} /\ UNCHANGED sender

\* _NewConnection: flowed off at once when data are not accepted.
Accept(s) ==
    /\ Command /\ conn[s] = "none"
    /\ conn' = [conn EXCEPT ![s] = "forming"]
    /\ flow' = [flow EXCEPT !.reading = IF flow.accepting THEN @ \cup {s} ELSE @ \ {s}]
    /\ UNCHANGED <<queues, pending, live, dead, stalled, watching, ghosts>>

\* _Connect and EVB::source: createSourceQueue.
Connect(s) ==
    /\ Command /\ conn[s] = "forming" /\ s \in flow.reading
    /\ conn' = [conn EXCEPT ![s] = "active"]
    /\ known' = known \cup {s} /\ live' = live \cup {s}
    /\ Note(IF s \in known \/ top = 0 THEN {} ELSE {"newSource"})
    /\ UNCHANGED <<queue, newest, popped, pending, flow, dead, stalled,
                   watching, got, gone, top, highest, unruly, twins, overtaken, outcome>>

\* _Close and _DisconnectClient, from the socket's own event or from a tryRead.
\* The fragment handler is not told.
Disconnect(s) ==
    /\ "disconnect" \in Commands /\ Begin("none", "idle") /\ conn[s] # "none"
    /\ UNCHANGED sender
    /\ \/ s \in flow.reading /\ tries' = {}
       \/ s \in tries /\ tries' = tries \ {s}
    /\ conn' = [conn EXCEPT ![s] = "none"]
    /\ flow' = [flow EXCEPT !.reading = @ \ {s}, !.closed = @ \cup ({s} \cap known)]
    /\ stalled' = stalled \ {s} /\ dead' = dead \ {s}
    /\ UNCHANGED <<queues, pending, live, watching, ghosts>>

-----------------------------------------------------------------------------
(* Receiving fragments. *)

\* addFragments; a message has at least one fragment.
AddFragments(s) == got[s] < MaxFragments /\ Begin("fragments", "add") /\ sender' = s

Others(s) == {c \in Sources \ {s} : conn[c] = "active"}

\* _Fragments and _RecordFragment: a stalled source that sends is revived, and
\* the other connections are tried next.  reviveSocket fails, and with it the
\* rest, for a source on the list that was never declared dead.
HandleFragments(s) ==
    /\ conn[s] = "active" /\ s \in flow.reading
    /\ AddFragments(s)
    /\ \/ /\ s \notin stalled
          /\ tries' = Others(s) /\ UNCHANGED stalled
       \/ /\ s \in stalled \cap dead
          /\ tries' = Others(s) /\ stalled' = stalled \ {s}
       \/ /\ s \in stalled \ dead
          /\ tries' = {} /\ UNCHANGED stalled
    /\ UNCHANGED <<queues, pending, flow, live, dead, conn, watching, ghosts>>

\* tryRead: whatever the channel has buffered, flowed off or not, and without
\* the callback that would revive the source.
TryRead(s) ==
    /\ s \in tries /\ tries' = tries \ {s}
    /\ AddFragments(s)
    /\ UNCHANGED <<queues, pending, flow, live, dead, conn, stalled, watching, ghosts>>

PendingLast(bar) == bar     \* mutant: the flag tells of the last fragment only
Pending(bar) == pending \/ bar

\* addFragment, to the queue of s with the timestamp it is given there.
Add(s, ts, bar) ==
    LET e == [src |-> s, id |-> got[s] + 1, ts |-> ts, bar |-> bar, age |-> 0]
    IN  /\ queue' = [queue EXCEPT ![s] = Insert(@, e)]
        /\ newest' = [newest EXCEPT ![s] = ts]
        /\ got' = [got EXCEPT ![s] = @ + 1]
        /\ pending' = Pending(bar)
        /\ live' = live \cup {s}
        /\ highest' = [highest EXCEPT ![s] = Max({ts, @})]
        /\ unruly' = unruly \cup IF ts < highest[s] THEN {s} ELSE {}
        /\ twins' = twins \cup IF ts = highest[s] /\ got[s] > 0 THEN {s} ELSE {}

\* The loop of addFragments: the next fragment of the message, which may be the last.
AddFragment ==
    /\ step = "add"
    /\ \E ts \in Stamps, bar \in BOOLEAN :
          Add(sender, IF ts = Null THEN newest[sender] ELSE ts, bar)
    /\ \/ got'[sender] < MaxFragments /\ UNCHANGED <<step, sender>>
       \/ step' = "flush" /\ sender' = Nobody
    /\ UNCHANGED <<call, known, popped, flow, dead, conn, stalled, watching, tries,
                   gone, top, overtaken, past, outcome>>

-----------------------------------------------------------------------------
(* flushQueues. *)

\* Whether the i-th of queue q leaves the sort thread before the j-th, if the queue
\* comes as two lists, cut behind first.  Of fragments with the same timestamp in both
\* the merge may take the second list's first: swapped, as the other lists have it.
LeavesBefore(q, first, swapped, i, j) ==
    IF swapped /\ q[i].ts = q[j].ts /\ (i <= first) # (j <= first) THEN j < i ELSE i < j

\* The first cut[s] fragments of every queue go to the sort thread in one batch, in
\* one list or, if first[s] is less, in two; the data late observers are told of the
\* sources in late.
MoveOut(first, cut, late) ==
    LET out(s) == {queue[s][i] : i \in 1 .. cut[s]}
        data == UNION {out(s) : s \in Sources}
        back == {e \in data : e.ts < top}
    IN  /\ queue' = [s \in Sources |-> SubSeq(queue[s], cut[s] + 1, Len(queue[s]))]
        /\ gone' = [s \in Sources |-> gone[s] \cup {e.id : e \in out(s)}]
        /\ top' = Max({top} \cup {e.ts : e \in data})
        /\ outcome' = outcome \cup {o \in Outcomes :
             \/ o = "backward" /\ back # {}
             \/ o = "unnoticed" /\ \E e \in back : e.src \notin late
             \/ o = "mixed" /\ \E e \in data : e.bar}
        /\ \E swapped \in SUBSET {s \in Sources : first[s] # cut[s]} :
              overtaken' = overtaken \cup {s \in Sources : \E i, j \in 1 .. cut[s] :
                 /\ queue[s][i].id > queue[s][j].id
                 /\ LeavesBefore(queue[s], first[s], s \in swapped, i, j)}

\* handleDequeuedFragments tests the fronts of the lists, and
\* updateQueueStatistics keeps the largest of the timestamps at their tails.
Dequeued(cut) == {s \in Sources : cut[s] > 0}
Late(cut) == {s \in Dequeued(cut) : queue[s][1].ts < popped}
PoppedLast(cut) ==  \* mutant
    IF Dequeued(cut) = {} THEN popped
    ELSE queue[Max(Dequeued(cut))][cut[Max(Dequeued(cut))]].ts
Popped(cut) == Max({popped} \cup {queue[s][cut[s]].ts : s \in Dequeued(cut)})

Flush(cut) ==
    /\ step = "flush" /\ call # "flush" /\ step' = "barrier"
    /\ MoveOut(cut, cut, Late(cut)) /\ popped' = Popped(cut)
    /\ flow' \in CheckXon(QueueFlow(flow, queue'))
    /\ UNCHANGED <<call, sender, known, newest, pending, sourcesState, got,
                   highest, unruly, twins>>

FlushUntilStamp == NoEmptyQueue /\ Flush(StampCut) /\ UNCHANGED past

FlushUntilTime ==
    ~NoEmptyQueue /\ Flush(TimeCut) /\ Note(IF Dequeued(TimeCut) = {} THEN {} ELSE {"window"})

\* completely: in the same batch goes what is left of each queue, as a list of its
\* own, barriers too and without statistics.
FlushCompletely ==
    /\ step = "flush" /\ call = "flush" /\ step' = "barrier"
    /\ LET first == IF NoEmptyQueue THEN StampCut ELSE TimeCut
           rest == [s \in Sources |-> SubSeq(queue[s], first[s] + 1, Len(queue[s]))]
       IN  /\ MoveOut(first, [s \in Sources |-> Len(queue[s])], Late(first))
           /\ popped' = Popped(first)
           /\ flow' \in CheckXon(QueueFlow(QueueFlow(flow, rest), queue'))
    /\ Note(IF \A s \in Sources : queue[s] = <<>> THEN {} ELSE {"flush"})
    /\ UNCHANGED <<call, sender, known, newest, pending, sourcesState, got,
                   highest, unruly, twins>>

AllOverdue ==       \* mutant: waits for every queue
    \A s \in known : s \in AtFront(queue) /\ Head(queue[s]).age > 4 * Window

\* The oldest barrier at the front of a queue is older than four windows.
BarrierOverdue == \E s \in AtFront(queue) : Head(queue[s]).age > 4 * Window

\* checkBarrier, when the flag says there is one.
CheckBarrier ==
    /\ step = "barrier" /\ step' = "last"
    /\ IF pending /\ (AtFront(queue) = known \/ call = "flush" \/ BarrierOverdue)
       THEN GenerateBarrier /\ UNCHANGED outcome
       ELSE UNCHANGED <<queues, pending, flow, ghosts>>
    /\ UNCHANGED <<call, sender, sourcesState>>

\* What addFragments and IdlePoll do after flushQueues.
AtEnd == step = "last" /\ step' = "idle" /\ call' = "none" /\ UNCHANGED sender
EndFragments ==
    /\ AtEnd /\ call \in {"fragments", "flush"}
    /\ flow' \in IF call = "fragments" THEN CheckXoff(flow) ELSE {flow}
    /\ UNCHANGED <<queues, pending, sourcesState, ghosts>>
EndPoll ==
    /\ AtEnd /\ call = "poll" /\ flow' \in CheckXon(flow)
    /\ UNCHANGED <<queues, pending, sourcesState, ghosts>>

IdlePoll ==
    /\ Begin("poll", "flush") /\ tries' = {} /\ UNCHANGED sender
    /\ UNCHANGED <<queues, pending, flow, live, dead, conn, stalled, watching,
                   ghosts>>

FlushQueues ==      \* EVB::flushqueues
    /\ "flush" \in Commands /\ Begin("flush", "flush") /\ tries' = {} /\ UNCHANGED sender
    /\ UNCHANGED <<queues, pending, flow, live, dead, conn, stalled, watching,
                   ghosts>>

-----------------------------------------------------------------------------
(* Sources that stall, and the commands of the user. *)

\* _CheckSourceTimeouts and EVB::deadsource: markSocketFailed, markSourceFailed.
\* The code compares the barriers of all queues, those of dead sources too, with
\* the number of sources still live.
Stall(s) ==
    /\ "stall" \in Commands /\ watching
    /\ Idle /\ tries' = {} /\ UNCHANGED <<step, call, sender>>
    /\ conn[s] = "active" /\ s \notin stalled
    /\ stalled' = stalled \cup {s} /\ live' = live \ {s} /\ dead' = dead \cup {s}
    /\ IF pending /\ Cardinality(AtFront(queue)) = Cardinality(live')
       THEN GenerateBarrier /\ UNCHANGED outcome
       ELSE UNCHANGED <<queues, pending, flow, ghosts>>
    /\ UNCHANGED <<conn, watching>>

\* A connection without its CONNECT is unknown to markSocketFailed: the error
\* ends the check before the others it found, and nothing schedules it again.
StallForming(s) ==
    /\ "stall" \in Commands /\ watching /\ watching' = FALSE
    /\ Command /\ conn[s] = "forming"
    /\ \E more \in SUBSET {c \in Sources : conn[c] # "none"} :
          stalled' = stalled \cup {s} \cup more
    /\ UNCHANGED <<queues, pending, flow, live, dead, conn, ghosts>>

AbortBarrier ==     \* EVB::abortbarrier
    /\ "abort" \in Commands
    /\ Idle /\ tries' = {} /\ UNCHANGED <<step, call, sender>>
    /\ AtFront(queue) # {} /\ GenerateBarrier
    /\ UNCHANGED <<live, dead, conn, stalled, watching, outcome>>

\* EVB::reset: resetTimestamps
Reset ==
    /\ "reset" \in Commands /\ Command
    /\ newest' = [s \in Sources |-> IF s \in known THEN 0 ELSE newest[s]]
    /\ popped' = 0 /\ pending' = FALSE
    /\ flow' = [flow EXCEPT !.qoff = {}]
    /\ Note({"reset"} \cup (IF BarrierQueued(queue) THEN {"leftover"} ELSE {})
                       \cup (IF flow.qoff # {} THEN {"forgot"} ELSE {}))
    /\ UNCHANGED <<known, queue, live, dead, conn, stalled, watching, got, gone, top,
                   highest, unruly, twins, overtaken, outcome>>

\* A second passes.
Tick ==
    /\ Idle
    /\ queue' = [s \in Sources |-> [i \in DOMAIN queue[s] |->
                   [queue[s][i] EXCEPT !.age = Min({@ + 1, MaxAge})]]]
    /\ UNCHANGED <<step, call, sender, known, newest, popped, pending, flow,
                   sourcesState, ghosts>>

\* What is left to do of a handler in progress.
GoOn ==
    \/ AddFragment \/ FlushUntilStamp \/ FlushUntilTime \/ FlushCompletely \/ CheckBarrier
    \/ EndFragments \/ EndPoll

Next ==
    \/ \E s \in Sources : Accept(s) \/ Connect(s) \/ Disconnect(s)
                          \/ HandleFragments(s) \/ TryRead(s)
                          \/ Stall(s) \/ StallForming(s)
    \/ GoOn \/ IdlePoll \/ FlushQueues \/ AbortBarrier \/ Reset \/ Tick

Spec == Init /\ [][Next]_vars

\* A handler in progress goes on, the idle timer expires between others and the
\* clock moves between its polls, and the threads get through what they have.
FairSpec ==
    /\ Spec /\ SF_vars(Tick) /\ SF_vars(IdlePoll) /\ SF_vars(EndPoll /\ ~flow'.off)
    /\ WF_vars(GoOn)

-----------------------------------------------------------------------------
(* Properties. *)

Times == 0 .. Never - 1
Frags == [src : Sources, id : Nat, ts : Times, bar : BOOLEAN, age : 0 .. MaxAge]
Steps == {"idle", "add", "flush", "barrier", "last"}
Calls == {"none", "fragments", "poll", "flush"}

TypeOK ==
    /\ step \in Steps /\ call \in Calls /\ sender \in Sources \cup {Nobody}
    /\ known \subseteq Sources /\ queue \in [Sources -> Seq(Frags)]
    /\ newest \in [Sources -> Times] /\ popped \in Times
    /\ live \subseteq Sources /\ dead \subseteq Sources
    /\ pending \in BOOLEAN
    /\ flow \in [off : BOOLEAN, qoff : SUBSET Sources, accepting : BOOLEAN,
                 reading : SUBSET Sources, closed : SUBSET Sources]
    /\ conn \in [Sources -> {"none", "forming", "active"}]
    /\ stalled \subseteq Sources /\ watching \in BOOLEAN /\ tries \subseteq Sources
    /\ got \in [Sources -> Nat] /\ gone \in [Sources -> SUBSET Nat]
    /\ top \in Times /\ highest \in [Sources -> Times]
    /\ unruly \subseteq Sources /\ twins \subseteq Sources /\ overtaken \subseteq Sources
    /\ past \subseteq Events /\ outcome \subseteq Outcomes

QueuedIds(s) == {queue[s][i].id : i \in DOMAIN queue[s]}

\* Every fragment received is either queued, once, or has been handed over.
EachOnce == \A s \in Sources :
    /\ QueuedIds(s) \cap gone[s] = {} /\ QueuedIds(s) \cup gone[s] = 1 .. got[s]
    /\ \A i, j \in DOMAIN queue[s] : i # j => queue[s][i].id # queue[s][j].id

\* A queue is in the order of the timestamps, whatever the order of arrival.
QueuesSorted == \A s \in Sources : \A i, j \in DOMAIN queue[s] :
    i < j => queue[s][i].ts <= queue[s][j].ts

\* A source whose timestamps do not go back is output in the order it sent: nothing
\* overtakes one of its barriers, and they overtake nothing.  Only in a complete flush
\* can fragments with the same timestamp change places, within the batch.
SourceOrder == \A s \in Sources : s \in unruly \/
    /\ \A i \in gone[s] : 1 .. i \subseteq gone[s]
    /\ s \in overtaken => "flush" \in past /\ s \in twins

\* As long as every source is in order, none joins late, no queue waits out the
\* build window and there are no barriers, batches follow each other in the
\* order of the timestamps.
Disorders == {"newSource", "window", "barrier", "flush", "reset"}
InOrder == "backward" \in outcome => unruly # {} \/ past \cap Disorders # {}

\* A barrier leaves its queue with the barriers of the other sources and not
\* among the data, but in a complete flush or when the flag was cleared early.
BarriersApart == "mixed" \in outcome => past \cap {"leftover", "flush"} # {}

\* When a source has data in a batch that are older than what was handed over before,
\* the data late observers are told of the first of its fragments there, and of no
\* other, unless a flush or reset has made the handler forget what it handed over.
LateNoticed == "unnoticed" \in outcome => past \cap {"flush", "reset"} # {}

\* While nothing is left over, the flag tells whether a barrier is queued.
PendingKnown == "leftover" \notin past /\ BarrierQueued(queue) => pending

\* Only sources with a queue send, and what a queue holds is its source's own.
QueuesOwn ==
    /\ sender = Nobody <=> step # "add"
    /\ sender \in known \cup {Nobody}
    /\ \A s \in Sources : queue[s] # <<>> \/ conn[s] = "active" \/ s \in tries => s \in known
    /\ \A s \in Sources : \A i \in DOMAIN queue[s] : queue[s][i].src = s

\* The queue of a source in order is the last that it sent, as it sent it.
InSequence == \A s \in Sources : \A i \in DOMAIN queue[s] :
    /\ queue[s][i].ts <= highest[s]
    /\ s \in unruly \/ queue[s][i].id = got[s] - Len(queue[s]) + i

\* In the queue of any other source in order no two timestamps are the same.
TwinsKnown == \A s \in Sources \ (unruly \cup twins) : \A i, j \in DOMAIN queue[s] :
    i < j => queue[s][i].ts < queue[s][j].ts

\* The handler's mark of what it has handed over is the true one.
PoppedKnown == top <= popped \/ past \cap {"flush", "reset"} # {}

\* Without an excuse nothing that can still be handed over is older than what was: what
\* is in front of the barriers of a queue, and what will follow if there are none.
Ahead ==
    /\ "leftover" \in past => past \cap {"barrier", "reset"} # {}
    /\ unruly = {} /\ past \cap Disorders = {} => \A s \in known :
           /\ Barriers(queue[s]) = {} => top <= highest[s]
           /\ \A i \in DOMAIN queue[s] :
                  Barriers(queue[s]) \cap 1 .. i = {} => top <= queue[s][i].ts

\* The inductive invariant.
HandlerInv ==
    /\ TypeOK /\ EachOnce /\ QueuesSorted /\ PendingKnown
    /\ QueuesOwn /\ InSequence /\ TwinsKnown /\ PoppedKnown /\ Ahead

\* What is received is handed over, if not before then when the build window or
\* the patience with barriers is over; but not once a barrier was left behind.
EverythingLeaves == \A s \in Sources, i \in 1 .. MaxFragments :
    (got[s] >= i) ~> (i \in gone[s] \/ "leftover" \in past)

\* A connection that has sent its CONNECT and was flowed off, for the queue of its
\* socket or for the load of the threads, is read again, unless a reset forgot that
\* it was off.  One that was accepted while a queue was off is not spoken of.
ReadAgain == \A s \in Sources :
    (conn[s] = "active") ~> \/ conn[s] # "active" \/ s \in flow.reading
                            \/ past \cap {"leftover", "forgot"} # {}
===============================================================================
