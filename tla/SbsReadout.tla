------------------------------- MODULE SbsReadout -------------------------------
(***************************************************************************)
(* The SBS readout framework: the main thread runs the operator's begin,   *)
(* end, pause and resume and the events that are queued for its Tcl        *)
(* interpreter; the trigger loop's thread polls the triggers, writes       *)
(* events and scalers to the ring, and has the interpreter write the       *)
(* documented variables and the end of the run while it waits.  The two    *)
(* threads share the flags of CTriggerLoop without a lock; the flags are   *)
(* volatile and each store is a step.                                      *)
(*                                                                         *)
(* The thread of a trigger loop that failed can be on its way out when the *)
(* next one runs: both are threads of the one CTriggerLoop object.  A ring *)
(* item is the effect it has on what a reader takes the run to be.         *)
(***************************************************************************)
EXTENDS Integers, Sequences

CONSTANTS
    Loops,          \* threads of the trigger loop
    DwellCount,     \* DWELL_COUNT
    Faults,         \* what may throw: the trigger loop; a start, ahead of its item or behind
    MaxFaults, MaxStarts, MaxEvents, MaxScalers,    \* bounds: how often
    Nobody          \* the thread id of no thread

\* Where the main thread is; it can also be waiting for the end of a trigger thread.
MainPlaces == {"idle", "item", "start", "spawn", "wait", "stop", "set", "setPausing", "sync",
               "endSync", "join", "dump"}

ASSUME SbsAssumption ==
    /\ Loops # {} /\ DwellCount \in Nat \ {0} /\ Faults \subseteq {"loop", "begin"}
    /\ {MaxFaults, MaxStarts, MaxEvents, MaxScalers} \subseteq Nat
    /\ Nobody \notin Loops /\ Loops \cap MainPlaces = {}

VARIABLES
    state,                              \* RunState::m_state
    running, stopping, pausing, failed, \* CTriggerLoop's flags
    living, tid,    \* Thread::living, Thread::my_id
    loop, dwell,    \* trigger threads: where they are, mainLoop's i
    events,         \* the queue of the Tcl interpreter's thread
    main, op,       \* main thread: where it is, for which run control operation
    emitted, shown, \* m_nEventsEmitted; ghost: the events in the ring since BEGIN
    phase, vain,    \* ghosts: the run as the ring shows it; by an item of a failed start
    inTurn,         \* ghost: the items came in turn
    faults, starts, eventTriggers, scalerTriggers       \* how many so far

flags == <<running, stopping, pausing, failed>>
thread == <<living, tid>>
ring == <<shown, phase, vain, inTurn>>
triggers == <<eventTriggers, scalerTriggers>>
vars == <<state, flags, thread, loop, dwell, events, main, op, emitted, ring, faults, starts,
          triggers>>

Init ==
    /\ state = "inactive"
    /\ running = FALSE /\ stopping = FALSE /\ pausing = FALSE /\ failed = FALSE
    /\ living = FALSE /\ tid = Nobody
    /\ loop = [w \in Loops |-> "none"] /\ dwell = [w \in Loops |-> 0]
    /\ events = <<>> /\ main = "idle" /\ op = "none"
    /\ emitted = 0 /\ shown = 0 /\ phase = "ended" /\ vain = FALSE /\ inTurn = TRUE
    /\ faults = 0 /\ starts = 0 /\ eventTriggers = 0 /\ scalerTriggers = 0

Fault(kind) == kind \in Faults /\ faults < MaxFaults /\ faults' = faults + 1

\* commitToRing, as a reader of the ring sees it.  Behind the item of a start that failed
\* the next start can come, and the end of a run that was paused, but no data.
PutItem(item, inVain) ==
    /\ inTurn' = (inTurn /\ CASE item = "BEGIN" -> phase = "ended" \/ vain
                              [] item = "RESUME" -> phase = "paused" \/ vain
                              [] item = "END" -> phase # "ended"
                              [] OTHER -> phase = "taking" /\ ~vain)
    /\ vain' = inVain
    /\ phase' = CASE item \in {"BEGIN", "RESUME"} -> "taking"
                  [] item = "PAUSE" -> "paused"
                  [] item = "END" -> "ended"
                  [] OTHER -> phase
    /\ shown' = CASE item = "BEGIN" -> 0 [] item = "EVENT" -> shown + 1 [] OTHER -> shown
Put(item) == PutItem(item, FALSE)

-----------------------------------------------------------------------------
(* The main thread: starting. *)

Goto(here, there) == main = here /\ main' = there
Command(name, there) == Goto("idle", there) /\ op' = name
MainOnly == UNCHANGED <<loop, dwell, thread, triggers>>

Begin ==
    /\ state = "inactive" /\ starts < MaxStarts /\ Command("begin", "item")
    /\ starts' = starts + 1
    /\ UNCHANGED <<state, flags, events, emitted, ring, faults>> /\ MainOnly
Resume ==
    /\ state = "paused" /\ starts < MaxStarts /\ Command("resume", "item")
    /\ starts' = starts + 1
    /\ UNCHANGED <<state, flags, events, emitted, ring, faults>> /\ MainOnly

\* Start throws: begin and resume catch it, and an item that is in the ring stays there.
StartThrows(there) == Goto(there, "idle")

\* The item of a start, and whether what the event segment does behind it throws.
StartPut ==
    LET item == IF op = "begin" THEN "BEGIN" ELSE "RESUME"
    IN  \/ Goto("item", "start") /\ UNCHANGED faults /\ PutItem(item, FALSE)
        \/ Fault("begin") /\ StartThrows("item") /\ PutItem(item, TRUE)

\* Mutant of StartItem: a resumed run counts from zero.
StartItemAfresh ==
    /\ \/ StartPut /\ emitted' = 0
       \/ Fault("begin") /\ StartThrows("item") /\ UNCHANGED <<emitted, ring>>
    /\ UNCHANGED <<state, op, flags, events, starts>> /\ MainOnly

\* Start up to the trigger loop: the hardware, whose initialization may throw, its items,
\* and what the event segment does.
StartItem ==
    /\ \/ StartPut /\ emitted' = (IF op = "begin" THEN 0 ELSE emitted)
       \/ Fault("begin") /\ StartThrows("item") /\ UNCHANGED <<emitted, ring>>
    /\ UNCHANGED <<state, op, flags, events, starts>> /\ MainOnly

\* CTriggerLoop::start.
StartLoop ==
    /\ \/ running /\ StartThrows("start") /\ vain' = TRUE
          /\ UNCHANGED <<shown, phase, inTurn, flags>>
       \/ /\ ~running /\ Goto("start", "spawn") /\ UNCHANGED <<ring, pausing>>
          /\ running' = FALSE /\ stopping' = FALSE /\ failed' = FALSE
    /\ UNCHANGED <<state, op, events, emitted, faults, starts>> /\ MainOnly
Spawn ==
    /\ Goto("spawn", "wait") /\ \E w \in Loops : loop[w] = "none"
    /\ LET w == CHOOSE w \in Loops : loop[w] = "none"       \* threads are alike
       IN  loop' = [loop EXCEPT ![w] = "born"]
    /\ UNCHANGED <<state, op, flags, thread, dwell, events, emitted, ring, faults, starts,
                   triggers>>
Started ==
    /\ (running \/ failed) /\ Goto("wait", "idle") /\ state' = "active"
    /\ UNCHANGED <<op, flags, events, emitted, ring, faults, starts>> /\ MainOnly

-----------------------------------------------------------------------------
(* The main thread: stopping. *)

\* CExperiment::Stop: the trigger loop stops an active run.
Stop == IF state = "active" THEN "stop" ELSE "sync"
Pause ==
    /\ state = "active" /\ Command("pause", Stop)
    /\ UNCHANGED <<state, flags, events, emitted, ring, faults, starts>> /\ MainOnly
End ==
    /\ state \in {"active", "paused"} /\ Command("end", Stop)
    /\ UNCHANGED <<state, flags, events, emitted, ring, faults, starts>> /\ MainOnly

\* Mutant of StopLoop: a second stop ends the run at once.
StopLoopNow ==
    /\ Goto("stop", IF failed \/ stopping THEN "sync" ELSE "set")
    /\ pausing' = IF failed THEN op = "pause" ELSE pausing
    /\ UNCHANGED <<state, op, running, stopping, failed, events, emitted, ring, faults, starts>>
    /\ MainOnly

\* CTriggerLoop::stop: a failed loop is not there to end the run.
StopLoop ==
    /\ Goto("stop", IF failed THEN "sync" ELSE "set")
    /\ pausing' = IF failed THEN op = "pause" ELSE pausing
    /\ UNCHANGED <<state, op, running, stopping, failed, events, emitted, ring, faults, starts>>
    /\ MainOnly
SetStopping ==
    /\ Goto("set", "setPausing") /\ stopping' = TRUE
    /\ UNCHANGED <<state, op, running, pausing, failed, events, emitted, ring, faults, starts>>
    /\ MainOnly
SetPausing ==
    /\ Goto("setPausing", "idle") /\ pausing' = (op = "pause")
    /\ UNCHANGED <<state, op, running, stopping, failed, events, emitted, ring, faults, starts>>
    /\ MainOnly

\* syncEndRun: the last count, the state change item, and the new state.
SyncEndRun ==
    /\ Put(IF op = "pause" THEN "PAUSE" ELSE "END")
    /\ state' = IF op = "pause" THEN "paused" ELSE "inactive"
Sync ==
    /\ Goto("sync", "idle") /\ SyncEndRun
    /\ UNCHANGED <<op, flags, events, emitted, faults, starts>> /\ MainOnly

-----------------------------------------------------------------------------
(* The main thread: events from the trigger loop. *)

Handle(kind, there) == events # <<>> /\ Head(events).kind = kind /\ Goto("idle", there)
Resumes(w, here, there) == loop[w] = here /\ loop' = [loop EXCEPT ![w] = there]

\* HandleEndRunEvent: syncEndRun, the signal to the trigger loop, join.
HandleEndRunEvent ==
    /\ Handle("end", "endSync") /\ op' = IF Head(events).pause THEN "pause" ELSE "end"
    /\ UNCHANGED <<state, flags, events, emitted, ring, faults, starts>> /\ MainOnly
EndSync ==
    /\ Goto("endSync", "join") /\ SyncEndRun /\ events' = Tail(events)
    /\ \E w \in Loops : Resumes(w, "ending", "ended")
    /\ UNCHANGED <<op, flags, thread, dwell, emitted, faults, starts, triggers>>

\* Mutant of Join: does not wait.
JoinAtOnce ==
    /\ Goto("join", "idle")
    /\ UNCHANGED <<state, op, flags, events, emitted, ring, faults, starts>> /\ MainOnly

\* main = w is pthread_join of w.
Join ==
    /\ \/ living /\ Goto("join", tid)
       \/ ~living /\ Goto("join", "idle")
       \/ main \in Loops /\ loop[main] = "none" /\ main' = "idle"
    /\ UNCHANGED <<state, op, flags, events, emitted, ring, faults, starts>> /\ MainOnly

\* HandleRunVarTrigger and HandleStateVarTrigger.
HandleVarTrigger ==
    /\ Handle("dump", "dump")
    /\ UNCHANGED <<state, op, flags, events, emitted, ring, faults, starts>> /\ MainOnly
Dump ==
    /\ Goto("dump", "idle") /\ Put("VARIABLES") /\ events' = Tail(events)
    /\ \E w \in Loops : \/ Resumes(w, "runVars", "stateVars")
                        \/ Resumes(w, "waitStateVars", "dumped")
    /\ UNCHANGED <<state, op, flags, thread, dwell, emitted, faults, starts, triggers>>

\* HandleTriggerLoopError; ::onTriggerFail of readoutStateHook ends the run, if it can.
HandleTriggerLoopError ==
    /\ Handle("fail", IF state = "inactive" THEN "idle" ELSE Stop) /\ op' = "end"
    /\ events' = Tail(events)
    /\ UNCHANGED <<state, flags, emitted, ring, faults, starts>> /\ MainOnly

-----------------------------------------------------------------------------
(* The trigger loop's thread. *)

At(w, here) == loop[w] = here
Step(w, here, there) == At(w, here) /\ loop' = [loop EXCEPT ![w] = there]
LoopOnly == UNCHANGED <<state, main, op, starts>>
Quiet == UNCHANGED <<flags, thread, dwell, events, emitted, ring, faults, triggers>>

\* threadStarter.
Birth(w) ==
    /\ Step(w, "born", "run") /\ living' = TRUE /\ tid' = w
    /\ UNCHANGED <<flags, dwell, events, emitted, ring, faults, triggers>> /\ LoopOnly

\* run, up to mainLoop.
Run(w) ==
    /\ Step(w, "run", "clear") /\ running' = TRUE
    /\ UNCHANGED <<stopping, pausing, failed, thread, dwell, events, emitted, ring, faults,
                   triggers>> /\ LoopOnly
Clear(w) ==
    /\ Step(w, "clear", "top") /\ stopping' = FALSE
    /\ UNCHANGED <<running, pausing, failed, thread, dwell, events, emitted, ring, faults,
                   triggers>> /\ LoopOnly

\* The event trigger fires, does not fire, or throws.
PollEvent(w) ==
    /\ \/ Step(w, "top", "reading") /\ eventTriggers < MaxEvents
          /\ eventTriggers' = eventTriggers + 1 /\ UNCHANGED faults
       \/ Step(w, "top", "poll") /\ UNCHANGED <<eventTriggers, faults>>
       \/ Step(w, "top", "report") /\ Fault("loop") /\ UNCHANGED eventTriggers
    /\ UNCHANGED <<flags, thread, dwell, events, emitted, ring, scalerTriggers>> /\ LoopOnly

\* ReadEvent: the event is put in the ring, or thrown away, or the read throws.
ReadEvent(w) ==
    /\ \/ Step(w, "reading", "counting") /\ Put("EVENT") /\ UNCHANGED faults
       \/ Step(w, "reading", "poll") /\ UNCHANGED <<ring, faults>>
       \/ Step(w, "reading", "report") /\ Fault("loop") /\ UNCHANGED ring
    /\ UNCHANGED <<flags, thread, dwell, events, emitted, triggers>> /\ LoopOnly
\* It is counted; the readout code may have more (m_fHavemore).
CountEvent(w) ==
    /\ emitted' = emitted + 1
    /\ \/ Step(w, "counting", "poll") /\ UNCHANGED eventTriggers
       \/ Step(w, "counting", "reading") /\ eventTriggers < MaxEvents
          /\ eventTriggers' = eventTriggers + 1
    /\ UNCHANGED <<flags, thread, dwell, events, ring, faults, scalerTriggers>> /\ LoopOnly

\* The next turn of the for loop, or behind it.
Turn(w, here) ==
    /\ dwell' = [dwell EXCEPT ![w] = (@ + 1) % DwellCount]
    /\ Step(w, here, IF dwell'[w] = 0 THEN "while" ELSE "top")
PollScaler(w) ==
    /\ \/ Step(w, "poll", "scalers") /\ scalerTriggers < MaxScalers
          /\ scalerTriggers' = scalerTriggers + 1 /\ UNCHANGED dwell
       \/ Turn(w, "poll") /\ UNCHANGED scalerTriggers
    /\ UNCHANGED <<flags, thread, events, emitted, ring, faults, eventTriggers>> /\ LoopOnly

\* TriggerScalerReadout: the scalers and the count of events, then the run variables
\* and the state variables, which the interpreter's thread writes.
Post(kind, pause) == events' = Append(events, [kind |-> kind, pause |-> pause])
TriggerNoWait(w) ==     \* mutant: does not wait for the interpreter
    /\ \/ Step(w, "scalers", "dumped") /\ Put("SCALERS")
       \/ Step(w, "stateVars", "waitStateVars") /\ UNCHANGED ring
    /\ Post("dump", FALSE)
    /\ UNCHANGED <<flags, thread, dwell, emitted, faults, triggers>> /\ LoopOnly
TriggerScalerReadout(w) ==
    /\ \/ Step(w, "scalers", "runVars") /\ Put("SCALERS")
       \/ Step(w, "stateVars", "waitStateVars") /\ UNCHANGED ring
    /\ Post("dump", FALSE)
    /\ UNCHANGED <<flags, thread, dwell, emitted, faults, triggers>> /\ LoopOnly
AfterScalers(w) ==
    /\ IF stopping THEN Step(w, "dumped", "while") /\ dwell' = [dwell EXCEPT ![w] = 0]
       ELSE Turn(w, "dumped")
    /\ UNCHANGED <<flags, thread, events, emitted, ring, faults, triggers>> /\ LoopOnly

\* Mutant of While: does not stop for a pause.
WhilePausing(w) ==
    Step(w, "while", IF stopping /\ ~pausing THEN "schedule" ELSE "top") /\ Quiet /\ LoopOnly

While(w) == Step(w, "while", IF stopping THEN "schedule" ELSE "top") /\ Quiet /\ LoopOnly

ScheduleEndRunBuffer(w) ==
    /\ Step(w, "schedule", "ending") /\ Post("end", pausing)
    /\ UNCHANGED <<flags, thread, dwell, emitted, ring, faults, triggers>> /\ LoopOnly

\* run behind mainLoop; reportFail.
NotRunning(w) ==
    /\ \/ Step(w, "ended", "notStopping")
       \/ Step(w, "notRunning", "noStop")
    /\ running' = FALSE
    /\ UNCHANGED <<stopping, pausing, failed, thread, dwell, events, emitted, ring, faults,
                   triggers>> /\ LoopOnly
NotStopping(w) ==
    /\ \/ Step(w, "notStopping", "exit")
       \/ Step(w, "noStop", "failed")
    /\ stopping' = FALSE
    /\ UNCHANGED <<running, pausing, failed, thread, dwell, events, emitted, ring, faults,
                   triggers>> /\ LoopOnly
ReportFail(w) ==
    /\ Step(w, "report", "notRunning") /\ Post("fail", FALSE)
    /\ dwell' = [dwell EXCEPT ![w] = 0]
    /\ UNCHANGED <<flags, thread, emitted, ring, faults, triggers>> /\ LoopOnly
FailedSilently(w) ==    \* mutant: failed is not set
    /\ Step(w, "failed", "exit")
    /\ UNCHANGED <<flags, thread, dwell, events, emitted, ring, faults, triggers>> /\ LoopOnly
Failed(w) ==
    /\ Step(w, "failed", "exit") /\ failed' = TRUE
    /\ UNCHANGED <<running, stopping, pausing, thread, dwell, events, emitted, ring, faults,
                   triggers>> /\ LoopOnly

\* threadStarter behind run.
Exit(w) ==
    /\ Step(w, "exit", "none") /\ living' = FALSE /\ tid' = Nobody
    /\ UNCHANGED <<flags, dwell, events, emitted, ring, faults, triggers>> /\ LoopOnly

-----------------------------------------------------------------------------
Operate == Begin \/ Resume \/ Pause \/ End
Carry ==
    \/ StartItem \/ StartLoop \/ Spawn \/ Started \/ StopLoop \/ SetStopping \/ SetPausing
    \/ Sync \/ EndSync \/ Join \/ Dump
HandleEvent == HandleEndRunEvent \/ HandleVarTrigger \/ HandleTriggerLoopError
Loop(w) ==
    \/ Birth(w) \/ Run(w) \/ Clear(w) \/ PollEvent(w) \/ ReadEvent(w) \/ CountEvent(w)
    \/ PollScaler(w) \/ TriggerScalerReadout(w) \/ AfterScalers(w) \/ While(w)
    \/ ScheduleEndRunBuffer(w) \/ NotRunning(w) \/ NotStopping(w) \/ ReportFail(w)
    \/ Failed(w) \/ Exit(w)

Next == Operate \/ Carry \/ HandleEvent \/ \E w \in Loops : Loop(w)

Spec == Init /\ [][Next]_vars

\* Each thread is scheduled, and the Tcl event loop comes round to the queued events
\* however many commands there are; nobody has to give one.
FairSpec ==
    Spec /\ WF_vars(Carry) /\ SF_vars(HandleEvent) /\ \A w \in Loops : WF_vars(Loop(w))

-----------------------------------------------------------------------------
(* Properties. *)

InLoop == {"top", "reading", "counting", "poll", "scalers", "runVars", "stateVars",
           "waitStateVars", "dumped", "while"}
Places == InLoop \cup {"none", "born", "run", "clear", "schedule", "ending", "ended",
                       "notStopping", "report", "notRunning", "noStop", "failed", "exit"}

Messages == [kind : {"end", "dump", "fail"}, pause : BOOLEAN]

TypeOK ==
    /\ state \in {"inactive", "paused", "active"}
    /\ running \in BOOLEAN /\ stopping \in BOOLEAN /\ pausing \in BOOLEAN
    /\ failed \in BOOLEAN /\ living \in BOOLEAN /\ vain \in BOOLEAN /\ inTurn \in BOOLEAN
    /\ tid \in Loops \cup {Nobody} /\ (living => tid \in Loops)
    /\ loop \in [Loops -> Places]
    /\ dwell \in [Loops -> 0 .. DwellCount - 1] /\ events \in Seq(Messages)
    /\ main \in MainPlaces \cup Loops /\ op \in {"none", "begin", "resume", "pause", "end"}
    /\ phase \in {"ended", "taking", "paused"} /\ emitted \in Nat /\ shown \in Nat
    /\ faults \in 0 .. MaxFaults /\ starts \in 0 .. MaxStarts
    /\ eventTriggers \in 0 .. MaxEvents /\ scalerTriggers \in 0 .. MaxScalers

\* The places where a trigger thread is at the ring or in the hardware.
Working == {"top", "reading", "counting", "poll", "scalers"}

\* "Blocking also serializes access to the ring buffer": CRingBuffer is not safe for two
\* threads, and no two of them put at a time.
RingSerialized ==
    /\ main \in {"item", "sync", "endSync", "dump"} => \A w \in Loops : loop[w] \notin Working
    /\ \A v, w \in Loops : v # w /\ loop[v] \in InLoop => loop[w] \notin InLoop

\* The ring shows runs that begin, pause, resume and end in turn, with event data and
\* documentation only while data are taken, however a run was stopped.  The item of a
\* start that failed behind it is not taken back: it begins nothing, and the next begin
\* (or resume, or the end of the run that is paused still) follows it.
ItemsInTurn == inTurn

\* The count items say how many events of the run are in the ring.
EventsCounted ==
    main \in {"sync", "endSync"} \/ (\E w \in Loops : loop[w] = "scalers") => emitted = shown

\* Between operations, an active run has a trigger loop, or one that failed and left the
\* rest to the next end; a run that is not active has none that could still take data,
\* and as long as nothing failed no thread at all: the next start relies on it.
StateTrue ==
    main = "idle" =>
        IF state = "active"
        THEN \/ failed
             \/ \E w \in Loops : loop[w] \notin {"none", "born", "run", "ended", "notStopping",
                                                 "exit"}
        ELSE /\ \A w \in Loops : loop[w] \notin InLoop \cup {"schedule", "ending"}
             /\ faults = 0 => ~running /\ \A w \in Loops : loop[w] = "none"

-----------------------------------------------------------------------------
(* The inductive invariant. *)

\* A trigger thread that can still do something, one that has set running, and one that
\* failed.  Any number of others can be clearing stopping or living.
Lingering == {"none", "notStopping", "exit"}
Busy == Places \ Lingering
HasRun == InLoop \cup {"clear", "schedule", "ending", "ended", "report", "notRunning"}
Failing == {"report", "notRunning", "noStop", "failed"}
Dumping == {"runVars", "waitStateVars"}

\* There is one such thread, while a run starts or is active; what the flags say of it.
LoopOk(w) ==
    /\ loop[w] \in {"born", "run"} => main = "wait"
    /\ loop[w] \in {"schedule", "ending"} => state = "active"
    /\ At(w, "ended") => state # "active" /\ main \notin {"spawn", "wait"}
    /\ loop[w] \in Busy \ {"ended"} => state = "active" \/ main = "wait"
    /\ failed => loop[w] \in Lingering
LoopInv ==
    /\ \A v, w \in Loops : loop[v] \in Busy /\ loop[w] \in Busy => v = w
    /\ \A w \in Loops : LoopOk(w)
    /\ running <=> \E w \in Loops : loop[w] \in HasRun
    /\ state = "active" \/ main = "wait" => failed \/ \E w \in Loops : loop[w] \in Busy

\* How far the command is, and for which operation.
Begun == {"start", "spawn", "wait"}
MainInv ==
    /\ main \in {"item"} \cup Begun =>
           \/ op = "begin" /\ state = "inactive"
           \/ op = "resume" /\ state = "paused"
    /\ main \in {"stop", "set", "setPausing", "sync", "endSync"} => op \in {"pause", "end"}
    /\ main \in {"stop", "set", "setPausing", "endSync", "dump"} => state = "active"
    /\ main = "sync" =>
           \/ state = "active" /\ failed
           \/ state = "paused" /\ op = "end"
    /\ main \in {"join"} \cup Loops => state # "active"
    /\ main \in {"spawn", "wait"} => ~stopping
    /\ main = "spawn" => ~running /\ ~failed

\* In the interpreter's queue the thread's own event is the last, behind failures of
\* threads before it.
Awaits(kind) == events # <<>> /\ events[Len(events)].kind = kind
QueueInv ==
    /\ \A i \in 1 .. Len(events) : events[i].kind # "fail" => i = Len(events)
    /\ Awaits("dump") <=> \E w \in Loops : loop[w] \in Dumping
    /\ Awaits("end") <=> \E w \in Loops : At(w, "ending")
    /\ main = "endSync" => events # <<>> /\ Head(events).kind = "end"
    /\ main = "dump" => events # <<>> /\ Head(events).kind = "dump"

\* The run as the ring shows it is the run as the program has it, or the ring shows a
\* start that failed and the program is where it was before that.
ShownInv ==
    /\ inTurn
    /\ state = "active" \/ main \in Begun => phase = "taking" /\ ~vain
    /\ state = "inactive" /\ main \notin Begun => phase = IF vain THEN "taking" ELSE "ended"
    /\ state = "paused" /\ main \notin Begun => phase = IF vain THEN "taking" ELSE "paused"
    /\ state # "inactive" \/ main \in Begun =>
           shown = IF \E w \in Loops : At(w, "counting") THEN emitted + 1 ELSE emitted

\* As long as nothing failed a join waits for the thread, and there is no other.
FaultlessInv ==
    faults = 0 =>
        /\ ~failed /\ \A i \in 1 .. Len(events) : events[i].kind # "fail"
        /\ \A w \in Loops : loop[w] \notin Failing
        /\ \A v, w \in Loops : loop[v] # "none" /\ loop[w] # "none" => v = w
        /\ living => loop[tid] \notin {"none", "born"}
        /\ ~living => \A w \in Loops : loop[w] \in {"none", "born"}
        /\ \A w \in Loops : loop[w] # "none" =>
               state = "active" \/ main \in {"wait", "join", w}

SbsInv ==
    TypeOK /\ LoopInv /\ MainInv /\ QueueInv /\ ShownInv /\ FaultlessInv

-----------------------------------------------------------------------------
\* Every operation comes back to the operator, even if the trigger loop fails at once.
OperationsReturn == main # "idle" ~> main = "idle"

\* Once the main loop can see the request to stop, the run is halted: unless the loop
\* fails, or a thread that failed before disturbed the join of the one before this, which
\* then still has the flags to clear.
StopHalts ==
    (stopping /\ \E w \in Loops : loop[w] \in InLoop /\ \A v \in Loops \ {w} : loop[v] = "none")
        ~> (state # "active" \/ failed)

\* "End an existing run. This marks the event trigger thread for exit ...": an end that was
\* accepted ends the run.
EndEnds == (main = "set" /\ op = "end") ~> state = "inactive"
=================================================================================
