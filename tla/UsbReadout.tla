------------------------------- MODULE UsbReadout -------------------------------
(***************************************************************************)
(* The VM-USB readout program: the main thread runs the operator's begin,  *)
(* end, pause, resume and exit commands; the acquisition thread owns the   *)
(* controller while a run is active; the Tcl server thread answers slow    *)
(* control clients and triggers the monitor list; the output thread turns  *)
(* full data buffers into ring items.  They share the run state, the pool  *)
(* of data buffers, the request and reply queues under the CControlQueues  *)
(* mutex, and the controller under its global mutex.                       *)
(*                                                                         *)
(* A failed acquisition thread can still be on its way out when the next   *)
(* run begins: both are threads of the one CAcquisitionThread object, so   *)
(* they share m_Running and living.  A data buffer is told apart by what   *)
(* is in it.  An access to the controller is atomic (its own mutex), and   *)
(* so are the writes of one VMusbToAutonomous.                             *)
(***************************************************************************)
EXTENDS Integers, Sequences, FiniteSets

CONSTANTS
    Workers,        \* acquisition threads
    NBuffers,       \* bufferCount
    Faults,         \* bound: what may throw, once each
    MaxFaults, MaxRuns, MaxData,    \* bounds: faults, begins, data buffers read
    Nobody          \* the owner of a free mutex

\* Where the main thread is; it can also be waiting for the end of a worker.
MainPlaces == {"idle", "reconnect", "spawn", "starting", "started", "halt", "running?", "enter",
               "wait", "join", "exited"}

ASSUME ReadoutAssumption ==
    /\ IsFiniteSet(Workers) /\ Workers # {} /\ NBuffers \in Nat \ {0}
    /\ Faults \subseteq {"start", "read", "restart", "write", "write again"}
    /\ MaxFaults \in Nat /\ MaxRuns \in Nat /\ MaxData \in Nat
    /\ \A w \in Workers : w \notin MainPlaces \cup {"main", "tcl", Nobody}
    /\ Nobody \notin {"main", "tcl"}

VARIABLES
    state,          \* CRunState::m_state
    running,        \* CAcquisitionThread::m_Running
    living, tid,    \* Thread::living, Thread::my_id
    acq, back,      \* acquisition threads: where they are, and where stopDaq
                    \* or startDaq returns to
    requests, replies,      \* CControlQueues: opcodes, number of ACKs
    queueLock, globalLock,  \* CControlQueues' mutex, CVMUSB::getGlobalMutex
    daq,            \* the controller is in autonomous (data taking) mode
    free, filled,   \* gFreeBuffers (how many), gFilledBuffers (what is in them)
    lost,           \* ghost: buffers nobody has any more
    out, phase,     \* output thread: its item; ghost: the run as the ring shows it
    main, op,           \* main thread: where it is, and which command it runs
    crossed,        \* ghost: a run began while a failed thread was on its way out
    tcl, mustRelease,   \* Tcl server: where it is, its local of that name
    runs, faults, data, \* begins (how many), faults (which), data buffers so far
    stray           \* ghost: a monitor trigger was written after data taking stopped

run == <<state, running, living, tid>>
control == <<requests, replies, queueLock>>
pool == <<free, filled, lost>>
output == <<out, phase>>
operator == <<main, op, crossed>>
server == <<tcl, mustRelease, stray>>
bounds == <<runs, faults, data>>
vars == <<run, acq, back, control, globalLock, daq, pool, output, operator, server, bounds>>

Empty == "empty"        \* the output thread has no buffer
Items == {"START", "EVENTS", "PAUSE", "RESUME", "STOP", "STRINGS"}

Init ==
    /\ state = "Idle" /\ running = FALSE /\ living = FALSE /\ tid = Nobody
    /\ acq = [w \in Workers |-> "none"] /\ back = [w \in Workers |-> "none"]
    /\ requests = <<>> /\ replies = 0 /\ queueLock = Nobody /\ globalLock = Nobody
    /\ daq = FALSE /\ free = NBuffers /\ filled = <<>> /\ lost = 0
    /\ out = Empty /\ phase = "ended"
    /\ main = "idle" /\ op = "none" /\ crossed = FALSE
    /\ tcl = "idle" /\ mustRelease = FALSE /\ stray = FALSE
    /\ runs = 0 /\ faults = {} /\ data = 0

-----------------------------------------------------------------------------
(* The acquisition thread. *)

At(w, here) == acq[w] = here
Goto(w, there) == acq' = [acq EXCEPT ![w] = there] /\ UNCHANGED back
Call(w, routine, then) ==
    acq' = [acq EXCEPT ![w] = routine] /\ back' = [back EXCEPT ![w] = then]
GoBack(w) ==
    /\ acq' = [acq EXCEPT ![w] = back[w]]
    /\ back' = IF back[w] = "leave" THEN back ELSE [back EXCEPT ![w] = "none"]

\* gFreeBuffers.get, filled in and queued for the output thread at once.
Emit(item) ==
    free > 0 /\ free' = free - 1 /\ filled' = Append(filled, item) /\ UNCHANGED lost
Fault(kind) ==
    /\ kind \in Faults \ faults /\ Cardinality(faults) < MaxFaults
    /\ faults' = faults \cup {kind}
Others == UNCHANGED <<output, operator, server>>

\* CSynchronizedThread::run, and init up to startDaq.
InitBegin(w) ==
    /\ At(w, "born") /\ Call(w, "startDaq", "begin")
    /\ living' = TRUE /\ tid' = w /\ running' = TRUE /\ state' = "Starting"
    /\ UNCHANGED <<control, globalLock, daq, pool, bounds>> /\ Others

StartLock(w) ==
    /\ At(w, "startDaq") /\ globalLock = Nobody /\ globalLock' = w
    /\ Goto(w, "starting")
    /\ UNCHANGED <<run, control, daq, pool, bounds>> /\ Others

\* startDaq with the controller: VMusbToAutonomous, or it throws.  init goes on to
\* the main loop all the same; a resume leaves the main loop, which gives its
\* buffer back, and stops data taking.
Start(w) ==
    /\ At(w, "starting") /\ globalLock' = Nobody
    /\ \/ /\ daq' = TRUE /\ state' = "Active" /\ GoBack(w)
          /\ UNCHANGED <<pool, faults>>
       \/ /\ Fault("start") /\ UNCHANGED <<daq, state, filled, lost>>
          /\ \/ back[w] = "begin" /\ Call(w, "signal", "none") /\ UNCHANGED free
             \/ back[w] = "resumed" /\ Call(w, "stopDaq", "leave") /\ free' = free + 1
    /\ UNCHANGED <<running, living, tid, control, runs, data>> /\ Others

BeginRun(w) ==
    /\ At(w, "begin") /\ Emit("START") /\ Goto(w, "signal")
    /\ UNCHANGED <<run, control, globalLock, daq, bounds>> /\ Others

\* The condition variable lets CBeginRun go on.
Signal(w) ==
    /\ At(w, "signal") /\ Goto(w, "enter")
    /\ IF main = "starting" THEN main' = "started" ELSE UNCHANGED main
    /\ UNCHANGED <<run, control, globalLock, daq, pool, output, op, crossed, server,
                   bounds>>

\* mainLoop's pBuffer.
GetBuffer(w) ==
    /\ free > 0 /\ free' = free - 1
    /\ \/ At(w, "enter") /\ Goto(w, "read")
       \/ At(w, "refill") /\ Goto(w, "test")
    /\ UNCHANGED <<run, filled, lost, control, globalLock, daq, bounds>> /\ Others

\* processBuffer: the monitor list's data go to the Tcl server, all else is output.
Process ==
    /\ data < MaxData /\ data' = data + 1 /\ UNCHANGED lost
    /\ \/ filled' = Append(filled, "EVENTS") /\ UNCHANGED free
       \/ free' = free + 1 /\ UNCHANGED filled

\* Mutant of Read: a failed read keeps its buffer.
ReadLeaky(w) ==
    /\ At(w, "read")
    /\ \/ daq /\ Process /\ Goto(w, "refill") /\ UNCHANGED faults
       \/ Goto(w, "test") /\ UNCHANGED <<pool, data, faults>>
       \/ Fault("read") /\ Goto(w, "leave") /\ UNCHANGED <<pool, data>>
    /\ UNCHANGED <<run, control, globalLock, daq, runs>> /\ Others

\* usbRead has data, times out, or fails: throw 1, and the buffer goes back.
Read(w) ==
    /\ At(w, "read")
    /\ \/ daq /\ Process /\ Goto(w, "refill") /\ UNCHANGED faults
       \/ Goto(w, "test") /\ UNCHANGED <<pool, data, faults>>
       \/ /\ Fault("read") /\ Goto(w, "leave") /\ free' = free + 1
          /\ UNCHANGED <<filled, lost, data>>
    /\ UNCHANGED <<run, control, globalLock, daq, runs>> /\ Others

\* Mutants of Test: the controller is granted, or the run ended, without a stop.
TestGrants(w) ==
    /\ At(w, "test")
    /\ \/ requests = <<>> /\ Goto(w, "read") /\ UNCHANGED <<requests, state>>
       \/ /\ requests # <<>> /\ requests' = <<>> /\ state' = "Stopping"
          /\ \/ requests[1] = "ACQUIRE" /\ Goto(w, "grant")
             \/ requests[1] = "END" /\ Call(w, "stopDaq", "ended")
             \/ requests[1] = "PAUSE" /\ Goto(w, "pauseRun")
    /\ UNCHANGED <<running, living, tid, replies, queueLock, globalLock, daq, pool, bounds>>
    /\ Others
TestEnds(w) ==
    /\ At(w, "test")
    /\ \/ requests = <<>> /\ Goto(w, "read") /\ UNCHANGED <<requests, state>>
       \/ /\ requests # <<>> /\ requests' = <<>> /\ state' = "Stopping"
          /\ \/ requests[1] = "ACQUIRE" /\ Call(w, "stopDaqImpl", "grant")
             \/ requests[1] = "END" /\ Goto(w, "ended")
             \/ requests[1] = "PAUSE" /\ Goto(w, "pauseRun")
    /\ UNCHANGED <<running, living, tid, replies, queueLock, globalLock, daq, pool, bounds>>
    /\ Others

\* testRequest, and processCommand as far as stopping data taking.
Test(w) ==
    /\ At(w, "test")
    /\ \/ requests = <<>> /\ Goto(w, "read") /\ UNCHANGED <<requests, state>>
       \/ /\ requests # <<>> /\ requests' = <<>> /\ state' = "Stopping"
          /\ \/ requests[1] = "ACQUIRE" /\ Call(w, "stopDaqImpl", "grant")
             \/ requests[1] = "END" /\ Call(w, "stopDaq", "ended")
             \/ requests[1] = "PAUSE" /\ Goto(w, "pauseRun")
    /\ UNCHANGED <<running, living, tid, replies, queueLock, globalLock, daq, pool, bounds>>
    /\ Others

PauseItem(w) ==
    /\ At(w, "pauseRun") /\ Emit("PAUSE") /\ Call(w, "stopDaq", "pause")
    /\ UNCHANGED <<run, control, globalLock, daq, bounds>> /\ Others

-----------------------------------------------------------------------------
(* Stopping data taking. *)

StopLock(w) ==
    /\ At(w, "stopDaq") /\ globalLock = Nobody /\ globalLock' = w
    /\ Goto(w, "stopDaqImpl")
    /\ UNCHANGED <<run, control, daq, pool, bounds>> /\ Others

Unlocked(w) == IF globalLock = w THEN Nobody ELSE globalLock

\* The action register is cleared.
StopOff(w) ==
    /\ At(w, "stopDaqImpl") /\ daq' = FALSE /\ Goto(w, "drainGet")
    /\ UNCHANGED <<run, control, globalLock, pool, bounds>> /\ Others

\* drainUsb: data, the last of the data, or nothing comes any more.  The last two
\* write the action register once more (bootToTheHead).
DrainGet(w) ==
    /\ At(w, "drainGet") /\ free > 0 /\ free' = free - 1 /\ Goto(w, "drain")
    /\ UNCHANGED <<run, filled, lost, control, globalLock, daq, bounds>> /\ Others

Drain(w) ==
    /\ At(w, "drain")
    /\ \/ Process /\ \/ Goto(w, "drainGet") /\ UNCHANGED daq
                     \/ Goto(w, "drainLast") /\ daq' = FALSE
       \/ Goto(w, "drained") /\ daq' = FALSE /\ UNCHANGED <<pool, data>>
    /\ UNCHANGED <<run, control, globalLock, runs, faults>> /\ Others

DrainLast(w) ==
    /\ At(w, "drainLast") /\ free > 0 /\ free' = free - 1 /\ Goto(w, "drained")
    /\ UNCHANGED <<run, filled, lost, control, globalLock, daq, bounds>> /\ Others

\* onEndRun and disableInterrupts write too, when drainUsb's buffer is back.
Stopped(w) ==
    /\ At(w, "drained") /\ free' = free + 1
    /\ globalLock' = Unlocked(w) /\ GoBack(w)
    /\ UNCHANGED <<run, filled, lost, control, daq, bounds>> /\ Others

\* One of these writes throws, in bootToTheHead with drainUsb's buffer in its hands: out
\* of the main loop, which gives its own back, to operator()'s handler, which stops data
\* taking once more, and out of the handler to the end of the thread.
WriteThrows(w) ==
    /\ acq[w] \in {"stopDaqImpl", "drain", "drained"} /\ globalLock' = Unlocked(w)
    /\ lost' = IF At(w, "drain") THEN lost + 1 ELSE lost
    /\ LET given == IF At(w, "drained") THEN 1 ELSE 0
       IN  \/ /\ back[w] # "leave" /\ Fault("write") /\ Call(w, "stopDaq", "leave")
              /\ free' = free + given + 1 /\ UNCHANGED <<living, tid>>
           \/ /\ back[w] = "leave" /\ Fault("write again") /\ Call(w, "none", "none")
              /\ free' = free + given /\ living' = FALSE /\ tid' = Nobody
    /\ UNCHANGED <<state, running, control, daq, filled, runs, data>> /\ Others

-----------------------------------------------------------------------------
(* Answering requests, and the end of the thread.  In the paused loop only END
   and RESUME can arrive: the Tcl server acquires an active controller only. *)

Grant(w) ==
    /\ At(w, "grant") /\ replies' = replies + 1 /\ Goto(w, "granted")
    /\ UNCHANGED <<run, requests, queueLock, globalLock, daq, pool, bounds>> /\ Others

Released(w) ==
    /\ At(w, "granted") /\ requests # <<>> /\ requests' = Tail(requests)
    /\ replies' = replies + 1 /\ Goto(w, "toAutonomous")
    /\ UNCHANGED <<run, queueLock, globalLock, daq, pool, bounds>> /\ Others

\* VMusbToAutonomous, or it throws: the client has been answered, nobody waits for this.
Autonomous(w) ==
    /\ At(w, "toAutonomous") /\ daq' = TRUE /\ state' = "Active" /\ Goto(w, "read")
    /\ UNCHANGED <<running, living, tid, control, globalLock, pool, bounds>> /\ Others

RestartThrows(w) ==
    /\ At(w, "toAutonomous") /\ Fault("restart") /\ Call(w, "stopDaq", "leave")
    /\ free' = free + 1
    /\ UNCHANGED <<run, filled, lost, control, globalLock, daq, runs, data>> /\ Others

Pause(w) ==
    /\ At(w, "pause") /\ state' = "Paused" /\ replies' = replies + 1 /\ Goto(w, "paused")
    /\ UNCHANGED <<running, living, tid, requests, queueLock, globalLock, daq, pool, bounds>>
    /\ Others

PausedRequest(w) ==
    /\ At(w, "paused") /\ requests # <<>> /\ requests' = Tail(requests)
    /\ Goto(w, IF requests[1] = "END" THEN "ended" ELSE "resumeRun")
    /\ UNCHANGED <<run, replies, queueLock, globalLock, daq, pool, bounds>> /\ Others

ResumeItem(w) ==
    /\ At(w, "resumeRun") /\ Emit("RESUME") /\ Call(w, "startDaq", "resumed")
    /\ UNCHANGED <<run, control, globalLock, daq, bounds>> /\ Others

\* Mutant of Resumed: no acknowledgement.
ResumedSilently(w) ==
    /\ At(w, "resumed") /\ Goto(w, "read")
    /\ UNCHANGED <<run, control, globalLock, daq, pool, bounds>> /\ Others

Resumed(w) ==
    /\ At(w, "resumed") /\ replies' = replies + 1 /\ Goto(w, "read")
    /\ UNCHANGED <<run, requests, queueLock, globalLock, daq, pool, bounds>> /\ Others

\* Acknowledged, then throw 0; the main loop's buffer goes back.
Ended(w) ==
    /\ At(w, "ended") /\ replies' = replies + 1 /\ free' = free + 1 /\ Goto(w, "leave")
    /\ UNCHANGED <<run, requests, queueLock, globalLock, daq, filled, lost, bounds>> /\ Others

\* Mutant of Leave: no end of run item.
LeaveQuietly(w) ==
    /\ At(w, "leave") /\ state' = "Idle" /\ Goto(w, "notRunning")
    /\ UNCHANGED <<running, living, tid, control, globalLock, daq, pool, bounds>> /\ Others

\* operator() behind its handlers, in its order; the last lines only without an error.
Leave(w) ==
    /\ At(w, "leave") /\ state' = "Idle" /\ Goto(w, "endRun")
    /\ UNCHANGED <<running, living, tid, control, globalLock, daq, pool, bounds>> /\ Others
EndItem(w) ==
    /\ At(w, "endRun") /\ Emit("STOP") /\ Goto(w, "notRunning")
    /\ UNCHANGED <<run, control, globalLock, daq, bounds>> /\ Others
NotRunning(w) ==
    /\ At(w, "notRunning") /\ running' = FALSE /\ Goto(w, "return")
    /\ UNCHANGED <<state, living, tid, control, globalLock, daq, pool, bounds>> /\ Others
Return(w) ==
    /\ At(w, "return") /\ Call(w, "none", "none") /\ living' = FALSE /\ tid' = Nobody
    /\ IF back[w] = "leave" THEN UNCHANGED <<state, running>>
       ELSE state' = "Idle" /\ running' = FALSE
    /\ UNCHANGED <<control, globalLock, daq, pool, bounds>> /\ Others

-----------------------------------------------------------------------------
(* The operator's commands in the main thread. *)

Command(name, there) == main = "idle" /\ main' = there /\ op' = name /\ UNCHANGED crossed
Proceed(here, there) == main = here /\ main' = there /\ UNCHANGED <<op, crossed>>
MainOnly == UNCHANGED <<back, globalLock, daq, pool, output, server, faults, data>>

\* CBeginRun: Starting keeps the others off the controller; reconnect; start.
Begin ==
    /\ state = "Idle" /\ runs < MaxRuns /\ Command("BEGIN", "reconnect")
    /\ state' = "Starting" /\ runs' = runs + 1
    /\ UNCHANGED <<running, living, tid, acq, control>> /\ MainOnly
Reconnect ==
    /\ globalLock = Nobody /\ Proceed("reconnect", "spawn")
    /\ UNCHANGED <<run, acq, control, runs>> /\ MainOnly
Spawn ==
    /\ main = "spawn" /\ main' = "starting" /\ \E w \in Workers : At(w, "none")
    /\ crossed' = (crossed \/ \E w \in Workers : ~At(w, "none"))
    /\ LET w == CHOOSE w \in Workers : At(w, "none")     \* threads are alike
       IN  acq' = [acq EXCEPT ![w] = "born"]
    /\ UNCHANGED <<run, control, op, runs>> /\ MainOnly
Started ==
    /\ Proceed("started", "idle")
    /\ UNCHANGED <<run, acq, control, runs>> /\ MainOnly

End ==
    /\ state \in {"Active", "Paused"} /\ Command("END", "running?")
    /\ UNCHANGED <<run, acq, control, runs>> /\ MainOnly
PauseRun ==
    /\ state = "Active" /\ Command("PAUSE", "enter")
    /\ UNCHANGED <<run, acq, control, runs>> /\ MainOnly
ResumeRun ==
    /\ state = "Paused" /\ Command("RESUME", "enter")
    /\ UNCHANGED <<run, acq, control, runs>> /\ MainOnly

\* CExit: the Tcl server leaves its event loop first.
Exit ==
    /\ Command("EXIT", "halt")
    /\ UNCHANGED <<run, acq, control, runs>> /\ MainOnly
HaltServer ==
    /\ tcl = "idle" /\ Proceed("halt", "running?") /\ tcl' = "gone"
    /\ UNCHANGED <<run, acq, back, control, globalLock, daq, pool, output, mustRelease,
                   stray, bounds>>

Finish ==
    /\ IF op = "EXIT" THEN main' = "exited" /\ UNCHANGED state
       ELSE main' = "idle" /\ state' = "Idle"
    /\ UNCHANGED <<running, living, tid, op, crossed>>
IfRunning ==
    /\ \/ running /\ Proceed("running?", "enter") /\ UNCHANGED run
       \/ ~running /\ main = "running?" /\ Finish
    /\ UNCHANGED <<acq, control, runs>> /\ MainOnly

\* EndRun, PauseRun, ResumeRun: Enter and blockingTransaction, then Leave.
Ask ==
    /\ queueLock = Nobody /\ queueLock' = "main" /\ Proceed("enter", "wait")
    /\ requests' = Append(requests, IF op = "EXIT" THEN "END" ELSE op)
    /\ UNCHANGED <<run, acq, replies, runs>> /\ MainOnly
Answered ==
    /\ main = "wait" /\ replies > 0 /\ replies' = replies - 1 /\ queueLock' = Nobody
    /\ main' = IF op \in {"END", "EXIT"} THEN "join" ELSE "idle"
    /\ UNCHANGED <<run, acq, requests, op, crossed, runs>> /\ MainOnly
\* Mutant of Join: does not wait.
JoinAtOnce ==
    /\ main = "join" /\ Finish
    /\ UNCHANGED <<acq, control, runs>> /\ MainOnly

\* Thread::join: living, and then my_id.  A thread sets the two together here, and
\* resets them together; main = w is pthread_join of w.
Join ==
    /\ \/ living /\ Proceed("join", tid) /\ UNCHANGED run
       \/ ~living /\ main = "join" /\ Finish
       \/ main \in Workers /\ At(main, "none") /\ Finish
    /\ UNCHANGED <<acq, control, runs>> /\ MainOnly

-----------------------------------------------------------------------------
(* The Tcl server. *)

Serve(here, there) == tcl = here /\ tcl' = there
ServerOnly == UNCHANGED <<run, acq, back, output, operator, runs, faults>>

\* Set, Get and Update: under the global mutex, and with the controller acquired
\* if the run is active.
SlowControl ==
    /\ Serve("idle", "checked") /\ globalLock = Nobody /\ globalLock' = "tcl"
    /\ UNCHANGED <<mustRelease, stray, control, daq, pool, data>> /\ ServerOnly
CheckActive ==
    /\ Serve("checked", IF state = "Active" THEN "acquire" ELSE "use")
    /\ mustRelease' = (state = "Active")
    /\ UNCHANGED <<stray, control, globalLock, daq, pool, data>> /\ ServerOnly
\* Mutant of AcquireUsb: does not Enter.
AcquireUnguarded ==
    /\ Serve("acquire", "acquiring") /\ queueLock' = "tcl"
    /\ requests' = Append(requests, "ACQUIRE")
    /\ UNCHANGED <<mustRelease, stray, replies, globalLock, daq, pool, data>> /\ ServerOnly

AcquireUsb ==
    /\ Serve("acquire", "acquiring") /\ queueLock = Nobody /\ queueLock' = "tcl"
    /\ requests' = Append(requests, "ACQUIRE")
    /\ UNCHANGED <<mustRelease, stray, replies, globalLock, daq, pool, data>> /\ ServerOnly
Acquired ==
    /\ Serve("acquiring", "use") /\ replies > 0 /\ replies' = replies - 1
    /\ UNCHANGED <<mustRelease, stray, requests, queueLock, globalLock, daq, pool, data>>
    /\ ServerOnly
ReleaseUsb ==
    /\ mustRelease /\ Serve("use", "releasing") /\ requests' = Append(requests, "RELEASE")
    /\ UNCHANGED <<mustRelease, stray, replies, queueLock, globalLock, daq, pool, data>>
    /\ ServerOnly
Unlock ==
    /\ globalLock' = Nobody /\ mustRelease' = FALSE
    /\ \/ ~mustRelease /\ Serve("use", "idle") /\ UNCHANGED <<replies, queueLock>>
       \/ /\ Serve("releasing", "idle") /\ replies > 0 /\ replies' = replies - 1
          /\ queueLock' = Nobody
    /\ UNCHANGED <<stray, requests, daq, pool, data>> /\ ServerOnly

\* MonitorDevices looks at the run state, and then triggers the monitor list, which
\* keeps data taking alive.  (In other states it leaves the controller alone, or reads
\* the devices itself, which changes nothing here.)
MonitorDevices ==
    /\ state = "Active" /\ Serve("idle", "trigger")
    /\ UNCHANGED <<mustRelease, stray, control, globalLock, daq, pool, data>> /\ ServerOnly
TriggerList ==
    /\ Serve("trigger", "idle") /\ daq' = TRUE /\ stray' = (stray \/ state # "Active")
    /\ UNCHANGED <<mustRelease, control, globalLock, pool, data>> /\ ServerOnly

\* sendWatchedVariables: looks at the run state, then waits for a buffer.
WatchActive ==
    /\ state = "Active" /\ data < MaxData /\ data' = data + 1 /\ Serve("idle", "watched")
    /\ UNCHANGED <<mustRelease, stray, control, globalLock, daq, pool>> /\ ServerOnly
SendWatched ==
    /\ Serve("watched", "idle") /\ Emit("STRINGS")
    /\ UNCHANGED <<mustRelease, stray, control, globalLock, daq, data>> /\ ServerOnly

-----------------------------------------------------------------------------
(* The output thread. *)

GetFilled ==
    /\ out = Empty /\ filled # <<>> /\ out' = Head(filled) /\ filled' = Tail(filled)
    /\ UNCHANGED <<run, acq, back, control, globalLock, daq, free, lost, phase, operator,
                   server, bounds>>

\* What a reader of the ring takes the run's state to be after the item.
Shown(item) ==
    CASE item \in {"START", "RESUME"} -> "taking"
      [] item = "PAUSE" -> "paused"
      [] item = "STOP" -> "ended"
      [] OTHER -> phase
PutFilled ==
    /\ out # Empty /\ phase' = Shown(out) /\ out' = Empty /\ free' = free + 1
    /\ UNCHANGED <<run, acq, back, control, globalLock, daq, filled, lost, operator, server,
                   bounds>>

-----------------------------------------------------------------------------
Acquire(w) ==
    \/ InitBegin(w) \/ StartLock(w) \/ Start(w) \/ BeginRun(w) \/ Signal(w) \/ GetBuffer(w)
    \/ Read(w) \/ Test(w) \/ PauseItem(w) \/ StopLock(w) \/ StopOff(w) \/ DrainGet(w)
    \/ Drain(w) \/ DrainLast(w) \/ Stopped(w) \/ WriteThrows(w) \/ Grant(w) \/ Released(w)
    \/ Autonomous(w) \/ RestartThrows(w)
    \/ Pause(w) \/ PausedRequest(w) \/ ResumeItem(w) \/ Resumed(w) \/ Ended(w) \/ Leave(w)
    \/ EndItem(w) \/ NotRunning(w) \/ Return(w)
Operate == Begin \/ End \/ PauseRun \/ ResumeRun \/ Exit
Carry == Reconnect \/ Spawn \/ Started \/ HaltServer \/ IfRunning \/ Ask \/ Answered \/ Join
Client == SlowControl \/ MonitorDevices \/ WatchActive
Respond ==
    \/ CheckActive \/ AcquireUsb \/ Acquired \/ ReleaseUsb \/ Unlock \/ TriggerList
    \/ SendWatched
Output == GetFilled \/ PutFilled

Next == (\E w \in Workers : Acquire(w)) \/ Operate \/ Carry \/ Client \/ Respond \/ Output

Spec == Init /\ [][Next]_vars

\* Each thread is scheduled, and gets a mutex that is free over and over; of two
\* acquisition threads, one at least.  Nobody has to type a command or to ask the server.
FairSpec ==
    /\ Spec /\ WF_vars(Output) /\ SF_vars(Respond) /\ SF_vars(Carry)
    /\ SF_vars(\E w \in Workers : Acquire(w))

-----------------------------------------------------------------------------
(* Properties. *)

InMainLoop == {"read", "test", "pauseRun", "grant", "granted", "toAutonomous", "pause",
               "paused", "resumeRun", "resumed", "ended"}
Draining == {"drainGet", "drain", "drainLast", "drained"}
Stopping == {"stopDaq", "stopDaqImpl"} \cup Draining
Starting == {"startDaq", "starting"}
Places == {"none", "born", "begin", "signal", "enter", "refill", "leave", "endRun",
           "notRunning", "return"} \cup InMainLoop \cup Stopping \cup Starting

Returns == {"none", "begin", "resumed", "grant", "ended", "pause", "leave"}
States == {"Idle", "Starting", "Active", "Stopping", "Paused"}
Opcodes == {"ACQUIRE", "RELEASE", "END", "PAUSE", "RESUME"}
Commands == {"none", "BEGIN", "END", "PAUSE", "RESUME", "EXIT"}
TclPlaces == {"idle", "checked", "acquire", "acquiring", "use", "releasing", "trigger",
              "watched", "gone"}
Phases == {"taking", "paused", "ended"}
Joining == {"join"} \cup Workers

TypeOK ==
    /\ state \in States /\ running \in BOOLEAN /\ living \in BOOLEAN
    /\ tid \in Workers \cup {Nobody} /\ (living => tid \in Workers)
    /\ acq \in [Workers -> Places] /\ back \in [Workers -> Returns]
    /\ requests \in Seq(Opcodes) /\ replies \in Nat
    /\ queueLock \in {"main", "tcl", Nobody} /\ globalLock \in Workers \cup {"tcl", Nobody}
    /\ daq \in BOOLEAN /\ free \in Nat /\ filled \in Seq(Items) /\ lost \in Nat
    /\ out \in Items \cup {Empty} /\ phase \in Phases
    /\ main \in MainPlaces \cup Workers /\ op \in Commands /\ crossed \in BOOLEAN
    /\ main \in {"enter", "wait"} => op \in {"END", "PAUSE", "RESUME", "EXIT"}
    /\ main \in Joining \cup {"halt", "running?"} => op \in {"END", "EXIT"}
    /\ tcl \in TclPlaces /\ mustRelease \in BOOLEAN /\ stray \in BOOLEAN
    /\ runs \in 0 .. MaxRuns /\ faults \subseteq Faults /\ data \in 0 .. MaxData

\* The buffers a thread has in its hands: the main loop's, and drainUsb's.
HoldsLoop(w) ==
    \/ acq[w] \in InMainLoop
    \/ acq[w] \in Stopping \cup Starting /\ back[w] \in {"resumed", "grant", "ended", "pause"}
HoldsDrain(w) == At(w, "drain") \/ At(w, "drained")
InLoop == {w \in Workers : HoldsLoop(w)}
InDrain == {w \in Workers : HoldsDrain(w)}

\* "Don't lose buffers!!": whichever way a thread leaves the main loop, or fails in
\* it, every buffer of the pool is free, filled, being output or in some thread's
\* hands, once; but a write that fails can lose one.
BuffersKept ==
    /\ free + Len(filled) + (IF out = Empty THEN 0 ELSE 1)
         + Cardinality(InLoop) + Cardinality(InDrain) + lost = NBuffers
    /\ lost <= Cardinality(faults \cap {"write", "write again"})

\* The assertions of testRequest, processCommand, pauseDaq and blockingTransaction:
\* there is one request at a time, and it is one the acquisition thread expects.
RequestsFit == ~crossed =>
    /\ Len(requests) + replies <= 1
    /\ requests # <<>> => \A w \in Workers :
          /\ acq[w] \in {"read", "refill", "test"} =>
                requests[1] \in {"ACQUIRE", "END", "PAUSE"}
          /\ At(w, "granted") => requests[1] = "RELEASE"
          /\ At(w, "paused") => requests[1] \in {"END", "RESUME"}

\* "The readout thread will then pause data taking and reply": a client that
\* acquired the controller has it to itself until it releases it.
ControllerGranted ==
    ~crossed /\ tcl = "use" /\ mustRelease =>
        ~daq /\ \E w \in Workers : At(w, "granted") /\ \A v \in Workers \ {w} :
                    acq[v] \notin {"read", "starting", "toAutonomous"} \cup Draining

\* However the run ended, the controller is not left taking data: unless a read from
\* it failed, a monitor trigger came after the stop, or a run began over another.
StoppedMeansOff ==
    state = "Idle" /\ daq => "read" \in faults \/ stray \/ crossed

\* Between commands, and as long as nothing failed, the run state is the truth about
\* the acquisition thread: the next command's checks rest on it.
TakingData(w) ==
    acq[w] \in {"read", "refill", "test", "enter", "stopDaqImpl", "grant", "granted",
                "toAutonomous", "resumed"} \cup Draining
RunStateTrue ==
    main = "idle" /\ faults = {} =>
        CASE state = "Idle" -> ~running /\ \A w \in Workers : At(w, "none")
          [] state = "Paused" -> \E w \in Workers : At(w, "paused")
          [] OTHER -> running /\ \E w \in Workers : TakingData(w)

-----------------------------------------------------------------------------
(* The inductive invariant. *)

\* Where stopDaq and startDaq return to.
BackOk(w) ==
    /\ acq[w] \in Stopping => back[w] \in {"grant", "ended", "pause", "leave"}
    /\ acq[w] \in Starting => back[w] \in {"begin", "resumed"}
    /\ back[w] \in {"begin", "resumed"} => acq[w] \in Starting
    /\ back[w] \in {"grant", "ended", "pause"} => acq[w] \in Stopping
    /\ back[w] = "grant" => acq[w] # "stopDaq"
    /\ back[w] = "leave" => acq[w] \in Stopping \cup {"leave", "endRun", "notRunning", "return"}

\* Who has the two mutexes.
HasController(w) ==
    \/ At(w, "starting")
    \/ acq[w] \in {"stopDaqImpl"} \cup Draining /\ back[w] # "grant"
Asking == tcl \in {"acquiring", "releasing"} \/ (tcl = "use" /\ mustRelease)
LockInv ==
    /\ globalLock = "tcl" <=> tcl \in {"checked", "acquire", "acquiring", "use", "releasing"}
    /\ \A w \in Workers : BackOk(w) /\ (globalLock = w <=> HasController(w))
    /\ mustRelease => tcl \in {"acquire", "acquiring", "use", "releasing"}
    /\ tcl \in {"acquire", "acquiring", "releasing"} => mustRelease
    /\ queueLock = "main" <=> main = "wait"
    /\ queueLock = "tcl" <=> Asking

\* A thread that begins its run, that has one foot out of the door, and that is on
\* its way out.
Beginning(w) ==
    acq[w] \in {"born", "begin", "signal"} \/ (acq[w] \in Starting /\ back[w] = "begin")
Gone == {"none", "endRun", "notRunning", "return"}
Leaving == Gone \cup {"leave"}
Failing(w) == acq[w] \in Leaving \ {"none"} \/ back[w] = "leave"

\* A thread has left its main loop, and nobody was waiting for it.
Bolted == {"read", "restart"} \cap faults # {}

\* There is one thread, and the flags are its flags.
ThreadInv ==
    /\ \A v, w \in Workers : acq[v] # "none" /\ acq[w] # "none" => v = w
    /\ living => acq[tid] \notin {"none", "born"}
    /\ ~living => \A w \in Workers : acq[w] \in {"none", "born"}
    /\ ~running => \A w \in Workers : acq[w] \in {"none", "born", "return"}
    /\ running => \A w \in Workers : acq[w] # "return"

\* How far the command is says where the thread can be.
CommandOk(w) ==
    /\ main \in {"reconnect", "spawn"} => acq[w] \in Gone
    /\ main \in Joining => acq[w] \in Leaving
    /\ main \in Workers \ {w} => acq[w] = "none"
    /\ main = "enter" /\ op = "PAUSE" => acq[w] # "paused"
    /\ main = "enter" /\ op = "RESUME" => acq[w] \in {"paused", "none"}
    /\ tcl = "acquire" => acq[w] \notin {"pause", "paused"}
CommandInv ==
    /\ main = "starting" <=> \E w \in Workers : Beginning(w)
    /\ main \in {"reconnect", "spawn"} => state \in {"Idle", "Starting"}
    /\ main \in {"starting", "started"} => state # "Paused"
    /\ main = "spawn" => ~mustRelease
    /\ \A w \in Workers : CommandOk(w)

\* And so does the run state.
StateOk(w) ==
    /\ state = "Idle" => acq[w] \in Gone \cup {"born"}
    /\ acq[w] \in Gone \ {"none"} => state \in {"Idle", "Starting"}
    /\ \/ acq[w] \in {"pauseRun", "pause", "grant", "granted", "toAutonomous"}
       \/ back[w] \in {"pause", "grant"}
       => state = "Stopping"
    /\ acq[w] \in Stopping => state \in {"Stopping", "Paused"}
    /\ At(w, "paused") => state = "Paused"
    /\ At(w, "resumeRun") \/ back[w] = "resumed" => state = "Paused"
    /\ At(w, "resumed") => state = "Active"
    /\ state = "Paused" => acq[w] \in {"paused", "none"} \/ main \in Joining \cup {"wait"}
StateInv == \A w \in Workers : StateOk(w)

\* Whose request a thread is about to acknowledge.
AnswersTcl(w) == At(w, "grant") \/ back[w] = "grant"
AnswersMain(w) ==
    \/ op \in {"END", "EXIT"} /\ (At(w, "ended") \/ back[w] = "ended")
    \/ op = "PAUSE" /\ (acq[w] \in {"pauseRun", "pause"} \/ back[w] = "pause")
    \/ op = "RESUME" /\ (acq[w] \in {"resumeRun", "resumed"} \/ back[w] = "resumed")
Answering(w) ==
    \/ acq[w] \in {"pauseRun", "grant", "ended", "pause", "resumeRun", "resumed"}
    \/ back[w] \in {"grant", "ended", "pause", "resumed"}
Calm(w) == ~Answering(w) /\ ~At(w, "granted")

\* A conversation is at one point: nothing asked; asked; taken; answered.
Nothing == requests = <<>> /\ replies = 0
Asked(opcode) == requests = <<opcode>> /\ replies = 0
Replied == requests = <<>> /\ replies = 1
Granted == ~daq /\ \E w \in Workers : At(w, "granted")
TclTalk ==
    \/ tcl = "acquiring" /\ Asked("ACQUIRE") /\ \A w \in Workers : Calm(w) /\ ~At(w, "paused")
    \/ /\ tcl = "acquiring" /\ Nothing
       /\ \A w \in Workers : /\ Answering(w) => AnswersTcl(w)
                             /\ acq[w] \notin {"granted", "paused"}
                             /\ AnswersTcl(w) => ~daq \/ At(w, "stopDaqImpl")
    \/ tcl = "acquiring" /\ Replied /\ Granted
    \/ tcl = "use" /\ Nothing /\ Granted
    \/ tcl = "releasing" /\ Asked("RELEASE") /\ Granted
    \/ tcl = "releasing" /\ Replied /\ \A w \in Workers : Calm(w) /\ ~At(w, "paused")
MainTalk ==
    \/ /\ Asked(IF op = "EXIT" THEN "END" ELSE op)
       /\ \A w \in Workers : /\ Calm(w)
                             /\ op = "PAUSE" => ~At(w, "paused")
                             /\ op = "RESUME" => acq[w] \in {"paused", "none"}
    \/ Nothing /\ \A w \in Workers : (Answering(w) => AnswersMain(w)) /\ ~At(w, "granted")
    \/ /\ Replied
       /\ \A w \in Workers : /\ Calm(w) /\ acq[w] \notin Stopping \cup {"toAutonomous"}
                             /\ op \in {"END", "EXIT"} => acq[w] \in Leaving
                             /\ op = "PAUSE" => acq[w] \in {"paused", "none"}
                             /\ op \in {"PAUSE", "RESUME"} /\ ~Bolted => ~Failing(w)
       /\ op = "RESUME" => state # "Paused"
TalkInv ==
    /\ queueLock = Nobody => Nothing /\ \A w \in Workers : Calm(w)
    /\ queueLock = "tcl" => TclTalk
    /\ queueLock = "main" => MainTalk

\* What a fault leaves behind.
Dead == running /\ ~living
FaultInv ==
    /\ \A w \in Workers :
          /\ Failing(w) /\ ~Bolted =>
                main \in Joining \cup {"wait"} \/ (tcl = "acquiring" /\ faults # {})
          /\ back[w] = "leave" => (queueLock # Nobody /\ Nothing) \/ "restart" \in faults
          /\ acq[w] \in Stopping /\ state = "Paused" => main = "wait"
          /\ acq[w] \in {"begin", "signal"} /\ faults = {} => state = "Active"
    /\ Dead => /\ state = "Stopping" \/ (state = "Paused" /\ main = "wait")
               /\ main \notin {"reconnect", "spawn", "starting"} \cup Joining
               /\ replies = 0 /\ "write again" \in faults
    /\ faults = {} /\ state \in {"Active", "Stopping", "Paused"} => living
    /\ faults = {} /\ state = "Starting" => main \in {"reconnect", "spawn", "starting"}

\* Data taking is on in the main loop only, until it stops.
Taking == {"begin", "signal", "enter", "read", "refill", "test", "resumed"}
TakingInv ==
    "read" \notin faults =>
        /\ state = "Active" => \E w \in Workers : acq[w] \in Taking
        /\ daq /\ ~stray =>
              \/ Dead
              \/ \E w \in Workers :
                    acq[w] \in Taking \cup {"pauseRun", "stopDaq", "stopDaqImpl"}

ReadoutInv ==
    /\ TypeOK /\ BuffersKept /\ LockInv
    /\ crossed => Bolted
    /\ ~crossed => ThreadInv /\ CommandInv /\ StateInv /\ TalkInv /\ FaultInv /\ TakingInv

-----------------------------------------------------------------------------
\* The ring shows runs that begin, pause, resume and end in turn, and event data only
\* within a run (what a pause drains comes behind the pause item), until a thread
\* fails to start or leaves in the middle of a run.
StreamInTurn ==
    [][faults = {} /\ out # Empty /\ out' = Empty =>
         CASE out = "START" -> phase = "ended"
           [] out = "PAUSE" -> phase = "taking"
           [] out = "RESUME" -> phase = "paused"
           [] out \in {"STOP", "EVENTS"} -> phase \in {"taking", "paused"}
           [] OTHER -> TRUE]_vars

\* Three threads wait for each other: the acquisition thread for the controller that
\* a client of the Tcl server has, the client for the queues, and the command that
\* has the queues for the acquisition thread.
Embrace ==
    /\ main = "wait" /\ tcl = "acquire" /\ globalLock = "tcl"
    /\ \E w \in Workers : At(w, "stopDaq")

\* A request the operator made is answered, unless the three wait for each other, the
\* acquisition thread failed and is gone, or so many buffers are lost that there are
\* not two for its main loop and drainUsb.
RequestsAnswered ==
    main = "wait" ~> \/ main # "wait" \/ Embrace \/ crossed \/ NBuffers < lost + 2
                     \/ \A w \in Workers : At(w, "none")

\* "Request an end run, block until the readout thread is just about to exit": the
\* end of a run that has not failed is reached.
EndAnswered == (main = "wait" /\ op = "END") ~> main # "wait"
=================================================================================
