---------------------------- MODULE UsbReadoutProofs ----------------------------
(***************************************************************************)
(* That the readout program keeps ReadoutInv, and what follows.  The       *)
(* types, the owners of the mutexes and the buffers are kept by every      *)
(* step.  The rest is proved for one thread: as long as no run began over  *)
(* a thread on its way out (crossed), at most one worker is anywhere       *)
(* (Solo), and the invariant says of that worker all it says.  A step is   *)
(* that worker's (the lemmas called Step), or everybody else's while it    *)
(* stays where it is (the lemmas called Rest), or its birth.               *)
(***************************************************************************)
EXTENDS UsbReadout, FiniteSetTheorems, TLAPS

USE DEF run, control, pool, output, operator, server, bounds, Others, MainOnly, ServerOnly,
        At, Goto, Call, Command, Proceed, Serve

\* What the assumption on the constants says, one fact at a time.
LEMMA Apart ==
    /\ \A w \in Workers : w \notin MainPlaces /\ w # "main" /\ w # "tcl" /\ w # Nobody
    /\ Nobody # "main" /\ Nobody # "tcl"
BY ReadoutAssumption

\* The bounds are numbers, and there are finitely many threads.
LEMMA Bounds == MaxRuns \in Nat /\ MaxData \in Nat /\ NBuffers \in Nat /\ IsFiniteSet(Workers)
BY ReadoutAssumption

-----------------------------------------------------------------------------
(* Types. *)

\* Where a thread is and where it returns to.
LEMMA PlacesTyped ==
    ASSUME acq \in [Workers -> Places], back \in [Workers -> Returns], [Next]_vars
    PROVE  acq' \in [Workers -> Places] /\ back' \in [Workers -> Returns]
<1> USE DEF Places, Returns, InMainLoop, Draining, Stopping, Starting
<1>1. ASSUME NEW w \in Workers,
             \/ InitBegin(w) \/ StartLock(w) \/ Start(w) \/ BeginRun(w) \/ Signal(w)
             \/ GetBuffer(w) \/ Read(w)
      PROVE  acq' \in [Workers -> Places] /\ back' \in [Workers -> Returns]
    BY <1>1 DEF InitBegin, StartLock, Start, BeginRun, Signal, GetBuffer, Read, GoBack
<1>2. ASSUME NEW w \in Workers,
             \/ Test(w) \/ PauseItem(w) \/ StopLock(w) \/ StopOff(w) \/ DrainGet(w) \/ Drain(w)
             \/ DrainLast(w) \/ Stopped(w)
      PROVE  acq' \in [Workers -> Places] /\ back' \in [Workers -> Returns]
    BY <1>2, ZenonT(60)
        DEF Test, PauseItem, StopLock, StopOff, DrainGet, Drain, DrainLast, Stopped, GoBack
<1>3. ASSUME NEW w \in Workers,
             \/ Grant(w) \/ Released(w) \/ Autonomous(w) \/ Pause(w) \/ PausedRequest(w)
             \/ ResumeItem(w) \/ Resumed(w) \/ Ended(w) \/ Leave(w) \/ EndItem(w)
             \/ NotRunning(w) \/ Return(w)
      PROVE  acq' \in [Workers -> Places] /\ back' \in [Workers -> Returns]
    BY <1>3 DEF Grant, Released, Autonomous, Pause, PausedRequest, ResumeItem, Resumed, Ended,
                Leave, EndItem, NotRunning, Return
<1>4. CASE Operate \/ Carry
    BY <1>4 DEF Operate, Begin, End, PauseRun, ResumeRun, Exit, Carry, Reconnect, Spawn,
                Started, HaltServer, IfRunning, Ask, Answered, Join
<1>5. CASE Client \/ Respond \/ Output
    BY <1>5 DEF Client, SlowControl, MonitorDevices, WatchActive, Respond, CheckActive,
                AcquireUsb, Acquired, ReleaseUsb, Unlock, TriggerList, SendWatched, Output,
                GetFilled, PutFilled
<1>6. ASSUME NEW w \in Workers, WriteThrows(w) \/ RestartThrows(w)
      PROVE  acq' \in [Workers -> Places] /\ back' \in [Workers -> Returns]
    BY <1>6 DEF WriteThrows, RestartThrows
<1>7. CASE UNCHANGED vars
    BY <1>7 DEF vars
<1> QED
    BY <1>1, <1>2, <1>3, <1>4, <1>5, <1>6, <1>7 DEF Next, Acquire

\* Filling a buffer, and what usbRead and the end of a run do with it.
LEMMA Emitted ==
    ASSUME free \in Nat, filled \in Seq(Items), NEW item \in Items, Emit(item)
    PROVE  /\ free' \in Nat /\ filled' \in Seq(Items)
           /\ free' = free - 1 /\ Len(filled') = Len(filled) + 1 /\ lost' = lost
BY DEF Emit

\* A buffer of data is on its way to the ring, or free again.
LEMMA Processed ==
    ASSUME free \in Nat, filled \in Seq(Items), data \in 0 .. MaxData, Process
    PROVE  /\ free' \in Nat /\ filled' \in Seq(Items) /\ data' \in 0 .. MaxData
           /\ free' + Len(filled') = free + Len(filled) + 1 /\ lost' = lost
<1>1. "EVENTS" \in Items
    BY DEF Items
<1> QED
    BY <1>1, Bounds DEF Process

\* The pool of buffers and the output thread.
LEMMA BuffersTyped ==
    ASSUME free \in Nat, filled \in Seq(Items), data \in 0 .. MaxData,
           out \in Items \cup {Empty}, phase \in Phases, lost \in Nat, [Next]_vars
    PROVE  /\ free' \in Nat /\ filled' \in Seq(Items) /\ data' \in 0 .. MaxData
           /\ lost' \in Nat /\ out' \in Items \cup {Empty} /\ phase' \in Phases
<1> DEFINE Typed == /\ free' \in Nat /\ filled' \in Seq(Items) /\ data' \in 0 .. MaxData
                    /\ lost' \in Nat /\ out' \in Items \cup {Empty} /\ phase' \in Phases
<1>1. ASSUME NEW w \in Workers, BeginRun(w) \/ PauseItem(w) \/ ResumeItem(w) \/ EndItem(w)
      PROVE  Typed
    <2>1. free' \in Nat /\ filled' \in Seq(Items) /\ lost' = lost
        BY <1>1, Emitted DEF BeginRun, PauseItem, ResumeItem, EndItem, Items
    <2> QED
        BY <1>1, <2>1 DEF BeginRun, PauseItem, ResumeItem, EndItem
<1>2. ASSUME NEW w \in Workers, Read(w) \/ Drain(w) PROVE Typed
    <2>1. /\ free' \in Nat /\ filled' \in Seq(Items) /\ data' \in 0 .. MaxData
          /\ lost' = lost
        <3>1. CASE Process
            BY <3>1, Processed
        <3>2. CASE ~Process
            BY <1>2, <3>2 DEF Read, Drain
        <3> QED
            BY <3>1, <3>2
    <2> QED
        BY <1>2, <2>1 DEF Read, Drain
<1>3. ASSUME NEW w \in Workers,
             \/ GetBuffer(w) \/ DrainGet(w) \/ DrainLast(w) \/ Stopped(w) \/ Ended(w)
      PROVE  Typed
    <2>1. UNCHANGED <<filled, lost, data, out, phase>>
        BY <1>3 DEF GetBuffer, DrainGet, DrainLast, Stopped, Ended
    <2>2. free' \in Nat
        BY <1>3 DEF GetBuffer, DrainGet, DrainLast, Stopped, Ended
    <2> QED
        BY <2>1, <2>2
<1>4. ASSUME NEW w \in Workers, Start(w) PROVE Typed
    <2>1. UNCHANGED <<filled, lost, data, out, phase>>
        BY <1>4 DEF Start
    <2>2. free' = free \/ free' = free + 1
        BY <1>4 DEF Start
    <2> QED
        BY <2>1, <2>2
<1>5. ASSUME NEW w \in Workers,
             \/ InitBegin(w) \/ StartLock(w) \/ Signal(w) \/ Test(w) \/ StopLock(w)
             \/ StopOff(w) \/ Grant(w) \/ Released(w) \/ Autonomous(w) \/ Pause(w)
             \/ PausedRequest(w) \/ Resumed(w) \/ Leave(w) \/ NotRunning(w) \/ Return(w)
      PROVE  Typed
    BY <1>5 DEF InitBegin, StartLock, Signal, Test, StopLock, StopOff, Grant, Released,
                Autonomous, Pause, PausedRequest, Resumed, Leave, NotRunning, Return
<1>6. CASE Operate \/ Carry
    BY <1>6 DEF Operate, Begin, End, PauseRun, ResumeRun, Exit, Carry, Reconnect, Spawn,
                Started, HaltServer, IfRunning, Ask, Answered, Join
<1>7. CASE Client \/ Respond
    <2>1. CASE SendWatched
        BY <2>1, Emitted DEF SendWatched, Items
    <2>2. CASE ~SendWatched
        BY <1>7, <2>2, Bounds
           DEF Client, SlowControl, MonitorDevices, WatchActive, Respond, CheckActive,
               AcquireUsb, Acquired, ReleaseUsb, Unlock, TriggerList
    <2> QED
        BY <2>1, <2>2
<1>8. CASE GetFilled
    BY <1>8 DEF GetFilled
<1>9. CASE PutFilled
    BY <1>9 DEF PutFilled, Shown, Phases
<1>10. CASE UNCHANGED vars
    BY <1>10 DEF vars
<1>11. ASSUME NEW w \in Workers, WriteThrows(w) \/ RestartThrows(w) PROVE Typed
    <2>1. UNCHANGED <<filled, data, out, phase>>
        BY <1>11 DEF WriteThrows, RestartThrows
    <2>2. free' \in {free, free + 1, free + 2} /\ lost' \in {lost, lost + 1}
        <3>1. CASE WriteThrows(w)
            <4> DEFINE given == IF At(w, "drained") THEN 1 ELSE 0
            <4>1. given \in {0, 1} /\ lost' \in {lost, lost + 1}
                BY <3>1 DEF WriteThrows
            <4>2. free' = free + given + 1 \/ free' = free + given
                BY <3>1, Zenon DEF WriteThrows
            <4> QED
                BY <4>1, <4>2
        <3>2. CASE RestartThrows(w)
            BY <3>2 DEF RestartThrows
        <3> QED
            BY <1>11, <3>1, <3>2
    <2> QED
        BY <2>1, <2>2
<1> QED
    BY <1>1, <1>2, <1>3, <1>6, <1>7, <1>8, <1>9, <1>10, <1>11, <1>5, <1>4
    DEF Next, Acquire, Output

\* The queues of requests and replies.
LEMMA QueuesTyped ==
    ASSUME TypeOK, [Next]_vars PROVE requests' \in Seq(Opcodes) /\ replies' \in Nat
<1>1. requests \in Seq(Opcodes) /\ replies \in Nat /\ op \in Commands
      /\ (main = "enter" => op \in {"END", "PAUSE", "RESUME", "EXIT"})
    BY DEF TypeOK
<1>2. ASSUME NEW w \in Workers, Test(w) PROVE requests' \in Seq(Opcodes) /\ replies' \in Nat
    <2>1. requests' \in {<<>>, requests} /\ replies' = replies
        BY <1>2 DEF Test
    <2>2. <<>> \in Seq(Opcodes)
        OBVIOUS
    <2>3. CASE requests' = <<>>
        BY <1>1, <2>1, <2>2, <2>3, Zenon
    <2> QED
        BY <1>1, <2>1, <2>3
<1>3. ASSUME NEW w \in Workers,
             Released(w) \/ PausedRequest(w) \/ Grant(w) \/ Pause(w) \/ Resumed(w) \/ Ended(w)
      PROVE  requests' \in Seq(Opcodes) /\ replies' \in Nat
    BY <1>1, <1>3 DEF Released, PausedRequest, Grant, Pause, Resumed, Ended
<1>4. ASSUME NEW w \in Workers, Acquire(w), ~Test(w),
             ~(Released(w) \/ PausedRequest(w) \/ Grant(w)),
             ~(Pause(w) \/ Resumed(w) \/ Ended(w))
      PROVE  requests' \in Seq(Opcodes) /\ replies' \in Nat
    BY <1>1, <1>4
       DEF Acquire, InitBegin, StartLock, Start, BeginRun, Signal, GetBuffer, Read, PauseItem,
           StopLock, StopOff, DrainGet, Drain, DrainLast, Stopped, WriteThrows, Autonomous,
           RestartThrows, ResumeItem, Leave, EndItem, NotRunning, Return
<1>5. CASE Operate \/ Carry
    BY <1>1, <1>5 DEF Operate, Begin, End, PauseRun, ResumeRun, Exit, Carry, Reconnect, Spawn,
                      Started, HaltServer, IfRunning, Ask, Answered, Join, Opcodes
<1>6. CASE Client \/ Respond \/ Output
    BY <1>1, <1>6 DEF Client, SlowControl, MonitorDevices, WatchActive, Respond, CheckActive,
                AcquireUsb, Acquired, ReleaseUsb, Unlock, TriggerList, SendWatched, Output,
                GetFilled, PutFilled, Opcodes
<1>7. CASE UNCHANGED vars
    BY <1>1, <1>7 DEF vars
<1> QED
    BY <1>2, <1>3, <1>5, <1>6, <1>7, <1>4 DEF Next

\* Where the main thread is, and for which command; the rest.
LEMMA CommandTyped ==
    ASSUME TypeOK, [Next]_vars
    PROVE  /\ main' \in MainPlaces \cup Workers /\ op' \in Commands /\ crossed' \in BOOLEAN
           /\ main' \in {"enter", "wait"} => op' \in {"END", "PAUSE", "RESUME", "EXIT"}
           /\ main' \in Joining \cup {"halt", "running?"} => op' \in {"END", "EXIT"}
<1>1. /\ main \in MainPlaces \cup Workers /\ op \in Commands /\ crossed \in BOOLEAN
      /\ main \in {"enter", "wait"} => op \in {"END", "PAUSE", "RESUME", "EXIT"}
      /\ main \in Joining \cup {"halt", "running?"} => op \in {"END", "EXIT"}
      /\ tid \in Workers \cup {Nobody} /\ (living => tid \in Workers)
    BY DEF TypeOK
<1>2. ASSUME NEW w \in Workers, Acquire(w), ~Signal(w) PROVE UNCHANGED operator
    BY <1>2
       DEF Acquire, InitBegin, StartLock, Start, BeginRun, GetBuffer, Read, Test, PauseItem,
           StopLock, StopOff, DrainGet, Drain, DrainLast, Stopped, WriteThrows, Grant, Released,
           Autonomous, RestartThrows, Pause, PausedRequest, ResumeItem, Resumed, Ended, Leave,
       EndItem, NotRunning, Return
<1>3. CASE Client \/ Respond \/ Output \/ UNCHANGED vars
    BY <1>1, <1>3
       DEF Client, SlowControl, MonitorDevices, WatchActive, Respond, CheckActive, AcquireUsb,
           Acquired, ReleaseUsb, Unlock, TriggerList, SendWatched, Output, GetFilled, PutFilled,
           vars
<1>4. ASSUME NEW w \in Workers, Signal(w)
      PROVE  UNCHANGED <<op, crossed>> /\ main' \in {main, "started"}
    BY <1>4 DEF Signal
<1>5. CASE Operate
    BY <1>1, <1>5, Apart
       DEF Operate, Begin, End, PauseRun, ResumeRun, Exit, MainPlaces, Commands, Joining
<1>6. CASE Carry
    BY <1>1, <1>6, Apart
       DEF Carry, Reconnect, Spawn, Started, HaltServer, IfRunning, Ask, Answered, Join, Finish,
           MainPlaces, Joining
<1> QED
    BY <1>1, <1>2, <1>3, <1>4, <1>5, <1>6, Apart DEF Next, MainPlaces, Joining

\* The flags and the run state; the mutexes and the controller; the Tcl server and
\* the bounds.
LEMMA OthersTyped ==
    ASSUME TypeOK, [Next]_vars
    PROVE  /\ state' \in States /\ running' \in BOOLEAN /\ living' \in BOOLEAN
           /\ tid' \in Workers \cup {Nobody} /\ (living' => tid' \in Workers)
           /\ queueLock' \in {"main", "tcl", Nobody}
           /\ globalLock' \in Workers \cup {"tcl", Nobody} /\ daq' \in BOOLEAN
           /\ tcl' \in TclPlaces /\ mustRelease' \in BOOLEAN /\ stray' \in BOOLEAN
           /\ runs' \in 0 .. MaxRuns /\ faults' \subseteq Faults
<1> DEFINE Flags == state' \in States /\ running' \in BOOLEAN /\ living' \in BOOLEAN
           Thread == tid' \in Workers \cup {Nobody} /\ (living' => tid' \in Workers)
           Locks == /\ queueLock' \in {"main", "tcl", Nobody}
                    /\ globalLock' \in Workers \cup {"tcl", Nobody} /\ daq' \in BOOLEAN
           Rest == /\ tcl' \in TclPlaces /\ mustRelease' \in BOOLEAN /\ stray' \in BOOLEAN
                   /\ runs' \in 0 .. MaxRuns /\ faults' \subseteq Faults
<1>1. /\ state \in States /\ running \in BOOLEAN /\ living \in BOOLEAN
      /\ tid \in Workers \cup {Nobody} /\ (living => tid \in Workers)
    BY DEF TypeOK
<1>2. /\ queueLock \in {"main", "tcl", Nobody}
      /\ globalLock \in Workers \cup {"tcl", Nobody} /\ daq \in BOOLEAN
    BY DEF TypeOK
<1>3. /\ tcl \in TclPlaces /\ mustRelease \in BOOLEAN /\ stray \in BOOLEAN
      /\ runs \in 0 .. MaxRuns /\ faults \subseteq Faults
    BY DEF TypeOK
<1>4. ASSUME NEW w \in Workers,
             \/ InitBegin(w) \/ StartLock(w) \/ Start(w) \/ BeginRun(w) \/ Signal(w)
             \/ GetBuffer(w) \/ Read(w)
      PROVE  Flags /\ Thread /\ Locks /\ Rest
    <2>1. Flags
        BY <1>1, <1>4
           DEF InitBegin, StartLock, Start, BeginRun, Signal, GetBuffer, Read,
               States
    <2>2. Thread
        BY <1>1, <1>4
           DEF InitBegin, StartLock, Start, BeginRun, Signal, GetBuffer, Read
    <2>3. Locks
        BY <1>2, <1>4
           DEF InitBegin, StartLock, Start, BeginRun, Signal, GetBuffer, Read,
               Unlocked
    <2>4. Rest
        BY <1>3, <1>4
           DEF InitBegin, StartLock, Start, BeginRun, Signal, GetBuffer, Read,
               Fault
    <2> QED
        BY <2>1, <2>3, <2>4, <2>2
<1>5. ASSUME NEW w \in Workers,
             \/ Test(w) \/ PauseItem(w) \/ StopLock(w) \/ StopOff(w) \/ DrainGet(w) \/ Drain(w)
             \/ DrainLast(w) \/ Stopped(w)
      PROVE  Flags /\ Thread /\ Locks /\ Rest
    <2>1. Locks
        BY <1>2, <1>5
           DEF Test, PauseItem, StopLock, StopOff, DrainGet, Drain, DrainLast,
               Stopped, Unlocked
    <2>2. Rest
        BY <1>3, <1>5
           DEF Test, PauseItem, StopLock, StopOff, DrainGet, Drain, DrainLast,
               Stopped, Fault
    <2>3. UNCHANGED <<running, living, tid>> /\ state' \in {state, "Stopping"}
        BY <1>5 DEF Test, PauseItem, StopLock, StopOff, DrainGet, Drain, DrainLast, Stopped
    <2> QED
        BY <1>1, <2>1, <2>2, <2>3 DEF States
<1>6. ASSUME NEW w \in Workers,
             \/ Grant(w) \/ Released(w) \/ Autonomous(w) \/ Pause(w) \/ PausedRequest(w)
             \/ ResumeItem(w) \/ Resumed(w) \/ Ended(w) \/ Leave(w) \/ EndItem(w)
             \/ NotRunning(w) \/ Return(w)
      PROVE  Flags /\ Thread /\ Locks /\ Rest
    <2>1. Flags
        BY <1>1, <1>6
           DEF Grant, Released, Autonomous, Pause, PausedRequest, ResumeItem,
               Resumed, Ended, Leave, EndItem, NotRunning, Return, States
    <2>2. Thread
        BY <1>1, <1>6
           DEF Grant, Released, Autonomous, Pause, PausedRequest, ResumeItem,
               Resumed, Ended, Leave, EndItem, NotRunning, Return
    <2>3. Locks
        BY <1>2, <1>6
           DEF Grant, Released, Autonomous, Pause, PausedRequest, ResumeItem,
               Resumed, Ended, Leave, EndItem, NotRunning, Return, Unlocked
    <2>4. Rest
        BY <1>3, <1>6
           DEF Grant, Released, Autonomous, Pause, PausedRequest, ResumeItem,
               Resumed, Ended, Leave, EndItem, NotRunning, Return, Fault
    <2> QED
        BY <2>1, <2>3, <2>4, <2>2
<1>7. CASE Operate \/ Carry
    <2>1. Flags
        BY <1>1, <1>7
           DEF Operate, Begin, End, PauseRun, ResumeRun, Exit, Carry, Reconnect, Spawn, Started,
               HaltServer, IfRunning, Ask, Answered, Join, Finish, States
    <2>2. Thread
        BY <1>1, <1>7
           DEF Operate, Begin, End, PauseRun, ResumeRun, Exit, Carry, Reconnect, Spawn, Started,
               HaltServer, IfRunning, Ask, Answered, Join, Finish
    <2>3. Locks
        BY <1>2, <1>7
           DEF Operate, Begin, End, PauseRun, ResumeRun, Exit, Carry, Reconnect, Spawn, Started,
               HaltServer, IfRunning, Ask, Answered, Join
    <2>4. Rest
        BY <1>3, <1>7, Bounds
           DEF Operate, Begin, End, PauseRun, ResumeRun, Exit, Carry, Reconnect, Spawn, Started,
               HaltServer, IfRunning, Ask, Answered, Join, TclPlaces
    <2> QED
        BY <2>1, <2>3, <2>4, <2>2
<1>8. CASE Client \/ Respond
    <2>1. Flags /\ Thread
        BY <1>1, <1>8
           DEF Client, SlowControl, MonitorDevices, WatchActive, Respond, CheckActive,
               AcquireUsb, Acquired, ReleaseUsb, Unlock, TriggerList, SendWatched
    <2>2. Locks
        BY <1>2, <1>8
           DEF Client, SlowControl, MonitorDevices, WatchActive, Respond, CheckActive,
               AcquireUsb, Acquired, ReleaseUsb, Unlock, TriggerList, SendWatched
    <2>3. Rest
        BY <1>3, <1>8
           DEF Client, SlowControl, MonitorDevices, WatchActive, Respond, CheckActive,
               AcquireUsb, Acquired, ReleaseUsb, Unlock, TriggerList, SendWatched, TclPlaces
    <2> QED
        BY <2>1, <2>2, <2>3
<1>9. CASE Output \/ UNCHANGED vars
    BY <1>1, <1>2, <1>3, <1>9 DEF Output, GetFilled, PutFilled, vars
<1>10. ASSUME NEW w \in Workers, WriteThrows(w) \/ RestartThrows(w)
      PROVE  Flags /\ Thread /\ Locks /\ Rest
    <2>1. UNCHANGED <<state, running, queueLock, daq, tcl, mustRelease, stray, runs>>
        BY <1>10 DEF WriteThrows, RestartThrows
    <2>2. UNCHANGED <<living, tid>> \/ (living' = FALSE /\ tid' = Nobody)
        BY <1>10 DEF WriteThrows, RestartThrows
    <2>3. globalLock' \in {globalLock, Nobody}
        BY <1>10 DEF WriteThrows, RestartThrows, Unlocked
    <2>4. faults' \subseteq Faults
        BY <1>3, <1>10 DEF WriteThrows, RestartThrows, Fault
    <2>5. Flags /\ Thread
        <3>1. Flags
            BY <1>1, <2>1, <2>2
        <3>2. Thread
            BY <1>1, <2>2
        <3> QED
            BY <3>1, <3>2
    <2>6. Locks
        BY <1>2, <2>1, <2>3, Zenon
    <2>7. Rest
        BY <1>3, <2>1, <2>4
    <2> QED
        BY <2>5, <2>6, <2>7
<1> QED
    BY <1>4, <1>5, <1>6, <1>7, <1>8, <1>9, <1>10 DEF Next, Acquire

\* Every step keeps the types.
LEMMA TypeNext == TypeOK /\ [Next]_vars => TypeOK'
<1> SUFFICES ASSUME TypeOK, [Next]_vars PROVE TypeOK'
    OBVIOUS
<1>1. acq' \in [Workers -> Places] /\ back' \in [Workers -> Returns]
    BY PlacesTyped DEF TypeOK
<1>2. /\ free' \in Nat /\ filled' \in Seq(Items) /\ data' \in 0 .. MaxData
      /\ lost' \in Nat /\ out' \in Items \cup {Empty} /\ phase' \in Phases
    BY BuffersTyped DEF TypeOK
<1> QED
    BY <1>1, <1>2, QueuesTyped, CommandTyped, OthersTyped DEF TypeOK

-----------------------------------------------------------------------------
(* Where the threads are, and who has the mutexes. *)

\* A thread's step moves no other thread.
LEMMA OneMoves ==
    ASSUME acq \in [Workers -> Places], back \in [Workers -> Returns], NEW w \in Workers,
           Acquire(w)
    PROVE  \A v \in Workers \ {w} : acq'[v] = acq[v] /\ back'[v] = back[v]
<1>1. CASE \/ InitBegin(w) \/ StartLock(w) \/ Start(w) \/ BeginRun(w) \/ Signal(w)
           \/ GetBuffer(w) \/ Read(w) \/ Test(w) \/ PauseItem(w) \/ StopLock(w)
    BY <1>1 DEF InitBegin, StartLock, Start, BeginRun, Signal, GetBuffer, Read, Test, PauseItem,
                StopLock, GoBack
<1>2. CASE \/ StopOff(w) \/ DrainGet(w) \/ Drain(w) \/ DrainLast(w) \/ Stopped(w) \/ Grant(w)
           \/ Released(w) \/ Autonomous(w)
    BY <1>2 DEF StopOff, DrainGet, Drain, DrainLast, Stopped, Grant, Released, Autonomous,
                GoBack
<1>3. CASE \/ Pause(w) \/ PausedRequest(w) \/ ResumeItem(w) \/ Resumed(w) \/ Ended(w)
           \/ Leave(w) \/ EndItem(w) \/ NotRunning(w) \/ Return(w)
    BY <1>3 DEF Pause, PausedRequest, ResumeItem, Resumed, Ended, Leave, EndItem, NotRunning,
                Return
<1>4. CASE WriteThrows(w) \/ RestartThrows(w)
    BY <1>4 DEF WriteThrows, RestartThrows
<1> QED
    BY <1>1, <1>2, <1>3, <1>4 DEF Acquire

\* A begin puts one thread that is nowhere to the start of its run.
LEMMA OneBorn ==
    ASSUME acq \in [Workers -> Places], Spawn
    PROVE  \E w \in Workers : At(w, "none") /\ acq' = [acq EXCEPT ![w] = "born"]
<1> DEFINE w == CHOOSE w \in Workers : At(w, "none")
<1>1. w \in Workers /\ At(w, "none")
    BY DEF Spawn
<1> QED
    BY <1>1 DEF Spawn

\* Nobody else moves a thread, or tells it where to return to.
LEMMA NobodyElse ==
    ASSUME [Next]_vars, \A w \in Workers : ~Acquire(w), ~Spawn
    PROVE  acq' = acq /\ back' = back
<1>1. CASE Operate \/ Carry
    BY <1>1 DEF Operate, Begin, End, PauseRun, ResumeRun, Exit, Carry, Reconnect, Started,
                HaltServer, IfRunning, Ask, Answered, Join
<1>2. CASE Client \/ Respond \/ Output \/ UNCHANGED vars
    BY <1>2 DEF Client, SlowControl, MonitorDevices, WatchActive, Respond, CheckActive,
                AcquireUsb, Acquired, ReleaseUsb, Unlock, TriggerList, SendWatched, Output,
                GetFilled, PutFilled, vars
<1> QED
    BY <1>1, <1>2 DEF Next

\* Three ways a write to the controller throws: the restart behind a RELEASE, the first
\* that fails while data taking is stopped, and the one in the handler after it.
Bolts(w) ==
    /\ At(w, "toAutonomous") /\ acq'[w] = "stopDaq" /\ back'[w] = "leave"
    /\ UNCHANGED <<living, tid, globalLock, lost>> /\ faults' = faults \cup {"restart"}
    /\ free' = free + 1
Fails(w) ==
    /\ acq[w] \in {"stopDaqImpl", "drain", "drained"} /\ back[w] # "leave"
    /\ acq'[w] = "stopDaq" /\ back'[w] = "leave"
    /\ UNCHANGED <<living, tid>> /\ globalLock' = Unlocked(w)
    /\ "write" \notin faults /\ faults' = faults \cup {"write"}
    /\ free' = free + (IF At(w, "drained") THEN 1 ELSE 0) + 1
    /\ lost' = IF At(w, "drain") THEN lost + 1 ELSE lost
Dies(w) ==
    /\ acq[w] \in {"stopDaqImpl", "drain", "drained"} /\ back[w] = "leave"
    /\ acq'[w] = "none" /\ back'[w] = "none"
    /\ living' = FALSE /\ tid' = Nobody /\ globalLock' = Unlocked(w)
    /\ "write again" \notin faults /\ faults' = faults \cup {"write again"}
    /\ free' = free + (IF At(w, "drained") THEN 1 ELSE 0)
    /\ lost' = IF At(w, "drain") THEN lost + 1 ELSE lost

\* What a write that throws leaves alone.
LEMMA Thrown ==
    ASSUME acq \in [Workers -> Places], back \in [Workers -> Returns], NEW w \in Workers,
           WriteThrows(w) \/ RestartThrows(w)
    PROVE  /\ Bolts(w) \/ Fails(w) \/ Dies(w)
           /\ UNCHANGED <<state, running, control, daq, filled, runs, data>> /\ Others
<1>1. CASE RestartThrows(w)
    BY <1>1 DEF RestartThrows, Fault, Bolts
<1>2. CASE WriteThrows(w)
    <2>1. CASE back[w] # "leave"
        <3>1. Fails(w)
            BY <1>2, <2>1 DEF WriteThrows, Fault, Fails
        <3> QED
            BY <1>2, <3>1 DEF WriteThrows
    <2>2. CASE back[w] = "leave"
        <3>1. Dies(w)
            BY <1>2, <2>2 DEF WriteThrows, Fault, Dies
        <3> QED
            BY <1>2, <3>1 DEF WriteThrows
    <2> QED
        BY <2>1, <2>2
<1> QED
    BY <1>1, <1>2

\* Every call of stopDaq and startDaq returns where it should.
LEMMA BackStep ==
    ASSUME acq \in [Workers -> Places], back \in [Workers -> Returns], NEW w \in Workers,
           Acquire(w), BackOk(w)
    PROVE  BackOk(w)'
<1> USE DEF BackOk, Stopping, Starting, Draining
<1>1. CASE \/ InitBegin(w) \/ StartLock(w) \/ Start(w) \/ BeginRun(w) \/ Signal(w)
           \/ GetBuffer(w) \/ Read(w)
    BY <1>1 DEF InitBegin, StartLock, Start, BeginRun, Signal, GetBuffer, Read, GoBack
<1>2. CASE Test(w) \/ PauseItem(w) \/ StopLock(w) \/ StopOff(w)
    BY <1>2 DEF Test, PauseItem, StopLock, StopOff
<1>3. CASE DrainGet(w) \/ Drain(w) \/ DrainLast(w)
    BY <1>3 DEF DrainGet, Drain, DrainLast
<1>4. CASE Stopped(w)
    BY <1>4 DEF Stopped, GoBack
<1>5. CASE \/ Grant(w) \/ Released(w) \/ Autonomous(w) \/ Pause(w) \/ PausedRequest(w)
           \/ ResumeItem(w) \/ Resumed(w) \/ Ended(w) \/ Leave(w) \/ EndItem(w)
           \/ NotRunning(w) \/ Return(w)
    BY <1>5 DEF Grant, Released, Autonomous, Pause, PausedRequest, ResumeItem, Resumed, Ended,
                Leave, EndItem, NotRunning, Return
<1>6. CASE WriteThrows(w) \/ RestartThrows(w)
    BY <1>6 DEF WriteThrows, RestartThrows
<1> QED
    BY <1>1, <1>2, <1>3, <1>5, <1>4, <1>6 DEF Acquire

\* A thread takes the controller's mutex for itself, and gives only its own back.
LEMMA ControllerStep ==
    ASSUME acq \in [Workers -> Places], back \in [Workers -> Returns], NEW w \in Workers,
           Acquire(w), BackOk(w), globalLock = w <=> HasController(w)
    PROVE  /\ globalLock' = w <=> HasController(w)'
           /\ \/ globalLock' = globalLock
              \/ globalLock = Nobody /\ globalLock' = w
              \/ globalLock = w /\ globalLock' = Nobody
<1> USE Apart DEF HasController, Stopping, Starting, Draining
<1>1. CASE InitBegin(w) \/ StartLock(w) \/ BeginRun(w) \/ Signal(w) \/ GetBuffer(w) \/ Read(w)
    BY <1>1 DEF InitBegin, StartLock, BeginRun, Signal, GetBuffer, Read
<1>2. CASE Start(w)
    BY <1>2 DEF Start, GoBack, BackOk
<1>3. CASE Test(w) \/ PauseItem(w)
    BY <1>3 DEF Test, PauseItem
<1>4. CASE StopLock(w)
    BY <1>4 DEF StopLock, BackOk
<1>5. CASE StopOff(w)
    BY <1>5 DEF StopOff, Unlocked
<1>6. CASE DrainGet(w) \/ Drain(w) \/ DrainLast(w)
    BY <1>6 DEF DrainGet, Drain, DrainLast
<1>7. CASE Stopped(w)
    BY <1>7 DEF Stopped, Unlocked, GoBack, BackOk
<1>8. CASE \/ Grant(w) \/ Released(w) \/ Autonomous(w) \/ Pause(w) \/ PausedRequest(w)
           \/ ResumeItem(w) \/ Resumed(w) \/ Ended(w) \/ Leave(w) \/ EndItem(w)
           \/ NotRunning(w) \/ Return(w)
    BY <1>8 DEF Grant, Released, Autonomous, Pause, PausedRequest, ResumeItem, Resumed, Ended,
                Leave, EndItem, NotRunning, Return
<1>9. CASE WriteThrows(w) \/ RestartThrows(w)
    <2>1. CASE RestartThrows(w)
        BY <2>1 DEF RestartThrows, BackOk
    <2>2. CASE WriteThrows(w)
        BY <2>2 DEF WriteThrows, Unlocked, BackOk
    <2> QED
        BY <1>9, <2>1, <2>2
<1> QED
    BY <1>1, <1>2, <1>3, <1>4, <1>5, <1>6, <1>7, <1>8, <1>9 DEF Acquire

\* What a thread leaves alone.
LEMMA OthersAlone ==
    ASSUME NEW w \in Workers, Acquire(w)
    PROVE  /\ UNCHANGED <<output, op, crossed, server, queueLock, runs>>
           /\ main' = main \/ (Signal(w) /\ main = "starting" /\ main' = "started")
<1>1. CASE \/ InitBegin(w) \/ StartLock(w) \/ Start(w) \/ BeginRun(w) \/ Signal(w)
           \/ GetBuffer(w) \/ Read(w) \/ Test(w) \/ PauseItem(w) \/ StopLock(w)
    BY <1>1 DEF InitBegin, StartLock, Start, BeginRun, Signal, GetBuffer, Read, Test, PauseItem,
                StopLock
<1>2. CASE \/ StopOff(w) \/ DrainGet(w) \/ Drain(w) \/ DrainLast(w) \/ Stopped(w) \/ Grant(w)
           \/ Released(w) \/ Autonomous(w)
    BY <1>2 DEF StopOff, DrainGet, Drain, DrainLast, Stopped, Grant, Released, Autonomous
<1>3. CASE \/ Pause(w) \/ PausedRequest(w) \/ ResumeItem(w) \/ Resumed(w) \/ Ended(w)
           \/ Leave(w) \/ EndItem(w) \/ NotRunning(w) \/ Return(w)
    BY <1>3 DEF Pause, PausedRequest, ResumeItem, Resumed, Ended, Leave, EndItem, NotRunning,
                Return
<1>4. CASE WriteThrows(w) \/ RestartThrows(w)
    BY <1>4 DEF WriteThrows, RestartThrows
<1> QED
    BY <1>1, <1>2, <1>3, <1>4 DEF Acquire

\* Every step keeps the owners of the mutexes known: one case per kind of actor.
LEMMA LockNext == TypeOK /\ LockInv /\ [Next]_vars => LockInv'
<1> SUFFICES ASSUME TypeOK, LockInv, [Next]_vars PROVE LockInv'
    OBVIOUS
<1>1. acq \in [Workers -> Places] /\ back \in [Workers -> Returns]
    BY DEF TypeOK
<1>2. /\ globalLock = "tcl" <=> tcl \in {"checked", "acquire", "acquiring", "use", "releasing"}
      /\ mustRelease => tcl \in {"acquire", "acquiring", "use", "releasing"}
      /\ tcl \in {"acquire", "acquiring", "releasing"} => mustRelease
      /\ queueLock = "main" <=> main = "wait"
      /\ queueLock = "tcl" <=> Asking
    BY DEF LockInv
<1>3. \A w \in Workers : BackOk(w) /\ (globalLock = w <=> HasController(w))
    BY DEF LockInv
<1>4. living => tid \in Workers
    BY DEF TypeOK
<1> DEFINE Threads == \A v \in Workers : BackOk(v)' /\ (globalLock' = v <=> HasController(v)')
           Owners ==
               /\ globalLock' = "tcl" <=>
                      tcl' \in {"checked", "acquire", "acquiring", "use", "releasing"}
               /\ mustRelease' => tcl' \in {"acquire", "acquiring", "use", "releasing"}
               /\ tcl' \in {"acquire", "acquiring", "releasing"} => mustRelease'
               /\ queueLock' = "main" <=> main' = "wait"
               /\ queueLock' = "tcl" <=> Asking'
<1>5. SUFFICES Threads /\ Owners
    BY DEF LockInv
<1>6. ASSUME NEW w \in Workers, Acquire(w) PROVE Threads /\ Owners
    <2>1. /\ globalLock' = w <=> HasController(w)'
          /\ \/ globalLock' = globalLock
             \/ globalLock = Nobody /\ globalLock' = w
             \/ globalLock = w /\ globalLock' = Nobody
        BY <1>1, <1>3, <1>6, ControllerStep
    <2>2. BackOk(w)'
        BY <1>1, <1>3, <1>6, BackStep
    <2>3. ASSUME NEW v \in Workers \ {w}
          PROVE  BackOk(v)' /\ (globalLock' = v <=> HasController(v)')
        <3>1. acq'[v] = acq[v] /\ back'[v] = back[v]
            BY <1>1, <1>6, OneMoves
        <3>2. BackOk(v)' /\ (HasController(v)' <=> HasController(v))
            BY <1>3, <3>1 DEF BackOk, HasController
        <3> QED
            BY <1>3, <2>1, <3>2, Apart
    <2>4. Threads
        BY <2>1, <2>2, <2>3
    <2>5. UNCHANGED <<tcl, mustRelease, queueLock>> /\ (main' = "wait" <=> main = "wait")
        BY <1>6, OthersAlone
    <2>6. globalLock' = "tcl" <=> globalLock = "tcl"
        BY <2>1, Apart
    <2>7. Owners
        BY <1>2, <2>5, <2>6 DEF Asking
    <2> QED
        BY <2>4, <2>7
<1>7. CASE Spawn
    <2>1. PICK w \in Workers : At(w, "none") /\ acq' = [acq EXCEPT ![w] = "born"]
        BY <1>7, <1>1, OneBorn
    <2>2. UNCHANGED <<back, globalLock, tcl, mustRelease, queueLock>>
          /\ main = "spawn" /\ main' = "starting"
        BY <1>7 DEF Spawn
    <2>3. Threads
        BY <1>1, <1>3, <2>1, <2>2 DEF BackOk, HasController, Stopping, Starting, Draining
    <2> QED
        BY <1>2, <2>2, <2>3 DEF Asking
<1>8. ASSUME \A w \in Workers : ~Acquire(w), ~Spawn PROVE Threads /\ Owners
    <2>1. acq' = acq /\ back' = back
        BY <1>8, NobodyElse
    <2>2. Owners /\ (\/ globalLock' = globalLock
                     \/ globalLock' \in {"tcl", Nobody} /\ globalLock \in {"tcl", Nobody})
        <3>1. CASE Ask \/ Answered
            <4>1. CASE Ask
                BY <1>2, <4>1, Apart DEF Ask, Asking
            <4>2. CASE Answered
                <5>1. main' # "wait"
                    BY <4>2 DEF Answered
                <5> QED
                    BY <1>2, <4>2, <5>1, Apart DEF Answered, Asking
            <4> QED
                BY <3>1, <4>1, <4>2
        <3>2. CASE HaltServer
            BY <1>2, <3>2 DEF HaltServer, Asking
        <3>3. CASE Operate \/ Reconnect \/ Started \/ IfRunning \/ Join
            <4>1. UNCHANGED <<globalLock, tcl, mustRelease, queueLock>>
                BY <3>3
                   DEF Operate, Begin, End, PauseRun, ResumeRun, Exit, Reconnect, Started,
                       IfRunning, Join
            <4>2. main # "wait" /\ main' # "wait"
                BY <1>4, <3>3, Apart
                   DEF Operate, Begin, End, PauseRun, ResumeRun, Exit, Reconnect, Started,
                       IfRunning, Join, Finish, MainPlaces
            <4> QED
                BY <1>2, <4>1, <4>2 DEF Asking
        <3>4. CASE SlowControl \/ CheckActive \/ AcquireUsb
            <4>1. CASE SlowControl
                BY <1>2, <4>1, Apart DEF SlowControl, Asking
            <4>2. CASE CheckActive
                <5>1. /\ tcl = "checked" /\ tcl' \in {"acquire", "use"}
                      /\ mustRelease' <=> tcl' = "acquire"
                    BY <4>2 DEF CheckActive
                <5> QED
                    BY <1>2, <4>2, <5>1 DEF CheckActive, Asking
            <4>3. CASE AcquireUsb
                BY <1>2, <4>3, Apart DEF AcquireUsb, Asking
            <4> QED
                BY <3>4, <4>1, <4>2, <4>3
        <3>5. CASE Acquired \/ ReleaseUsb \/ Unlock
            BY <1>2, <3>5, Apart DEF Acquired, ReleaseUsb, Unlock, Asking
        <3>6. CASE MonitorDevices \/ WatchActive \/ TriggerList \/ SendWatched
            BY <1>2, <3>6 DEF MonitorDevices, WatchActive, TriggerList, SendWatched, Asking
        <3>7. CASE Output \/ UNCHANGED vars
            BY <1>2, <3>7 DEF Output, GetFilled, PutFilled, vars, Asking
        <3> QED
            BY <1>8, <3>1, <3>2, <3>3, <3>4, <3>5, <3>6, <3>7
               DEF Next, Carry, Client, Respond
    <2>3. ASSUME NEW v \in Workers PROVE BackOk(v)' /\ (globalLock' = v <=> HasController(v)')
        <3>1. BackOk(v)' /\ (HasController(v)' <=> HasController(v))
            BY <1>3, <2>1 DEF BackOk, HasController
        <3> QED
            BY <1>3, <2>2, <3>1, Apart
    <2> QED
        BY <2>2, <2>3
<1> QED
    BY <1>6, <1>7, <1>8

-----------------------------------------------------------------------------
(* No buffer is lost. *)

One(P) == IF P THEN 1 ELSE 0

\* Subsets that differ in at most one element differ by it in size.
LEMMA CountOne ==
    ASSUME NEW S, IsFiniteSet(S), NEW w \in S, NEW A \in SUBSET S, NEW B \in SUBSET S,
           A \ {w} = B \ {w}
    PROVE  /\ Cardinality(A) \in Nat /\ Cardinality(B) \in Nat
           /\ Cardinality(B) + One(w \in A) = Cardinality(A) + One(w \in B)
<1>1. IsFiniteSet(A) /\ IsFiniteSet(B) /\ Cardinality(A) \in Nat /\ Cardinality(B) \in Nat
    BY FS_Subset, FS_CardinalityType
<1>2. CASE w \in A /\ w \notin B
    <2>1. B = A \ {w}
        BY <1>2
    <2>2. Cardinality(B) = Cardinality(A) - 1
        BY <1>1, <1>2, <2>1, FS_RemoveElement
    <2> QED
        BY <1>1, <1>2, <2>2 DEF One
<1>3. CASE w \notin A /\ w \in B
    <2>1. A = B \ {w}
        BY <1>3
    <2>2. Cardinality(A) = Cardinality(B) - 1
        BY <1>1, <1>3, <2>1, FS_RemoveElement
    <2> QED
        BY <1>1, <1>3, <2>2 DEF One
<1>4. CASE w \in A <=> w \in B
    <2>1. A = B
        BY <1>4
    <2> QED
        BY <1>1, <2>1 DEF One
<1> QED
    BY <1>2, <1>3, <1>4

\* A step of one thread changes the hands that hold buffers by its own.
LEMMA HandsStep ==
    ASSUME NEW w \in Workers,
           \A v \in Workers \ {w} : acq'[v] = acq[v] /\ back'[v] = back[v]
    PROVE  /\ Cardinality(InLoop) \in Nat /\ Cardinality(InDrain) \in Nat
           /\ Cardinality(InLoop') \in Nat /\ Cardinality(InDrain') \in Nat
           /\ Cardinality(InLoop') + One(HoldsLoop(w)) =
                  Cardinality(InLoop) + One(HoldsLoop(w)')
           /\ Cardinality(InDrain') + One(HoldsDrain(w))
                  = Cardinality(InDrain) + One(HoldsDrain(w)')
<1>1. InLoop \in SUBSET Workers /\ InLoop' \in SUBSET Workers /\ InLoop \ {w} = InLoop' \ {w}
    BY DEF InLoop, HoldsLoop
<1>2. /\ InDrain \in SUBSET Workers /\ InDrain' \in SUBSET Workers
      /\ InDrain \ {w} = InDrain' \ {w}
    BY DEF InDrain, HoldsDrain
<1>3. /\ w \in InLoop <=> HoldsLoop(w)
      /\ w \in InLoop' <=> HoldsLoop(w)'
      /\ w \in InDrain <=> HoldsDrain(w)
      /\ w \in InDrain' <=> HoldsDrain(w)'
    BY DEF InLoop, InDrain
<1>4. /\ Cardinality(InLoop) \in Nat /\ Cardinality(InLoop') \in Nat
      /\ Cardinality(InLoop') + One(w \in InLoop) = Cardinality(InLoop) + One(w \in InLoop')
    BY <1>1, Bounds, CountOne
<1>5. /\ Cardinality(InDrain) \in Nat /\ Cardinality(InDrain') \in Nat
      /\ Cardinality(InDrain') + One(w \in InDrain) = Cardinality(InDrain) + One(w \in InDrain')
    BY <1>2, Bounds, CountOne
<1> QED
    BY <1>3, <1>4, <1>5 DEF One

\* A thread's step gives what it holds to the pool or the queue, or takes it from there.
LEMMA BufferStep ==
    ASSUME acq \in [Workers -> Places], back \in [Workers -> Returns],
           free \in Nat, filled \in Seq(Items), data \in 0 .. MaxData, lost \in Nat,
           NEW w \in Workers, Acquire(w), BackOk(w)
    PROVE  /\ free' + Len(filled') + One(HoldsLoop(w)') + One(HoldsDrain(w)') + lost'
                  = free + Len(filled) + One(HoldsLoop(w)) + One(HoldsDrain(w)) + lost
           /\ free' \in Nat /\ Len(filled') \in Nat /\ lost' \in Nat
<1> DEFINE Kept == /\ free' + Len(filled') + One(HoldsLoop(w)') + One(HoldsDrain(w)') + lost'
                         = free + Len(filled) + One(HoldsLoop(w)) + One(HoldsDrain(w)) + lost
                   /\ free' \in Nat /\ Len(filled') \in Nat /\ lost' \in Nat
           Hands == UNCHANGED <<HoldsLoop(w), HoldsDrain(w)>>
<1>1. Len(filled) \in Nat
    OBVIOUS
<1> USE DEF HoldsLoop, HoldsDrain, InMainLoop, Stopping, Starting, Draining
<1>2. CASE \/ InitBegin(w) \/ StartLock(w) \/ Signal(w) \/ Test(w) \/ StopLock(w)
           \/ StopOff(w)
    <2>1. Hands
        BY <1>2 DEF InitBegin, StartLock, Signal, Test, StopLock, StopOff, BackOk
    <2>2. UNCHANGED pool
        BY <1>2 DEF InitBegin, StartLock, Signal, Test, StopLock, StopOff
    <2> QED
        BY <1>1, <2>1, <2>2 DEF One
<1>3. CASE \/ Grant(w) \/ Released(w) \/ Autonomous(w) \/ Pause(w) \/ PausedRequest(w)
           \/ Resumed(w) \/ Leave(w) \/ NotRunning(w) \/ Return(w)
    <2>1. Hands
        BY <1>3 DEF Grant, Released, Autonomous, Pause, PausedRequest, Resumed, Leave,
                    NotRunning, Return, BackOk
    <2>2. UNCHANGED pool
        BY <1>3 DEF Grant, Released, Autonomous, Pause, PausedRequest, Resumed, Leave,
                    NotRunning, Return
    <2> QED
        BY <1>1, <2>1, <2>2 DEF One
<1>4. CASE BeginRun(w) \/ PauseItem(w) \/ ResumeItem(w) \/ EndItem(w)
    <2>1. Hands
        BY <1>4 DEF BeginRun, PauseItem, ResumeItem, EndItem, BackOk
    <2>2. free' \in Nat /\ free' = free - 1 /\ Len(filled') = Len(filled) + 1
          /\ lost' = lost
        BY <1>4, Emitted DEF BeginRun, PauseItem, ResumeItem, EndItem, Items
    <2> QED
        BY <1>1, <2>1, <2>2 DEF One
<1>5. CASE Start(w)
    <2>1. CASE UNCHANGED pool
        <3>1. Hands
            BY <1>5, <2>1 DEF Start, GoBack, BackOk
        <3> QED
            BY <1>1, <2>1, <3>1 DEF One
    <2>2. CASE ~UNCHANGED pool
        BY <1>5, <1>1, <2>2, SMTT(30) DEF Start, One
    <2> QED
        BY <2>1, <2>2
<1>6. CASE GetBuffer(w) \/ DrainGet(w) \/ DrainLast(w)
    BY <1>6, <1>1, SMTT(30) DEF GetBuffer, DrainGet, DrainLast, BackOk, One
<1>7. CASE Read(w)
    <2>1. CASE Process /\ Goto(w, "refill")
        <3>1. /\ free' \in Nat /\ filled' \in Seq(Items)
              /\ free' + Len(filled') = free + Len(filled) + 1 /\ lost' = lost
            BY <2>1, Processed
        <3>2. HoldsLoop(w) /\ ~HoldsDrain(w) /\ ~HoldsLoop(w)' /\ ~HoldsDrain(w)'
            BY <1>7, <2>1 DEF Read, BackOk
        <3> QED
            BY <1>1, <3>1, <3>2 DEF One
    <2>2. CASE Goto(w, "test") /\ UNCHANGED pool
        BY <1>7, <1>1, <2>2 DEF Read, One
    <2>3. CASE Goto(w, "leave") /\ free' = free + 1 /\ UNCHANGED <<filled, lost>>
        BY <1>7, <1>1, <2>3 DEF Read, BackOk, One
    <2> QED
        BY <1>7, <2>1, <2>2, <2>3 DEF Read
<1>8. CASE Drain(w)
    <2>1. CASE Process /\ (Goto(w, "drainGet") \/ Goto(w, "drainLast"))
        <3>1. /\ free' \in Nat /\ filled' \in Seq(Items)
              /\ free' + Len(filled') = free + Len(filled) + 1 /\ lost' = lost
            BY <2>1, Processed
        <3>2. HoldsDrain(w) /\ ~HoldsDrain(w)' /\ (HoldsLoop(w)' <=> HoldsLoop(w))
            BY <1>8, <2>1 DEF Drain
        <3>3. Len(filled') \in Nat
            BY <3>1
        <3>4. CASE HoldsLoop(w)
            BY <1>1, <3>1, <3>2, <3>3, <3>4 DEF One
        <3>5. CASE ~HoldsLoop(w)
            BY <1>1, <3>1, <3>2, <3>3, <3>5 DEF One
        <3> QED
            BY <3>4, <3>5
    <2>2. CASE Goto(w, "drained") /\ UNCHANGED pool
        BY <1>8, <1>1, <2>2 DEF Drain, One
    <2> QED
        BY <1>8, <2>1, <2>2 DEF Drain
<1>9. CASE WriteThrows(w) \/ RestartThrows(w)
    <2>1. filled' = filled /\ (Bolts(w) \/ Fails(w) \/ Dies(w))
        BY <1>9, Thrown
    <2>2. CASE Bolts(w)
        <3>1. HoldsLoop(w) /\ ~HoldsDrain(w) /\ ~HoldsLoop(w)' /\ ~HoldsDrain(w)'
            BY <2>2 DEF Bolts
        <3>2. free' = free + 1 /\ lost' = lost
            BY <2>2 DEF Bolts
        <3> QED
            BY <1>1, <2>1, <3>1, <3>2 DEF One
    <2>3. CASE Fails(w)
        <3>1. HoldsLoop(w) /\ ~HoldsLoop(w)' /\ ~HoldsDrain(w)'
            BY <2>3 DEF Fails, BackOk
        <3>2. acq[w] \in {"stopDaqImpl", "drain", "drained"}
            BY <2>3 DEF Fails
        <3>3. CASE At(w, "stopDaqImpl")
            <4>1. free' = free + 1 /\ lost' = lost
                BY <2>3, <3>3 DEF Fails
            <4>2. ~HoldsDrain(w)
                BY <3>3
            <4> QED
                BY <1>1, <2>1, <3>1, <4>1, <4>2 DEF One
        <3>4. CASE At(w, "drain")
            <4>1. free' = free + 1 /\ lost' = lost + 1
                BY <2>3, <3>4 DEF Fails
            <4>2. HoldsDrain(w)
                BY <3>4
            <4> QED
                BY <1>1, <2>1, <3>1, <4>1, <4>2 DEF One
        <3>5. CASE At(w, "drained")
            <4>1. free' = free + 2 /\ lost' = lost
                BY <2>3, <3>5 DEF Fails
            <4>2. HoldsDrain(w)
                BY <3>5
            <4> QED
                BY <1>1, <2>1, <3>1, <4>1, <4>2 DEF One
        <3> QED
            BY <3>2, <3>3, <3>4, <3>5
    <2>4. CASE Dies(w)
        <3>1. ~HoldsLoop(w) /\ ~HoldsLoop(w)' /\ ~HoldsDrain(w)'
            BY <2>4 DEF Dies
        <3>2. acq[w] \in {"stopDaqImpl", "drain", "drained"}
            BY <2>4 DEF Dies
        <3>3. CASE At(w, "stopDaqImpl")
            <4>1. free' = free + 0 /\ lost' = lost
                BY <2>4, <3>3 DEF Dies
            <4>2. ~HoldsDrain(w)
                BY <3>3
            <4> QED
                BY <1>1, <2>1, <3>1, <4>1, <4>2 DEF One
        <3>4. CASE At(w, "drain")
            <4>1. free' = free + 0 /\ lost' = lost + 1
                BY <2>4, <3>4 DEF Dies
            <4>2. HoldsDrain(w)
                BY <3>4
            <4> QED
                BY <1>1, <2>1, <3>1, <4>1, <4>2 DEF One
        <3>5. CASE At(w, "drained")
            <4>1. free' = free + 1 /\ lost' = lost
                BY <2>4, <3>5 DEF Dies
            <4>2. HoldsDrain(w)
                BY <3>5
            <4> QED
                BY <1>1, <2>1, <3>1, <4>1, <4>2 DEF One
        <3> QED
            BY <3>2, <3>3, <3>4, <3>5
    <2> QED
        BY <2>1, <2>2, <2>3, <2>4
<1>10. CASE Stopped(w)
    BY <1>10, <1>1 DEF Stopped, GoBack, BackOk, One
<1>11. CASE Ended(w)
    BY <1>11, <1>1 DEF Ended, BackOk, One
<1> QED
    BY <1>2, <1>3, <1>4, <1>5, <1>6, <1>7, <1>9, <1>10, <1>11, <1>8 DEF Acquire

\* Faults stay.
LEMMA FaultsGrow == ASSUME [Next]_vars PROVE faults \subseteq faults'
<1>1. ASSUME NEW w \in Workers, Acquire(w) PROVE faults \subseteq faults'
    BY <1>1
       DEF Acquire, InitBegin, StartLock, Start, BeginRun, Signal, GetBuffer, Read, Test,
           PauseItem, StopLock, StopOff, DrainGet, Drain, DrainLast, Stopped, Grant, Released,
           Autonomous, Pause, PausedRequest, ResumeItem, Resumed, Ended, Leave, EndItem,
           NotRunning, Return, WriteThrows, RestartThrows, Fault
<1>2. CASE Operate \/ Carry
    BY <1>2 DEF Operate, Begin, End, PauseRun, ResumeRun, Exit, Carry, Reconnect, Spawn,
                Started, HaltServer, IfRunning, Ask, Answered, Join
<1>3. CASE Client \/ Respond \/ Output \/ UNCHANGED vars
    BY <1>3 DEF Client, SlowControl, MonitorDevices, WatchActive, Respond, CheckActive,
                AcquireUsb, Acquired, ReleaseUsb, Unlock, TriggerList, SendWatched, Output,
                GetFilled, PutFilled, vars
<1> QED
    BY <1>1, <1>2, <1>3 DEF Next

\* Only a write that throws loses a buffer.
LEMMA LostOnly ==
    ASSUME [Next]_vars, \A w \in Workers : ~WriteThrows(w) PROVE lost' = lost
<1>1. ASSUME NEW w \in Workers,
             \/ InitBegin(w) \/ StartLock(w) \/ Start(w) \/ BeginRun(w) \/ Signal(w)
             \/ GetBuffer(w) \/ Read(w) \/ Test(w) \/ PauseItem(w) \/ StopLock(w)
             \/ StopOff(w)
      PROVE  lost' = lost
    BY <1>1 DEF InitBegin, StartLock, Start, BeginRun, Signal, GetBuffer, Read, Test, PauseItem,
                StopLock, StopOff, Emit, Process
<1>2. ASSUME NEW w \in Workers,
             \/ DrainGet(w) \/ Drain(w) \/ DrainLast(w) \/ Stopped(w) \/ Grant(w)
             \/ Released(w) \/ Autonomous(w) \/ RestartThrows(w) \/ Pause(w)
             \/ PausedRequest(w) \/ ResumeItem(w) \/ Resumed(w) \/ Ended(w) \/ Leave(w)
             \/ EndItem(w) \/ NotRunning(w) \/ Return(w)
      PROVE  lost' = lost
    BY <1>2 DEF DrainGet, Drain, DrainLast, Stopped, Grant, Released, Autonomous, RestartThrows,
                Pause, PausedRequest, ResumeItem, Resumed, Ended, Leave, EndItem, NotRunning,
                Return, Emit, Process
<1>3. CASE Operate \/ Carry
    BY <1>3 DEF Operate, Begin, End, PauseRun, ResumeRun, Exit, Carry, Reconnect, Spawn,
                Started, HaltServer, IfRunning, Ask, Answered, Join
<1>4. CASE Client \/ Respond \/ Output \/ UNCHANGED vars
    BY <1>4 DEF Client, SlowControl, MonitorDevices, WatchActive, Respond, CheckActive,
                AcquireUsb, Acquired, ReleaseUsb, Unlock, TriggerList, SendWatched, Output,
                GetFilled, PutFilled, Emit, vars
<1> QED
    BY <1>1, <1>2, <1>3, <1>4 DEF Next, Acquire

Writes == {"write", "write again"}

\* There have been at least as many failed writes as buffers are lost.
LEMMA LostNext ==
    ASSUME TypeOK, [Next]_vars, lost <= Cardinality(faults \cap Writes)
    PROVE  lost' <= Cardinality(faults' \cap Writes)
<1>1. /\ acq \in [Workers -> Places] /\ back \in [Workers -> Returns] /\ lost \in Nat
    BY DEF TypeOK
<1>2. IsFiniteSet(Writes)
    <2>1. IsFiniteSet({"write"})
        BY FS_Singleton
    <2>2. Writes = {"write"} \cup {"write again"}
        BY DEF Writes
    <2> QED
        BY <2>1, <2>2, FS_AddElement
<1>3. \A A \in SUBSET Writes : IsFiniteSet(A) /\ Cardinality(A) \in Nat
    BY <1>2, FS_Subset, FS_CardinalityType
<1>4. CASE \A w \in Workers : ~WriteThrows(w)
    <2>1. lost' = lost
        BY <1>4, LostOnly
    <2>2. faults \cap Writes \subseteq faults' \cap Writes /\ IsFiniteSet(faults' \cap Writes)
        BY <1>3, FaultsGrow
    <2>3. Cardinality(faults \cap Writes) <= Cardinality(faults' \cap Writes)
        BY <2>2, FS_Subset
    <2>4. /\ Cardinality(faults \cap Writes) \in Nat
          /\ Cardinality(faults' \cap Writes) \in Nat
        BY <1>3
    <2> QED
        BY <1>1, <2>1, <2>3, <2>4
<1>5. ASSUME NEW w \in Workers, WriteThrows(w)
      PROVE  lost' <= Cardinality(faults' \cap Writes)
    <2>1. Fails(w) \/ Dies(w)
        BY <1>1, <1>5, Thrown DEF Bolts, WriteThrows
    <2>2. lost' \in {lost, lost + 1}
        BY <2>1 DEF Fails, Dies
    <2>3. PICK kind \in Writes : kind \notin faults /\ faults' = faults \cup {kind}
        BY <2>1 DEF Fails, Dies, Writes
    <2>4. /\ faults' \cap Writes = (faults \cap Writes) \cup {kind}
          /\ kind \notin faults \cap Writes
        BY <2>3
    <2>5. /\ IsFiniteSet(faults \cap Writes) /\ Cardinality(faults \cap Writes) \in Nat
        BY <1>3
    <2>6. Cardinality(faults' \cap Writes) = Cardinality(faults \cap Writes) + 1
        BY <2>4, <2>5, FS_AddElement
    <2> QED
        BY <1>1, <2>2, <2>5, <2>6
<1> QED
    BY <1>4, <1>5

\* Whoever takes a step, the buffers stay as many as they were.
LEMMA BuffersNext == TypeOK /\ LockInv /\ BuffersKept /\ [Next]_vars => BuffersKept'
<1> SUFFICES ASSUME TypeOK, LockInv, BuffersKept, [Next]_vars PROVE BuffersKept'
    OBVIOUS
<1>1. /\ acq \in [Workers -> Places] /\ back \in [Workers -> Returns]
      /\ free \in Nat /\ filled \in Seq(Items) /\ data \in 0 .. MaxData
      /\ lost \in Nat /\ out \in Items \cup {Empty}
    BY DEF TypeOK
<1>2. Len(filled) \in Nat /\ "STRINGS" \in Items /\ Empty \notin Items
    BY <1>1 DEF Items, Empty
<1>3. /\ free + Len(filled) + One(out # Empty) + Cardinality(InLoop) + Cardinality(InDrain)
             + lost = NBuffers
      /\ Cardinality(InLoop) \in Nat /\ Cardinality(InDrain) \in Nat
    <2>1. Cardinality(InLoop) \in Nat /\ Cardinality(InDrain) \in Nat
        BY Bounds, FS_Subset, FS_CardinalityType DEF InLoop, InDrain
    <2> QED
        BY <2>1 DEF BuffersKept, One
<1>4. SUFFICES free' + Len(filled') + One(out' # Empty) + Cardinality(InLoop')
                  + Cardinality(InDrain') + lost' = NBuffers
    <2>1. lost' <= Cardinality(faults' \cap Writes)
        BY LostNext DEF BuffersKept, Writes
    <2> QED
        BY <2>1 DEF BuffersKept, One, Writes
<1>5. ASSUME NEW w \in Workers, Acquire(w)
      PROVE  free' + Len(filled') + One(out' # Empty) + Cardinality(InLoop')
                  + Cardinality(InDrain') + lost' = NBuffers
    <2>1. /\ free' + Len(filled') + One(HoldsLoop(w)') + One(HoldsDrain(w)') + lost'
                  = free + Len(filled) + One(HoldsLoop(w)) + One(HoldsDrain(w)) + lost
          /\ free' \in Nat /\ Len(filled') \in Nat /\ lost' \in Nat
        BY <1>1, <1>5, BufferStep DEF LockInv
    <2>2. /\ Cardinality(InLoop') \in Nat /\ Cardinality(InDrain') \in Nat
          /\ Cardinality(InLoop') + One(HoldsLoop(w)) = Cardinality(InLoop) + One(HoldsLoop(w)')
          /\ Cardinality(InDrain') + One(HoldsDrain(w))
                  = Cardinality(InDrain) + One(HoldsDrain(w)')
        BY <1>1, <1>5, OneMoves, HandsStep
    <2>3. out' = out
        BY <1>5, OthersAlone
    <2>4. PICK l \in Int, l1 \in Int, d \in Int, d1 \in Int :
              /\ l = One(HoldsLoop(w)) /\ l1 = One(HoldsLoop(w)')
              /\ d = One(HoldsDrain(w)) /\ d1 = One(HoldsDrain(w)')
        BY DEF One
    <2>5. free' + Len(filled') + l1 + d1 + lost' = free + Len(filled) + l + d + lost
        BY <2>1, <2>4
    <2>6. Cardinality(InLoop') + l = Cardinality(InLoop) + l1
        BY <2>2, <2>4
    <2>7. Cardinality(InDrain') + d = Cardinality(InDrain) + d1
        BY <2>2, <2>4
    <2>8. PICK c \in Int : c = Cardinality(InLoop)
        BY <1>3
    <2>9. PICK c1 \in Int : c1 = Cardinality(InLoop')
        BY <2>2
    <2>10. PICK e \in Int : e = Cardinality(InDrain)
        BY <1>3
    <2>11. PICK e1 \in Int : e1 = Cardinality(InDrain')
        BY <2>2
    <2>12. PICK f \in Int : f = free + Len(filled)
        BY <1>1, <1>2
    <2>13. PICK f1 \in Int : f1 = free' + Len(filled')
        BY <2>1
    <2>14. PICK o \in Int : o = One(out # Empty)
        BY DEF One
    <2>15. PICK x \in Int : x = lost
        BY <1>1
    <2>16. PICK x1 \in Int : x1 = lost'
        BY <2>1
    <2>17. f1 + l1 + d1 + x1 = f + l + d + x /\ c1 + l = c + l1 /\ e1 + d = e + d1
        BY <2>5, <2>6, <2>7, <2>8, <2>9, <2>10, <2>11, <2>12, <2>13, <2>15, <2>16
    <2>18. f + o + c + e + x = NBuffers
        BY <1>3, <2>8, <2>10, <2>12, <2>14, <2>15
    <2>19. f1 + o + c1 + e1 + x1 = NBuffers
        BY <2>17, <2>18
    <2> QED
        BY <2>3, <2>9, <2>11, <2>13, <2>14, <2>16, <2>19
<1>6. CASE Spawn
    <2>1. PICK w \in Workers : At(w, "none") /\ acq' = [acq EXCEPT ![w] = "born"]
        BY <1>6, <1>1, OneBorn
    <2>2. UNCHANGED <<back, pool, out>>
        BY <1>6 DEF Spawn
    <2>3. InLoop' = InLoop /\ InDrain' = InDrain
        BY <1>1, <2>1, <2>2
           DEF InLoop, InDrain, HoldsLoop, HoldsDrain, InMainLoop, Stopping, Starting, Draining
    <2> QED
        BY <1>3, <2>2, <2>3
<1>7. ASSUME \A w \in Workers : ~Acquire(w), ~Spawn
      PROVE  free' + Len(filled') + One(out' # Empty) + Cardinality(InLoop')
                  + Cardinality(InDrain') + lost' = NBuffers
    <2>1. InLoop' = InLoop /\ InDrain' = InDrain
        BY <1>7, NobodyElse DEF InLoop, InDrain, HoldsLoop, HoldsDrain
    <2>2. CASE SendWatched
        <3>1. free' = free - 1 /\ Len(filled') = Len(filled) + 1 /\ lost' = lost
            BY <1>1, <1>2, <2>2, Emitted DEF SendWatched
        <3> QED
            BY <1>1, <1>2, <1>3, <2>1, <2>2, <3>1 DEF SendWatched, One
    <2>3. CASE GetFilled
        <3>1. /\ out = Empty /\ out' # Empty /\ UNCHANGED <<free, lost>>
              /\ Len(filled') = Len(filled) - 1
            BY <1>1, <1>2, <2>3 DEF GetFilled
        <3> QED
            BY <1>1, <1>2, <1>3, <2>1, <3>1 DEF One
    <2>4. CASE PutFilled
        BY <1>1, <1>2, <1>3, <2>1, <2>4 DEF PutFilled, One
    <2>5. CASE ~SendWatched /\ ~GetFilled /\ ~PutFilled
        <3>1. CASE Operate \/ Carry
            <4>1. UNCHANGED <<pool, out>>
                BY <1>7, <3>1
                   DEF Operate, Begin, End, PauseRun, ResumeRun, Exit, Carry, Reconnect,
                       Started, HaltServer, IfRunning, Ask, Answered, Join
            <4> QED
                BY <1>3, <2>1, <4>1
        <3>2. CASE Client \/ Respond \/ Output \/ UNCHANGED vars
            <4>1. UNCHANGED <<pool, out>>
                BY <2>5, <3>2
                   DEF Client, SlowControl, MonitorDevices, WatchActive, Respond, CheckActive,
                       AcquireUsb, Acquired, ReleaseUsb, Unlock, TriggerList, Output, vars
            <4> QED
                BY <1>3, <2>1, <4>1
        <3> QED
            BY <1>7, <3>1, <3>2 DEF Next
    <2> QED
        BY <2>2, <2>3, <2>4, <2>5
<1> QED
    BY <1>5, <1>6, <1>7

-----------------------------------------------------------------------------
(* As long as no run began on top of a failed thread there is one thread at most, and *)
(* the invariant is about it. *)

\* No thread is anywhere but w, and what the invariant says of it then.
Solo(w) == \A v \in Workers \ {w} : acq[v] = "none" /\ back[v] = "none"
ThreadAt(w) ==
    /\ living <=> acq[w] \notin {"none", "born"}
    /\ living => tid = w
    /\ ~running => acq[w] \in {"none", "born", "return"}
    /\ running => acq[w] # "return"
CommandAt(w) ==
    /\ main = "starting" <=> Beginning(w)
    /\ main \in {"reconnect", "spawn"} => state \in {"Idle", "Starting"}
    /\ main \in {"starting", "started"} => state # "Paused"
    /\ main = "spawn" => ~mustRelease
    /\ main \in Workers => main = w \/ acq[w] = "none"
    /\ main \in {"reconnect", "spawn"} => acq[w] \in Gone
    /\ main \in Joining => acq[w] \in Leaving
    /\ main = "enter" /\ op = "PAUSE" => acq[w] # "paused"
    /\ main = "enter" /\ op = "RESUME" => acq[w] \in {"paused", "none"}
    /\ tcl = "acquire" => acq[w] \notin {"pause", "paused"}
TclAt(w) ==
    \/ tcl = "acquiring" /\ Asked("ACQUIRE") /\ Calm(w) /\ ~At(w, "paused")
    \/ /\ tcl = "acquiring" /\ Nothing /\ (Answering(w) => AnswersTcl(w))
       /\ acq[w] \notin {"granted", "paused"}
       /\ AnswersTcl(w) => ~daq \/ At(w, "stopDaqImpl")
    \/ tcl = "acquiring" /\ Replied /\ ~daq /\ At(w, "granted")
    \/ tcl = "use" /\ Nothing /\ ~daq /\ At(w, "granted")
    \/ tcl = "releasing" /\ Asked("RELEASE") /\ ~daq /\ At(w, "granted")
    \/ tcl = "releasing" /\ Replied /\ Calm(w) /\ ~At(w, "paused")
MainAt(w) ==
    \/ /\ Asked(IF op = "EXIT" THEN "END" ELSE op) /\ Calm(w)
       /\ op = "PAUSE" => ~At(w, "paused")
       /\ op = "RESUME" => acq[w] \in {"paused", "none"}
    \/ Nothing /\ (Answering(w) => AnswersMain(w)) /\ ~At(w, "granted")
    \/ /\ Replied /\ Calm(w) /\ acq[w] \notin Stopping \cup {"toAutonomous"}
       /\ op \in {"END", "EXIT"} => acq[w] \in Leaving
       /\ op = "PAUSE" => acq[w] \in {"paused", "none"}
       /\ op \in {"PAUSE", "RESUME"} /\ ~Bolted => ~Failing(w)
       /\ op = "RESUME" => state # "Paused"
TalkAt(w) ==
    /\ queueLock = Nobody => Nothing /\ Calm(w)
    /\ queueLock = "tcl" => TclAt(w)
    /\ queueLock = "main" => MainAt(w)
FaultAt(w) ==
    /\ Failing(w) /\ ~Bolted =>
          main \in Joining \cup {"wait"} \/ (tcl = "acquiring" /\ faults # {})
    /\ back[w] = "leave" => (queueLock # Nobody /\ Nothing) \/ "restart" \in faults
    /\ acq[w] \in Stopping /\ state = "Paused" => main = "wait"
    /\ acq[w] \in {"begin", "signal"} /\ faults = {} => state = "Active"
    /\ Dead => /\ state = "Stopping" \/ (state = "Paused" /\ main = "wait")
               /\ main \notin {"reconnect", "spawn", "starting"} \cup Joining
               /\ replies = 0 /\ "write again" \in faults
    /\ faults = {} /\ state \in {"Active", "Stopping", "Paused"} => living
    /\ faults = {} /\ state = "Starting" => main \in {"reconnect", "spawn", "starting"}
TakingAt(w) ==
    "read" \notin faults =>
        /\ state = "Active" => acq[w] \in Taking
        /\ daq /\ ~stray =>
               Dead \/ acq[w] \in Taking \cup {"pauseRun", "stopDaq", "stopDaqImpl"}

\* With one thread the invariant says what it says about that thread,
LEMMA SoloBefore ==
    ASSUME acq \in [Workers -> Places], back \in [Workers -> Returns],
           living => tid \in Workers, NEW w \in Workers, Solo(w)
    PROVE  /\ ThreadInv => ThreadAt(w)
           /\ CommandInv => CommandAt(w)
           /\ StateInv => StateOk(w)
           /\ TalkInv => TalkAt(w)
           /\ FaultInv => FaultAt(w)
           /\ TakingInv => TakingAt(w)
<1>1. ThreadInv => ThreadAt(w)
    BY DEF Solo, ThreadInv, ThreadAt
<1>2. CommandInv => CommandAt(w)
    BY DEF Solo, CommandInv, CommandOk, CommandAt, Beginning, Starting
<1>3. StateInv => StateOk(w)
    BY DEF StateInv
<1>4. TclTalk => TclAt(w)
    BY DEF Solo, TclTalk, TclAt, Granted
<1>5. MainTalk => MainAt(w)
    BY DEF MainTalk, MainAt
<1>6. TalkInv => TalkAt(w)
    BY <1>4, <1>5 DEF TalkInv, TalkAt
<1>7. FaultInv => FaultAt(w)
    BY DEF FaultInv, FaultAt
<1>8. TakingInv => TakingAt(w)
    BY DEF Solo, TakingInv, TakingAt, Taking
<1> QED
    BY <1>1, <1>2, <1>3, <1>6, <1>7, <1>8

\* and what it says about that thread is all it says.
LEMMA SoloAfter ==
    ASSUME acq' \in [Workers -> Places], back' \in [Workers -> Returns],
           living' => tid' \in Workers, NEW w \in Workers, Solo(w)'
    PROVE  /\ ThreadAt(w)' => ThreadInv'
           /\ CommandAt(w)' => CommandInv'
           /\ StateOk(w)' => StateInv'
           /\ TalkAt(w)' => TalkInv'
           /\ FaultAt(w)' => FaultInv'
           /\ TakingAt(w)' => TakingInv'
<1>1. \A v \in Workers \ {w} : acq'[v] = "none" /\ back'[v] = "none"
    BY DEF Solo
<1>2. ThreadAt(w)' => ThreadInv'
    BY <1>1 DEF ThreadInv, ThreadAt
<1>3. CommandAt(w)' => CommandInv'
    BY <1>1 DEF CommandInv, CommandOk, CommandAt, Beginning, Starting, Gone, Leaving
<1>4. StateOk(w)' => StateInv'
    BY <1>1 DEF StateInv, StateOk, Gone, Stopping, Draining
<1>5. \A v \in Workers \ {w} : Calm(v)' /\ ~Answering(v)' /\ ~AnswersTcl(v)'
    BY <1>1 DEF Calm, Answering, AnswersTcl
<1>6. TclAt(w)' => TclTalk'
    BY <1>1, <1>5 DEF TclTalk, TclAt, Granted
<1>7. MainAt(w)' => MainTalk'
    BY <1>1, <1>5 DEF MainTalk, MainAt, Leaving, Gone, Failing, Stopping, Draining
<1>8. TalkAt(w)' => TalkInv'
    BY <1>6, <1>7, <1>5 DEF TalkInv, TalkAt
<1>9. FaultAt(w)' => FaultInv'
    BY <1>1 DEF FaultInv, FaultAt, Failing, Leaving, Gone, Stopping, Draining
<1>10. TakingAt(w)' => TakingInv'
    BY <1>1 DEF TakingInv, TakingAt, Taking
<1> QED
    BY <1>2, <1>3, <1>4, <1>8, <1>9, <1>10

\* What the steps use of TypeOK and of LockInv.
Typed ==
    /\ replies \in Nat /\ main \in MainPlaces \cup Workers
    /\ main \in {"enter", "wait"} => op \in {"END", "PAUSE", "RESUME", "EXIT"}
    /\ main \in Joining \cup {"halt", "running?"} => op \in {"END", "EXIT"}
Locked(w) ==
    /\ globalLock = "tcl" <=> tcl \in {"checked", "acquire", "acquiring", "use", "releasing"}
    /\ BackOk(w) /\ (globalLock = w <=> HasController(w)) /\ w # "tcl"
    /\ mustRelease => tcl \in {"acquire", "acquiring", "use", "releasing"}
    /\ tcl \in {"acquire", "acquiring", "releasing"} => mustRelease
    /\ queueLock = "main" <=> main = "wait"
    /\ queueLock = "tcl" <=> Asking
    /\ queueLock \in {"main", "tcl", Nobody}

\* A queue of one request.
LEMMA Seqs ==
    \A x : /\ Append(<<>>, x) = <<x>> /\ Tail(<<x>>) = <<>> /\ <<x>> # <<>> /\ <<x>>[1] = x
OBVIOUS

\* The thread and its flags.
LEMMA ThreadStep ==
    ASSUME acq \in [Workers -> Places], back \in [Workers -> Returns], NEW w \in Workers,
           ThreadAt(w), BackOk(w), Acquire(w)
    PROVE  ThreadAt(w)'
<1> USE DEF ThreadAt, Stopping, Starting, Draining, BackOk
<1>1. CASE \/ InitBegin(w) \/ StartLock(w) \/ Start(w) \/ BeginRun(w) \/ Signal(w)
           \/ GetBuffer(w) \/ Read(w) \/ Test(w)
    BY <1>1
       DEF InitBegin, StartLock, Start, BeginRun, Signal, GetBuffer, Read, Test, GoBack,
           Fault, Process
<1>2. CASE \/ PauseItem(w) \/ StopLock(w) \/ StopOff(w) \/ DrainGet(w) \/ Drain(w)
           \/ DrainLast(w) \/ Stopped(w) \/ Grant(w)
    BY <1>2
       DEF PauseItem, StopLock, StopOff, DrainGet, Drain, DrainLast, Stopped, Grant, Fault,
           Unlocked, Process, GoBack
<1>3. CASE \/ Released(w) \/ Autonomous(w) \/ Pause(w) \/ PausedRequest(w) \/ ResumeItem(w)
           \/ Resumed(w) \/ Ended(w) \/ Leave(w)
    BY <1>3 DEF Released, Autonomous, Pause, PausedRequest, ResumeItem, Resumed, Ended, Leave
<1>4. CASE EndItem(w) \/ NotRunning(w) \/ Return(w)
    BY <1>4 DEF EndItem, NotRunning, Return
<1>5. CASE WriteThrows(w) \/ RestartThrows(w)
    BY <1>5, Thrown DEF Bolts, Fails, Dies
<1> QED BY <1>1, <1>2, <1>3, <1>4, <1>5 DEF Acquire

\* Who pauses, or is asked something while it is paused, is asked by the main thread.
LEMMA Expected ==
    ASSUME NEW w \in Workers, Locked(w), TalkAt(w),
           At(w, "pause") \/ (At(w, "paused") /\ requests # <<>>)
    PROVE  main = "wait"
BY DEF Locked, BackOk, TalkAt, TclAt, Calm, Answering, AnswersTcl, Nothing, Asked, Replied,
       Stopping, Draining, Starting

\* How far the command is says where the thread can be.
LEMMA CommandStep ==
    ASSUME acq \in [Workers -> Places], back \in [Workers -> Returns], NEW w \in Workers,
           Locked(w), CommandAt(w), TalkAt(w), Acquire(w)
    PROVE  CommandAt(w)'
<1> USE DEF CommandAt, Locked, HasController, Asking, Beginning, Gone, Leaving, Stopping,
            Starting, Draining, BackOk
<1>1. CASE EndItem(w) \/ NotRunning(w) \/ Return(w)
    BY <1>1 DEF EndItem, NotRunning, Return
<1>2. CASE InitBegin(w) \/ StartLock(w) \/ Start(w) \/ BeginRun(w)
    BY <1>2 DEF InitBegin, StartLock, Start, BeginRun, GoBack, Fault
<1>3. CASE PauseItem(w) \/ StopLock(w) \/ StopOff(w) \/ DrainGet(w)
    BY <1>3, ZenonT(60) DEF PauseItem, StopLock, StopOff, DrainGet, Fault, Unlocked
<1>4. CASE Drain(w) \/ DrainLast(w) \/ Stopped(w) \/ Grant(w)
    BY <1>4 DEF Drain, DrainLast, Stopped, Grant, Process, GoBack, Unlocked
<1>5. CASE ResumeItem(w) \/ Resumed(w) \/ Ended(w) \/ Leave(w)
    BY <1>5 DEF ResumeItem, Resumed, Ended, Leave
<1>6. CASE Read(w) \/ Test(w)
    BY <1>6 DEF Read, Test, Fault, Process
<1>7. CASE Released(w) \/ Autonomous(w)
    BY <1>7 DEF Released, Autonomous
<1>8. CASE GetBuffer(w)
    BY <1>8 DEF GetBuffer
<1>9. CASE Signal(w)
    <2>1. /\ main = "starting" /\ main' = "started" /\ ~Beginning(w)'
          /\ UNCHANGED <<back, state, op, tcl, mustRelease>> /\ At(w, "enter")'
        BY <1>9 DEF Signal
    <2> QED
        BY <2>1, Apart DEF Joining, MainPlaces
<1>10. CASE Pause(w) \/ PausedRequest(w)
    <2>1. main = "wait"
        BY <1>10, Expected DEF Pause, PausedRequest
    <2>2. CASE Pause(w)
        BY <2>1, <2>2, Apart DEF Pause, Joining, MainPlaces
    <2>3. CASE PausedRequest(w)
        BY <2>1, <2>3, Apart DEF PausedRequest, Joining, MainPlaces
    <2> QED
        BY <1>10, <2>2, <2>3
<1>11. CASE WriteThrows(w) \/ RestartThrows(w)
    <2>1. UNCHANGED <<state, main, op, tcl, mustRelease>> /\ (Bolts(w) \/ Fails(w) \/ Dies(w))
        BY <1>11, Thrown
    <2>2. acq[w] \in {"toAutonomous", "stopDaqImpl", "drain", "drained"}
        BY <2>1 DEF Bolts, Fails, Dies
    <2>3. \/ acq'[w] = "stopDaq" /\ back'[w] = "leave"
          \/ acq'[w] = "none" /\ back'[w] = "none"
        BY <2>1 DEF Bolts, Fails, Dies
    <2> QED
        BY <2>1, <2>2, <2>3
<1> QED BY <1>1, <1>2, <1>3, <1>4, <1>5, <1>6, <1>7, <1>8, <1>9, <1>10, <1>11
        DEF Acquire

\* The run state follows the thread.
LEMMA StateStep ==
    ASSUME acq \in [Workers -> Places], back \in [Workers -> Returns], NEW w \in Workers,
           Locked(w), BackOk(w), StateOk(w), TalkAt(w), Acquire(w)
    PROVE  StateOk(w)'
<1> USE DEF StateOk, Gone, Stopping, Starting, Draining, BackOk
<1>1. CASE EndItem(w) \/ NotRunning(w) \/ Return(w)
    BY <1>1 DEF EndItem, NotRunning, Return
<1>2. CASE InitBegin(w) \/ StartLock(w) \/ Start(w) \/ BeginRun(w)
    BY <1>2 DEF InitBegin, StartLock, Start, BeginRun, GoBack, Fault
<1>3. CASE PauseItem(w) \/ StopLock(w) \/ StopOff(w) \/ DrainGet(w)
    BY <1>3 DEF PauseItem, StopLock, StopOff, DrainGet, Fault, Unlocked
<1>4. CASE Drain(w) \/ DrainLast(w) \/ Stopped(w) \/ Grant(w)
    BY <1>4 DEF Drain, DrainLast, Stopped, Grant, Process, GoBack, Unlocked
<1>5. CASE ResumeItem(w) \/ Resumed(w) \/ Ended(w) \/ Leave(w)
    BY <1>5 DEF ResumeItem, Resumed, Ended, Leave
<1>6. CASE Read(w) \/ Test(w)
    BY <1>6 DEF Read, Test, Fault, Process
<1>7. CASE Released(w) \/ Autonomous(w)
    BY <1>7 DEF Released, Autonomous
<1>8. CASE GetBuffer(w)
    BY <1>8 DEF GetBuffer
<1>9. CASE Pause(w)
    BY <1>9 DEF Pause
<1>10. CASE Signal(w)
    <2>1. /\ At(w, "signal") /\ At(w, "enter")' /\ back' = back /\ state' = state
          /\ main' \in {main, "started"} /\ (main' = main \/ main = "starting")
        BY <1>10 DEF Signal
    <2> QED
        BY <2>1, Apart DEF Joining, MainPlaces
<1>11. CASE PausedRequest(w)
    <2>1. main = "wait"
        BY <1>11, Expected DEF PausedRequest
    <2>2. main' = main /\ state' = state /\ back' = back /\ At(w, "paused")
          /\ acq'[w] \in {"ended", "resumeRun"}
        BY <1>11 DEF PausedRequest
    <2> QED
        BY <2>1, <2>2
<1>12. CASE WriteThrows(w) \/ RestartThrows(w)
    <2>1. UNCHANGED <<state, main>> /\ (Bolts(w) \/ Fails(w) \/ Dies(w))
        BY <1>12, Thrown
    <2>2. /\ acq[w] \in {"toAutonomous", "stopDaqImpl", "drain", "drained"}
          /\ state \in {"Stopping", "Paused"} /\ (At(w, "toAutonomous") => state = "Stopping")
        BY <2>1 DEF Bolts, Fails, Dies
    <2>3. \/ acq'[w] = "stopDaq" /\ back'[w] = "leave"
          \/ acq'[w] = "none" /\ back'[w] = "none"
        BY <2>1 DEF Bolts, Fails, Dies
    <2> QED
        BY <2>1, <2>2, <2>3
<1> QED BY <1>1, <1>2, <1>3, <1>4, <1>5, <1>6, <1>7, <1>8, <1>9, <1>10, <1>11, <1>12
        DEF Acquire

\* Data taking is on in the main loop only.
LEMMA TakingStep ==
    ASSUME acq \in [Workers -> Places], back \in [Workers -> Returns], NEW w \in Workers,
           BackOk(w), ThreadAt(w), CommandAt(w), StateOk(w), FaultAt(w), TakingAt(w),
           Acquire(w)
    PROVE  TakingAt(w)'
<1> USE DEF TakingAt, Taking, Dead, ThreadAt, StateOk, Gone, Stopping, Starting, Draining,
            BackOk
<1>1. CASE \/ PauseItem(w) \/ StopLock(w) \/ StopOff(w) \/ DrainGet(w) \/ Drain(w)
           \/ DrainLast(w) \/ Stopped(w) \/ Grant(w)
    BY <1>1
       DEF PauseItem, StopLock, StopOff, DrainGet, Drain, DrainLast, Stopped, Grant, Fault,
           Unlocked, Process, GoBack
<1>2. CASE \/ Released(w) \/ Autonomous(w) \/ Pause(w) \/ PausedRequest(w) \/ ResumeItem(w)
           \/ Resumed(w) \/ Ended(w) \/ Leave(w)
    BY <1>2 DEF Released, Autonomous, Pause, PausedRequest, ResumeItem, Resumed, Ended, Leave
<1>3. CASE EndItem(w) \/ NotRunning(w) \/ Return(w)
    BY <1>3 DEF EndItem, NotRunning, Return
<1>4. CASE Signal(w) \/ GetBuffer(w) \/ Read(w) \/ Test(w)
    BY <1>4 DEF Signal, GetBuffer, Read, Test, Fault, Process
<1>5. CASE Start(w) \/ BeginRun(w)
    BY <1>5 DEF Start, BeginRun, GoBack, Fault
<1>6. CASE StartLock(w)
    BY <1>6 DEF StartLock
<1>7. CASE InitBegin(w)
    <2>1. ~Dead
        BY <1>7 DEF InitBegin, CommandAt, FaultAt, Beginning
    <2> QED
        BY <1>7, <2>1 DEF InitBegin
<1>8. CASE WriteThrows(w) \/ RestartThrows(w)
    <2>1. UNCHANGED <<state, running, daq, stray>> /\ (Bolts(w) \/ Fails(w) \/ Dies(w))
        BY <1>8, Thrown
    <2>2. /\ acq[w] \in {"toAutonomous", "stopDaqImpl", "drain", "drained"} /\ living /\ running
          /\ "read" \notin faults' => "read" \notin faults
          /\ \/ acq'[w] = "stopDaq" /\ living' = living
             \/ living' = FALSE
        BY <2>1 DEF Bolts, Fails, Dies
    <2> QED
        BY <2>1, <2>2
<1> QED BY <1>1, <1>2, <1>3, <1>4, <1>5, <1>6, <1>7, <1>8 DEF Acquire

\* A thread nobody asks says nothing.
LEMMA QuietStep ==
    ASSUME acq \in [Workers -> Places], back \in [Workers -> Returns], NEW w \in Workers,
           BackOk(w), Nothing, Calm(w), Acquire(w)
    PROVE  (Nothing /\ Calm(w))'
<1> USE DEF Calm, Answering, Nothing, Stopping, Starting, Draining, BackOk
<1>1. CASE \/ InitBegin(w) \/ StartLock(w) \/ Start(w) \/ BeginRun(w) \/ Signal(w)
           \/ GetBuffer(w)
    BY <1>1 DEF InitBegin, StartLock, Start, BeginRun, Signal, GetBuffer, GoBack, Fault
<1>2. CASE Read(w) \/ Test(w) \/ PauseItem(w) \/ StopLock(w) \/ StopOff(w) \/ DrainGet(w)
    BY <1>2 DEF Read, Test, PauseItem, StopLock, StopOff, DrainGet, Fault, Process, Unlocked
<1>3. CASE Drain(w) \/ DrainLast(w) \/ Stopped(w) \/ Grant(w) \/ Released(w) \/ Autonomous(w)
    BY <1>3
       DEF Drain, DrainLast, Stopped, Grant, Released, Autonomous, Process, GoBack, Unlocked
<1>4. CASE \/ Pause(w) \/ PausedRequest(w) \/ ResumeItem(w) \/ Resumed(w) \/ Ended(w)
           \/ Leave(w)
    BY <1>4 DEF Pause, PausedRequest, ResumeItem, Resumed, Ended, Leave
<1>5. CASE EndItem(w) \/ NotRunning(w) \/ Return(w)
    BY <1>5 DEF EndItem, NotRunning, Return
<1>6. CASE WriteThrows(w) \/ RestartThrows(w)
    BY <1>6, Thrown DEF Bolts, Fails, Dies
<1> QED BY <1>1, <1>2, <1>3, <1>4, <1>5, <1>6 DEF Acquire

\* The thread answers the Tcl server, while it waits or has the controller.
LEMMA TclStep ==
    ASSUME acq \in [Workers -> Places], back \in [Workers -> Returns], NEW w \in Workers,
           replies \in Nat, BackOk(w), StateOk(w), TclAt(w), Acquire(w)
    PROVE  TclAt(w)'
<1> USE DEF TclAt, StateOk, Gone, AnswersTcl, Asked, Replied, Calm, Answering, Nothing,
            Stopping, Starting, Draining, BackOk
<1>1. CASE \/ InitBegin(w) \/ StartLock(w) \/ Start(w) \/ BeginRun(w) \/ Signal(w)
           \/ GetBuffer(w)
    BY <1>1, Seqs DEF InitBegin, StartLock, Start, BeginRun, Signal, GetBuffer, GoBack, Fault
<1>2. CASE \/ Pause(w) \/ PausedRequest(w) \/ ResumeItem(w) \/ Resumed(w) \/ Ended(w)
           \/ Leave(w)
    BY <1>2, Seqs DEF Pause, PausedRequest, ResumeItem, Resumed, Ended, Leave
<1>3. CASE EndItem(w) \/ NotRunning(w) \/ Return(w)
    BY <1>3, Seqs DEF EndItem, NotRunning, Return
<1>4. CASE Read(w) \/ Test(w) \/ PauseItem(w)
    BY <1>4, Seqs DEF Read, Test, PauseItem, Fault, Process
<1>5. CASE Drain(w) \/ DrainLast(w) \/ Stopped(w)
    BY <1>5, Seqs DEF Drain, DrainLast, Stopped, Process, GoBack, Unlocked
<1>6. CASE StopLock(w) \/ StopOff(w)
    BY <1>6, Seqs, ZenonT(60) DEF StopLock, StopOff, Fault, Unlocked
<1>7. CASE DrainGet(w)
    BY <1>7, Seqs DEF DrainGet
<1>8. CASE Autonomous(w)
    BY <1>8, Seqs DEF Autonomous
<1>9. CASE Grant(w)
    BY <1>9, Seqs DEF Grant
<1>10. CASE Released(w)
    <2>1. tcl = "releasing" /\ Asked("RELEASE") /\ ~daq
        BY <1>10 DEF Released
    <2>2. requests' = <<>> /\ replies' = 1
        BY <1>10, <2>1, Seqs DEF Released
    <2>3. tcl' = tcl /\ At(w, "toAutonomous")' /\ back' = back
        BY <1>10 DEF Released
    <2> QED
        BY <1>10, <2>1, <2>2, <2>3 DEF Released
<1>11. CASE WriteThrows(w) \/ RestartThrows(w)
    <2>1. UNCHANGED <<requests, replies, daq, tcl>> /\ (Bolts(w) \/ Fails(w) \/ Dies(w))
        BY <1>11, Thrown
    <2>2. /\ acq[w] \in {"toAutonomous", "stopDaqImpl", "drain", "drained"}
          /\ \/ acq'[w] = "stopDaq" /\ back'[w] = "leave"
             \/ acq'[w] = "none" /\ back'[w] = "none"
        BY <2>1 DEF Bolts, Fails, Dies
    <2>3. Calm(w)' /\ ~At(w, "paused")'
        BY <2>2
    <2> QED
        BY <2>1, <2>2, <2>3
<1> QED BY <1>1, <1>2, <1>3, <1>4, <1>5, <1>6, <1>7, <1>8, <1>9, <1>10, <1>11
        DEF Acquire

\* The thread answers the main thread.
LEMMA MainStep ==
    ASSUME acq \in [Workers -> Places], back \in [Workers -> Returns], NEW w \in Workers,
           replies \in Nat, BackOk(w), StateOk(w), MainAt(w),
           op \in {"END", "PAUSE", "RESUME", "EXIT"}, Acquire(w)
    PROVE  MainAt(w)'
<1> USE DEF MainAt, StateOk, Gone, Leaving, Failing, AnswersMain, Asked, Replied, Calm,
            Answering, Nothing, Stopping, Starting, Draining, BackOk
<1>a. ~Bolted' => ~Bolted
    BY FaultsGrow DEF Next, Bolted
<1>1. CASE \/ InitBegin(w) \/ StartLock(w) \/ Start(w) \/ BeginRun(w) \/ Signal(w)
           \/ GetBuffer(w)
    BY <1>a, <1>1, Seqs
       DEF InitBegin, StartLock, Start, BeginRun, Signal, GetBuffer, GoBack, Fault
<1>2. CASE Drain(w) \/ DrainLast(w) \/ Stopped(w) \/ Grant(w) \/ Released(w) \/ Autonomous(w)
    BY <1>a, <1>2, Seqs
       DEF Drain, DrainLast, Stopped, Grant, Released, Autonomous, Process, GoBack, Unlocked
<1>3. CASE EndItem(w) \/ NotRunning(w) \/ Return(w)
    BY <1>a, <1>3, Seqs DEF EndItem, NotRunning, Return
<1>4. CASE Resumed(w) \/ Ended(w) \/ Leave(w)
    BY <1>a, <1>4, Seqs DEF Resumed, Ended, Leave
<1>5. CASE PauseItem(w)
    BY <1>5, Seqs DEF PauseItem
<1>6. CASE StopLock(w) \/ StopOff(w)
    BY <1>a, <1>6, Seqs, ZenonT(60) DEF StopLock, StopOff, Fault, Unlocked
<1>7. CASE DrainGet(w)
    BY <1>a, <1>7, Seqs DEF DrainGet
<1>8. CASE ResumeItem(w)
    BY <1>8, Seqs DEF ResumeItem
<1>9. CASE Read(w)
    <2>1. "read" \in faults' \/ ~Goto(w, "leave")
        BY <1>9 DEF Read, Fault, Process
    <2>2. Goto(w, "leave") => Bolted'
        BY <2>1 DEF Bolted
    <2> QED
        BY <1>a, <1>9, <2>2, Seqs DEF Read, Fault, Process
<1>10. CASE Pause(w)
    BY <1>10, Seqs DEF Pause
<1>11. CASE Test(w)
    <2>1. CASE requests = <<>>
        BY <1>11, <2>1 DEF Test
    <2>2. CASE requests # <<>>
        <3>1. Asked(IF op = "EXIT" THEN "END" ELSE op) /\ Calm(w)
            BY <2>2
        <3>2. requests[1] = IF op = "EXIT" THEN "END" ELSE op
            BY <3>1, Seqs
        <3>3. requests' = <<>> /\ replies' = 0 /\ op' = op
            BY <1>11, <2>2, <3>1 DEF Test
        <3>4. \/ op \in {"END", "EXIT"} /\ Call(w, "stopDaq", "ended")
              \/ op = "PAUSE" /\ Goto(w, "pauseRun")
            BY <1>11, <2>2, <3>2 DEF Test
        <3> QED
            BY <3>1, <3>3, <3>4
    <2> QED
        BY <2>1, <2>2
<1>12. CASE PausedRequest(w)
    <2>1. Asked(IF op = "EXIT" THEN "END" ELSE op) /\ Calm(w) /\ op # "PAUSE"
        BY <1>12 DEF PausedRequest
    <2>2. requests[1] = IF op = "EXIT" THEN "END" ELSE op
        BY <2>1, Seqs
    <2>3. requests' = <<>> /\ replies' = 0 /\ op' = op
        BY <1>12, <2>1, Seqs DEF PausedRequest
    <2>4. \/ op \in {"END", "EXIT"} /\ Goto(w, "ended")
          \/ op = "RESUME" /\ Goto(w, "resumeRun")
        BY <1>12, <2>1, <2>2 DEF PausedRequest
    <2> QED
        BY <2>1, <2>3, <2>4
<1>13. CASE WriteThrows(w) \/ RestartThrows(w)
    <2>1. /\ UNCHANGED <<requests, replies, op, state>>
          /\ Bolts(w) \/ Fails(w) \/ Dies(w)
        BY <1>13, Thrown DEF Bolts, Fails, Dies
    <2>2. /\ acq[w] \in {"toAutonomous", "stopDaqImpl", "drain", "drained"}
          /\ \/ acq'[w] = "stopDaq" /\ back'[w] = "leave"
             \/ acq'[w] = "none" /\ back'[w] = "none"
        BY <2>1 DEF Bolts, Fails, Dies
    <2>3. Calm(w)' /\ ~At(w, "paused")' /\ ~Answering(w)' /\ ~At(w, "granted")'
        BY <2>2
    <2>4. CASE Asked(IF op = "EXIT" THEN "END" ELSE op) \/ Nothing
        BY <2>1, <2>2, <2>3, <2>4
    <2>5. CASE Replied
        BY <2>2, <2>5
    <2> QED
        BY <2>4, <2>5
<1> QED BY <1>1, <1>2, <1>3, <1>4, <1>5, <1>6, <1>7, <1>8, <1>9, <1>10, <1>11, <1>12, <1>13
        DEF Acquire

\* A step of the thread keeps the conversation, the client's or the operator's.
LEMMA TalkStep ==
    ASSUME acq \in [Workers -> Places], back \in [Workers -> Returns], NEW w \in Workers,
           Typed, Locked(w), StateOk(w), TalkAt(w), FaultAt(w), Acquire(w)
    PROVE  TalkAt(w)'
<1>1. queueLock' = queueLock
    BY OthersAlone
<1>2. CASE queueLock = Nobody
    BY <1>1, <1>2, QuietStep, Apart DEF TalkAt, Locked, FaultAt
<1>3. CASE queueLock = "tcl"
    BY <1>1, <1>3, TclStep, Apart DEF TalkAt, Locked, Typed
<1>4. CASE queueLock = "main"
    BY <1>1, <1>4, MainStep, Apart DEF TalkAt, Locked, Typed, FaultAt
<1> QED
    BY <1>2, <1>3, <1>4 DEF Locked

\* What a fault leaves behind.
LEMMA FaultStep ==
    ASSUME acq \in [Workers -> Places], back \in [Workers -> Returns], NEW w \in Workers,
           Locked(w), ThreadAt(w), CommandAt(w), StateOk(w), TalkAt(w), FaultAt(w), Acquire(w)
    PROVE  FaultAt(w)'
<1> USE DEF Asking, Asked, AnswersMain, AnswersTcl, Beginning, CommandAt, Dead, Failing,
            FaultAt, Gone, HasController, Joining, Leaving, Locked, MainAt, Replied, StateOk,
            TalkAt, TclAt, ThreadAt, Calm, Answering, Nothing, Stopping, Starting, Draining,
            BackOk
<1>a. (~Bolted' => ~Bolted) /\ faults \subseteq faults'
    BY FaultsGrow DEF Next, Bolted
<1>1. CASE EndItem(w)
    BY <1>a, <1>1, Apart, Seqs DEF EndItem
<1>2. CASE NotRunning(w)
    BY <1>a, <1>2, Apart, Seqs DEF NotRunning
<1>3. CASE Return(w)
    BY <1>a, <1>3, Apart, Seqs DEF Return
<1>4. CASE InitBegin(w) \/ StartLock(w)
    BY <1>a, <1>4, Apart, Seqs, ZenonT(60) DEF InitBegin, StartLock
<1>5. CASE Start(w)
    BY <1>a, <1>5, Apart, Seqs DEF Start, GoBack, Fault
<1>6. CASE BeginRun(w)
    BY <1>a, <1>6, Apart, Seqs DEF BeginRun
<1>7. CASE PauseItem(w) \/ StopLock(w)
    BY <1>a, <1>7, Apart, Seqs, ZenonT(60) DEF PauseItem, StopLock
<1>8. CASE StopOff(w) \/ DrainGet(w)
    BY <1>a, <1>8, Apart, Seqs, ZenonT(60) DEF StopOff, DrainGet, Fault, Unlocked
<1>9. CASE Stopped(w) \/ Grant(w)
    BY <1>a, <1>9, Apart, Seqs, ZenonT(60) DEF Stopped, Grant, GoBack, Unlocked
<1>10. CASE Released(w)
    BY <1>a, <1>10, Apart, Seqs DEF Released
<1>11. CASE Autonomous(w)
    BY <1>a, <1>11, Apart, Seqs DEF Autonomous
<1>12. CASE Pause(w) \/ PausedRequest(w)
    BY <1>a, <1>12, Apart, Seqs, ZenonT(60) DEF Pause, PausedRequest
<1>13. CASE ResumeItem(w) \/ Resumed(w)
    BY <1>a, <1>13, Apart, Seqs DEF ResumeItem, Resumed
<1>14. CASE Ended(w) \/ Leave(w)
    BY <1>a, <1>14, Apart, Seqs, ZenonT(60) DEF Ended, Leave
<1>15. CASE Signal(w)
    BY <1>a, <1>15, Apart, Seqs DEF Signal
<1>16. CASE GetBuffer(w)
    BY <1>a, <1>16, Apart, Seqs, ZenonT(60) DEF GetBuffer
<1>17. CASE Read(w)
    <2>1. "read" \in faults' \/ ~Goto(w, "leave")
        BY <1>17 DEF Read, Fault, Process
    <2>2. Goto(w, "leave") => Bolted'
        BY <2>1 DEF Bolted
    <2> QED
        BY <1>a, <1>17, <2>2, Apart, Seqs DEF Read, Fault, Process
<1>18. CASE Test(w)
    BY <1>a, <1>18, Apart, Seqs DEF Test
<1>19. CASE Drain(w)
    BY <1>a, <1>19, Apart, Seqs DEF Drain, Process
<1>20. CASE DrainLast(w)
    BY <1>a, <1>20, Apart, Seqs DEF DrainLast
<1>21. CASE WriteThrows(w) \/ RestartThrows(w)
    <2>1. /\ UNCHANGED <<state, running, requests, replies, queueLock, main, tcl>>
          /\ Bolts(w) \/ Fails(w) \/ Dies(w)
        BY <1>21, Thrown
    <2>2. CASE Bolts(w)
        <3>1. Bolted' /\ "restart" \in faults' /\ faults' # {}
            BY <2>2 DEF Bolts, Bolted
        <3>2. At(w, "toAutonomous") /\ At(w, "stopDaq")' /\ UNCHANGED living
            BY <2>2 DEF Bolts
        <3>3. living /\ state = "Stopping"
            BY <3>2
        <3> QED
            BY <2>1, <3>1, <3>2, <3>3
    <2>3. CASE Fails(w)
        <3>1. /\ acq[w] \in {"stopDaqImpl", "drain", "drained"} /\ At(w, "stopDaq")'
              /\ living' = living /\ faults' # {} /\ back[w] # "leave"
            BY <2>3 DEF Fails
        <3>2. back[w] \in {"grant", "ended", "pause"} /\ living
            BY <3>1
        <3>3. queueLock # Nobody /\ Nothing /\ (main = "wait" \/ tcl = "acquiring")
            BY <3>1, <3>2
        <3>4. state = "Paused" => main = "wait"
            BY <3>1
        <3> QED
            BY <2>1, <3>1, <3>2, <3>3, <3>4
    <2>4. CASE Dies(w)
        <3>1. /\ acq[w] \in {"stopDaqImpl", "drain", "drained"} /\ back[w] = "leave"
              /\ acq'[w] = "none" /\ back'[w] = "none" /\ "write again" \in faults'
            BY <2>4 DEF Dies
        <3>2. ~Failing(w)' /\ acq'[w] \notin Stopping \cup {"begin", "signal"} /\ faults' # {}
            BY <3>1
        <3>3. state = "Stopping" \/ (state = "Paused" /\ main = "wait")
            BY <3>1
        <3>4. main \notin {"reconnect", "spawn", "starting"} \cup Joining
            BY <3>1
        <3>5. replies = 0
            <4>1. globalLock = w /\ tcl \notin {"acquiring", "use", "releasing"}
                BY <3>1, Apart
            <4> QED
                BY <3>1, <4>1, Apart
        <3> QED
            BY <2>1, <3>1, <3>2, <3>3, <3>4, <3>5
    <2> QED
        BY <2>1, <2>2, <2>3, <2>4
<1> QED BY <1>1, <1>2, <1>3, <1>4, <1>5, <1>6, <1>7, <1>8, <1>9, <1>10, <1>11, <1>12, <1>13,
        <1>14, <1>15, <1>16, <1>17, <1>18, <1>19, <1>20, <1>21 DEF Acquire

\* A reply that is there is the one the Tcl server, or the main thread, waits for.
LEMMA RepliedTcl ==
    ASSUME NEW w \in Workers, Locked(w), TalkAt(w), replies > 0,
           tcl \in {"acquiring", "releasing"}
    PROVE  /\ Replied /\ queueLock = "tcl"
           /\ tcl = "acquiring" => ~daq /\ At(w, "granted")
           /\ tcl = "releasing" => Calm(w) /\ ~At(w, "paused")
BY DEF Locked, Asking, TalkAt, TclAt, Nothing, Asked, Replied

\* The same for the answer to the operator.
LEMMA RepliedMain ==
    ASSUME NEW w \in Workers, Locked(w), TalkAt(w), replies > 0, main = "wait"
    PROVE  /\ Replied /\ Calm(w) /\ queueLock = "main"
           /\ acq[w] \notin Stopping \cup {"toAutonomous"}
           /\ op \in {"END", "EXIT"} => acq[w] \in Leaving
           /\ op = "PAUSE" => acq[w] \in {"paused", "none"}
           /\ op \in {"PAUSE", "RESUME"} /\ ~Bolted => ~Failing(w)
           /\ op = "RESUME" => state # "Paused"
BY DEF Locked, TalkAt, MainAt, Nothing, Asked, Replied

\* Only an acquisition thread fails.
LEMMA NoFault ==
    ASSUME [Next]_vars, \A v \in Workers : ~Acquire(v)
    PROVE  faults' = faults /\ (Bolted' <=> Bolted)
<1>1. faults' = faults
    <2>1. CASE Operate \/ Carry
        BY <2>1 DEF Operate, Begin, End, PauseRun, ResumeRun, Exit, Carry, Reconnect, Spawn,
                    Started, HaltServer, IfRunning, Ask, Answered, Join
    <2>2. CASE Client \/ Respond \/ Output \/ UNCHANGED vars
        BY <2>2 DEF Client, SlowControl, MonitorDevices, WatchActive, Respond, CheckActive,
                    AcquireUsb, Acquired, ReleaseUsb, Unlock, TriggerList, SendWatched, Output,
                    GetFilled, PutFilled, vars
    <2> QED
        BY <2>1, <2>2 DEF Next
<1> QED
    BY <1>1 DEF Bolted

\* What the other threads do, conjunct by conjunct.
LEMMA ThreadRest ==
    ASSUME acq \in [Workers -> Places], back \in [Workers -> Returns], NEW w \in Workers,
           ThreadAt(w), UNCHANGED <<acq, back>>,
           [Next]_vars, ~Spawn, \A v \in Workers : ~Acquire(v)
    PROVE  ThreadAt(w)'
<1> USE DEF ThreadAt
<1>1. CASE \/ Begin \/ End \/ PauseRun \/ ResumeRun \/ Exit \/ Reconnect \/ Started
           \/ HaltServer
    BY <1>1 DEF Begin, End, PauseRun, ResumeRun, Exit, Reconnect, Started, HaltServer
<1>2. CASE IfRunning \/ Ask \/ Answered \/ Join
    BY <1>2 DEF IfRunning, Ask, Answered, Join, Finish
<1>3. CASE \/ SlowControl \/ MonitorDevices \/ WatchActive \/ CheckActive \/ AcquireUsb
           \/ Acquired \/ ReleaseUsb \/ Unlock
    BY <1>3
       DEF SlowControl, MonitorDevices, WatchActive, CheckActive, AcquireUsb, Acquired,
           ReleaseUsb, Unlock
<1>4. CASE TriggerList \/ SendWatched
    BY <1>4 DEF TriggerList, SendWatched
<1>5. CASE Output \/ UNCHANGED vars
    BY <1>5 DEF Output, GetFilled, PutFilled, vars
<1> QED BY <1>1, <1>2, <1>3, <1>4, <1>5 DEF Next, Operate, Carry, Client, Respond

\* A command starts in the run state it checks, and ends when it is answered.
LEMMA CommandRest ==
    ASSUME acq \in [Workers -> Places], back \in [Workers -> Returns], NEW w \in Workers,
           Typed, Locked(w), BackOk(w), ThreadAt(w), CommandAt(w), StateOk(w), TalkAt(w),
           UNCHANGED <<acq, back>>, [Next]_vars, ~Spawn, \A v \in Workers : ~Acquire(v)
    PROVE  CommandAt(w)'
<1> USE DEF Typed, Asking, ThreadAt, CommandAt, Beginning, Gone, Leaving, Starting, Joining
<1>1. CASE Exit
    BY <1>1, Apart DEF Exit, MainPlaces
<1>2. CASE Started \/ HaltServer
    BY <1>2, Apart DEF Started, HaltServer, MainPlaces
<1>3. CASE IfRunning \/ Ask
    BY <1>3, Apart DEF IfRunning, Ask, Finish, MainPlaces
<1>4. CASE End
    BY <1>4, Apart DEF End, MainPlaces
<1>5. CASE Join
    BY <1>5, Apart DEF Join, Finish, MainPlaces
<1>6. CASE Acquired \/ ReleaseUsb \/ Unlock \/ TriggerList \/ SendWatched
    BY <1>6, Apart DEF Acquired, ReleaseUsb, Unlock, TriggerList, SendWatched
<1>7. CASE SlowControl \/ MonitorDevices \/ WatchActive
    BY <1>7, Apart DEF SlowControl, MonitorDevices, WatchActive
<1>8. CASE AcquireUsb
    BY <1>8, Apart DEF AcquireUsb
<1>9. CASE Reconnect
    <2>1. ~mustRelease
        BY <1>9, Apart DEF Reconnect, Locked
    <2>2. /\ main = "reconnect" /\ main' = "spawn"
          /\ UNCHANGED <<acq, back, state, tcl, mustRelease>>
        BY <1>9 DEF Reconnect
    <2> QED
        BY <2>1, <2>2, Apart DEF MainPlaces
<1>10. CASE Begin
    <2>1. acq[w] \in Gone
        BY <1>10 DEF Begin, StateOk
    <2>2. /\ main' = "reconnect" /\ state' = "Starting"
          /\ UNCHANGED <<acq, back, tcl, mustRelease>>
        BY <1>10 DEF Begin
    <2> QED
        BY <2>1, <2>2, Apart DEF MainPlaces
<1>11. CASE PauseRun \/ ResumeRun
    <2>1. /\ main = "idle" /\ main' = "enter" /\ UNCHANGED <<acq, back, tcl, state>>
          /\ \/ op' = "PAUSE" /\ state = "Active"
             \/ op' = "RESUME" /\ state = "Paused"
        BY <1>11 DEF PauseRun, ResumeRun
    <2>2. op' = "PAUSE" => acq[w] # "paused"
        BY <2>1 DEF StateOk
    <2>3. op' = "RESUME" => acq[w] \in {"paused", "none"}
        BY <2>1, Apart DEF StateOk, MainPlaces
    <2> QED
        BY <2>1, <2>2, <2>3, Apart DEF MainPlaces
<1>12. CASE Answered
    <2>1. /\ main = "wait" /\ UNCHANGED <<acq, back, tcl, state, mustRelease, op>>
          /\ main' = IF op \in {"END", "EXIT"} THEN "join" ELSE "idle"
        BY <1>12 DEF Answered
    <2>2. op \in {"END", "EXIT"} => acq[w] \in Leaving
        BY <1>12, <2>1, RepliedMain DEF Answered
    <2> QED
        BY <2>1, <2>2, Apart DEF MainPlaces
<1>13. CASE CheckActive
    <2>1. /\ UNCHANGED <<acq, back, state, main, op>>
          /\ tcl' = IF state = "Active" THEN "acquire" ELSE "use"
          /\ tcl = "checked" /\ (main = "spawn" => state # "Active")
        BY <1>13 DEF CheckActive
    <2>2. mustRelease' <=> state = "Active"
        BY <1>13 DEF CheckActive
    <2>3. state = "Active" => acq[w] \notin {"pause", "paused"}
        BY DEF StateOk
    <2> QED
        BY <2>1, <2>2, <2>3
<1>14. CASE Output \/ UNCHANGED vars
    BY <1>14, Apart DEF Output, GetFilled, PutFilled, vars
<1> QED BY <1>1, <1>2, <1>3, <1>4, <1>5, <1>6, <1>7, <1>8, <1>9, <1>10, <1>11, <1>12, <1>13,
        <1>14 DEF Next, Operate, Carry, Client, Respond

\* The run state changes with the command.
LEMMA StateRest ==
    ASSUME acq \in [Workers -> Places], back \in [Workers -> Returns], NEW w \in Workers,
           Typed, Locked(w), BackOk(w), ThreadAt(w), CommandAt(w), StateOk(w), TalkAt(w),
           UNCHANGED <<acq, back>>, [Next]_vars, ~Spawn, \A v \in Workers : ~Acquire(v)
    PROVE  StateOk(w)'
<1> USE DEF Typed, ThreadAt, CommandAt, StateOk, Beginning, Gone, Leaving, Joining, Stopping,
            Starting, Draining, BackOk
<1>1. CASE Begin \/ End \/ PauseRun \/ ResumeRun \/ Exit \/ Reconnect
    BY <1>1, Apart DEF Begin, End, PauseRun, ResumeRun, Exit, Reconnect, MainPlaces
<1>2. CASE Started \/ HaltServer \/ IfRunning
    BY <1>2, Apart DEF Started, HaltServer, IfRunning, MainPlaces, Finish
<1>3. CASE Join
    BY <1>3, Apart DEF Join, Finish, MainPlaces
<1>4. CASE Ask
    BY <1>4, Apart DEF Ask, MainPlaces
<1>5. CASE \/ SlowControl \/ MonitorDevices \/ WatchActive \/ CheckActive \/ AcquireUsb
           \/ Acquired \/ ReleaseUsb \/ Unlock \/ TriggerList \/ SendWatched
    BY <1>5, Apart
       DEF SlowControl, MonitorDevices, WatchActive, CheckActive, AcquireUsb, Acquired,
           ReleaseUsb, Unlock, TriggerList, SendWatched
<1>6. CASE Answered
    <2>1. /\ main = "wait" /\ UNCHANGED <<acq, back, state>>
          /\ main' = IF op \in {"END", "EXIT"} THEN "join" ELSE "idle"
        BY <1>6 DEF Answered
    <2>2. main' = "join" \/ (state = "Paused" => acq[w] \in {"paused", "none"})
        BY <1>6, <2>1, RepliedMain DEF Answered
    <2> QED
        BY <2>1, <2>2
<1>7. CASE Output \/ UNCHANGED vars
    BY <1>7, Apart DEF Output, GetFilled, PutFilled, vars
<1> QED BY <1>1, <1>2, <1>3, <1>4, <1>5, <1>6, <1>7 DEF Next, Operate, Carry, Client, Respond

\* A monitor trigger is late, or finds data taking on.
LEMMA TakingRest ==
    ASSUME acq \in [Workers -> Places], back \in [Workers -> Returns], NEW w \in Workers,
           ThreadAt(w), CommandAt(w), TakingAt(w), UNCHANGED <<acq, back>>,
           [Next]_vars, ~Spawn, \A v \in Workers : ~Acquire(v)
    PROVE  TakingAt(w)'
<1> USE DEF ThreadAt, CommandAt, TakingAt, Dead, Taking
<1>1. CASE Begin \/ End \/ PauseRun \/ ResumeRun \/ Exit \/ Reconnect
    BY <1>1 DEF Begin, End, PauseRun, ResumeRun, Exit, Reconnect
<1>2. CASE Started \/ HaltServer \/ IfRunning \/ Ask \/ Answered \/ Join
    BY <1>2 DEF Started, HaltServer, IfRunning, Ask, Answered, Join, Finish
<1>3. CASE \/ SlowControl \/ MonitorDevices \/ WatchActive \/ CheckActive \/ AcquireUsb
           \/ Acquired \/ ReleaseUsb \/ Unlock \/ TriggerList \/ SendWatched
    BY <1>3
       DEF SlowControl, MonitorDevices, WatchActive, CheckActive, AcquireUsb, Acquired,
           ReleaseUsb, Unlock, TriggerList, SendWatched
<1>4. CASE Output \/ UNCHANGED vars
    BY <1>4 DEF Output, GetFilled, PutFilled, vars
<1> QED BY <1>1, <1>2, <1>3, <1>4 DEF Next, Operate, Carry, Client, Respond

\* A command, or a client, that a failed thread does not answer.
LEMMA FaultRest ==
    ASSUME acq \in [Workers -> Places], back \in [Workers -> Returns], NEW w \in Workers,
           Typed, Locked(w), BackOk(w), ThreadAt(w), CommandAt(w), StateOk(w), TalkAt(w),
           FaultAt(w), UNCHANGED <<acq, back>>,
           [Next]_vars, ~Spawn, \A v \in Workers : ~Acquire(v)
    PROVE  FaultAt(w)'
<1> USE DEF Typed, FaultAt, Failing, Leaving, Gone, Dead, Nothing, Joining, Stopping,
            Starting, Draining, BackOk
<1>a. faults' = faults /\ (Bolted' <=> Bolted)
    BY NoFault
<1>1. CASE Ask
    <2>1. UNCHANGED <<acq, back, state, running, living, replies, tcl>>
        BY <1>1 DEF Ask
    <2>2. queueLock = Nobody /\ main = "enter" /\ main' = "wait"
        BY <1>1 DEF Ask
    <2> QED
        BY <1>a, <2>1, <2>2, Apart DEF MainPlaces
<1>2. CASE AcquireUsb
    <2>1. UNCHANGED <<acq, back, state, running, living, replies, main>>
        BY <1>2 DEF AcquireUsb
    <2>2. queueLock = Nobody /\ tcl = "acquire"
        BY <1>2 DEF AcquireUsb
    <2> QED
        BY <1>a, <2>1, <2>2
<1>3. CASE Begin
    <2>1. /\ UNCHANGED <<acq, back, running, living, faults, queueLock, requests, replies, tcl>>
          /\ main = "idle" /\ main' = "reconnect" /\ state = "Idle" /\ state' = "Starting"
        BY <1>3 DEF Begin
    <2>2. main \notin Joining \cup {"wait"}
        BY <2>1, Apart DEF MainPlaces
    <2> QED
        BY <1>a, <2>1, <2>2
<1>4. CASE End \/ PauseRun \/ ResumeRun \/ Exit \/ Reconnect \/ Started \/ HaltServer
    <2>1. UNCHANGED <<acq, back, state, running, living, faults, queueLock, requests, replies>>
        BY <1>4 DEF End, PauseRun, ResumeRun, Exit, Reconnect, Started, HaltServer
    <2>2. tcl' = "acquiring" <=> tcl = "acquiring"
        BY <1>4 DEF End, PauseRun, ResumeRun, Exit, Reconnect, Started, HaltServer
    <2>3. \/ /\ main \in {"idle", "started", "halt"}
             /\ main' \in {"idle", "halt", "running?", "enter"}
          \/ main = "reconnect" /\ main' = "spawn"
        BY <1>4 DEF End, PauseRun, ResumeRun, Exit, Reconnect, Started, HaltServer
    <2>4. main \notin Joining \cup {"wait"}
        BY <2>3, Apart DEF MainPlaces
    <2> QED
        BY <1>a, <2>1, <2>2, <2>3, <2>4, Apart DEF MainPlaces
<1>5. CASE \/ SlowControl \/ MonitorDevices \/ WatchActive \/ CheckActive \/ TriggerList
           \/ SendWatched \/ Output \/ UNCHANGED vars
    <2>1. UNCHANGED <<acq, back, main, state, running, living, faults, queueLock, requests,
                      replies>>
        BY <1>5
           DEF SlowControl, MonitorDevices, WatchActive, CheckActive, TriggerList, SendWatched,
               Output, GetFilled, PutFilled, vars
    <2>2. tcl' = "acquiring" <=> tcl = "acquiring"
        BY <1>5
           DEF SlowControl, MonitorDevices, WatchActive, CheckActive, TriggerList, SendWatched,
               Output, GetFilled, PutFilled, vars
    <2> QED
        BY <1>a, <2>1, <2>2
<1>6. CASE IfRunning
    <2>1. main = "running?" /\ "running?" \notin Joining \cup {"wait"}
        BY <1>6, Apart DEF IfRunning, Finish, MainPlaces
    <2>2. UNCHANGED <<running, living, queueLock, requests, replies, tcl, faults, acq, back>>
        BY <1>6 DEF IfRunning, Finish
    <2>3. CASE running
        <3>1. main' = "enter" /\ state' = state
            BY <1>6, <2>3 DEF IfRunning
        <3> QED
            BY <1>a, <2>1, <2>2, <3>1, Apart DEF MainPlaces
    <2>4. CASE ~running
        <3>1. ~Dead /\ ~Dead'
            BY <2>2, <2>4
        <3>2. \/ main' = "exited" /\ state' = state
              \/ main' = "idle" /\ state' = "Idle"
            BY <1>6, <2>4 DEF IfRunning, Finish
        <3>3. acq[w] \notin {"begin", "signal"} \cup Stopping
            BY <2>4 DEF ThreadAt
        <3> QED
            BY <1>a, <2>1, <2>2, <3>1, <3>2, <3>3
    <2> QED
        BY <2>3, <2>4
<1>7. CASE Answered
    <2>1. /\ main = "wait" /\ replies > 0
          /\ UNCHANGED <<acq, back, state, running, living, faults, tcl>>
          /\ main' = IF op \in {"END", "EXIT"} THEN "join" ELSE "idle"
        BY <1>7 DEF Answered
    <2>2. Replied /\ Calm(w)
        BY <2>1, RepliedMain
    <2>3. ~Nothing /\ ~Dead /\ ~Dead'
        BY <2>1, <2>2 DEF Nothing, Replied
    <2>4. /\ acq[w] \notin Stopping /\ (op \in {"END", "EXIT"} => acq[w] \in Leaving)
          /\ op \in {"PAUSE", "RESUME"} /\ ~Bolted => ~Failing(w)
        BY <2>1, RepliedMain
    <2>5. back[w] = "leave" => "restart" \in faults
        BY <2>3
    <2>6. main' # "join" => (~Bolted => ~Failing(w))
        BY <2>1, <2>4
    <2>7. faults = {} /\ state = "Starting" => FALSE
        BY <2>1
    <2> QED
        BY <1>a, <2>1, <2>3, <2>4, <2>5, <2>6, <2>7
<1>8. CASE Join
    <2>1. /\ UNCHANGED <<running, living, queueLock, requests, replies, tcl, faults, acq, back>>
          /\ main \in Joining
        BY <1>8 DEF Join, Finish
    <2>2. ~Dead /\ ~Dead'
        BY <2>1, Apart DEF MainPlaces
    <2>3. CASE living /\ main = "join" /\ main' = tid /\ state' = state
        BY <2>1, <2>2, <2>3, Apart DEF MainPlaces, ThreadAt
    <2>4. CASE acq[w] \in {"none", "born"} /\ Finish
        <3>1. ~Failing(w)' /\ back'[w] # "leave" /\ acq'[w] \notin Stopping
            BY <2>1, <2>4
        <3>2. acq'[w] \notin {"begin", "signal"}
            BY <2>1, <2>4
        <3>3. \/ main' = "exited" /\ state' = state
              \/ main' = "idle" /\ state' = "Idle"
            BY <2>4 DEF Finish
        <3>4. main \notin {"reconnect", "spawn", "starting"}
            BY <2>1, Apart DEF MainPlaces
        <3> QED
            BY <2>1, <2>2, <3>1, <3>2, <3>3, <3>4
    <2>5. \/ living /\ main = "join" /\ main' = tid /\ state' = state
          \/ ~living /\ Finish
          \/ main \in Workers /\ At(main, "none") /\ Finish
        BY <1>8 DEF Join
    <2>6. ~living => acq[w] \in {"none", "born"}
        BY DEF ThreadAt
    <2>7. main \in Workers /\ At(main, "none") => acq[w] = "none"
        BY DEF CommandAt
    <2> QED
        BY <2>3, <2>4, <2>5, <2>6, <2>7
<1>9. CASE Acquired
    <2>1. /\ UNCHANGED <<running, living, queueLock, state, main, faults, acq, back>>
          /\ At(w, "granted")
        BY <1>9, RepliedTcl DEF Acquired
    <2>2. ~Dead /\ back[w] # "leave" /\ ~Failing(w)
        BY <2>1 DEF ThreadAt, BackOk
    <2> QED
        BY <2>1, <2>2
<1>10. CASE ReleaseUsb
    <2>1. /\ UNCHANGED <<running, living, queueLock, state, main, faults, acq, back>>
          /\ At(w, "granted")
        BY <1>10 DEF ReleaseUsb, Locked, Asking, TalkAt, TclAt
    <2>2. ~Dead /\ back[w] # "leave" /\ ~Failing(w)
        BY <2>1 DEF ThreadAt, BackOk
    <2> QED
        BY <2>1, <2>2
<1>11. CASE Unlock
    <2>1. /\ UNCHANGED <<running, living, state, main, faults, acq, back>>
          /\ tcl \in {"use", "releasing"}
        BY <1>11 DEF Unlock
    <2>2. CASE tcl = "use"
        <3>1. UNCHANGED <<requests, replies, queueLock>> /\ tcl' = "idle"
            BY <1>11, <2>2 DEF Unlock
        <3> QED
            BY <1>a, <2>1, <2>2, <3>1
    <2>3. CASE tcl = "releasing"
        <3>1. replies > 0 /\ tcl' = "idle"
            BY <1>11, <2>3 DEF Unlock
        <3>2. Replied
            BY <2>3, <3>1, RepliedTcl
        <3>3. ~Nothing
            BY <3>2 DEF Replied
        <3>4. ~Dead
            BY <3>2 DEF Replied, FaultAt
        <3>5. back[w] = "leave" => "restart" \in faults
            BY <3>3 DEF FaultAt
        <3> QED
            BY <1>a, <2>1, <2>3, <3>1, <3>4, <3>5
    <2> QED
        BY <2>1, <2>2, <2>3
<1> QED BY <1>1, <1>2, <1>3, <1>4, <1>5, <1>6, <1>7, <1>8, <1>9, <1>10, <1>11
        DEF Next, Operate, Carry, Client, Respond

\* A conversation begins when the queues are free, and ends with the reply.
LEMMA TalkRest ==
    ASSUME acq \in [Workers -> Places], back \in [Workers -> Returns], NEW w \in Workers,
           Typed, Locked(w), CommandAt(w), TalkAt(w), FaultAt(w), UNCHANGED <<acq, back>>,
           [Next]_vars, ~Spawn, \A v \in Workers : ~Acquire(v)
    PROVE  TalkAt(w)'
<1> USE DEF Typed, Locked, Asking, TalkAt, TclAt, MainAt, Calm, Answering, AnswersTcl,
            AnswersMain, Nothing, Asked, Replied, Leaving, Gone, Failing
<1>a. Bolted' <=> Bolted
    BY NoFault
<1>1. CASE Begin \/ End \/ PauseRun \/ ResumeRun \/ Exit \/ Reconnect
    BY <1>1, Apart DEF Begin, End, PauseRun, ResumeRun, Exit, Reconnect, MainPlaces
<1>2. CASE Started \/ HaltServer \/ IfRunning
    BY <1>2, Apart DEF Started, HaltServer, IfRunning, MainPlaces, Finish
<1>3. CASE Join
    BY <1>3, Apart DEF Join, Finish, MainPlaces
<1>4. CASE SlowControl \/ MonitorDevices \/ WatchActive
    BY <1>a, <1>4, Apart DEF SlowControl, MonitorDevices, WatchActive
<1>5. CASE CheckActive
    BY <1>a, <1>5, Apart DEF CheckActive
<1>6. CASE TriggerList \/ SendWatched
    BY <1>a, <1>6, Apart DEF TriggerList, SendWatched
<1>7. CASE Ask
    <2>1. /\ Nothing /\ Calm(w) /\ main = "enter" /\ queueLock' = "main"
          /\ UNCHANGED <<acq, back, op, tcl, mustRelease>>
        BY <1>7, Apart DEF Ask
    <2>2. requests' = <<IF op = "EXIT" THEN "END" ELSE op>> /\ replies' = 0
        BY <1>7, <2>1, Seqs DEF Ask
    <2>3. /\ op = "PAUSE" => ~At(w, "paused")
          /\ op = "RESUME" => acq[w] \in {"paused", "none"}
        BY <2>1 DEF CommandAt
    <2> QED
        BY <2>1, <2>2, <2>3, Apart
<1>8. CASE AcquireUsb
    <2>1. /\ Nothing /\ Calm(w) /\ tcl = "acquire" /\ tcl' = "acquiring" /\ queueLock' = "tcl"
          /\ UNCHANGED <<acq, back, op, daq, main>>
        BY <1>8, Apart DEF AcquireUsb
    <2>2. requests' = <<"ACQUIRE">> /\ replies' = 0
        BY <1>8, <2>1, Seqs DEF AcquireUsb
    <2>3. ~At(w, "paused")
        BY <2>1 DEF CommandAt
    <2> QED
        BY <2>1, <2>2, <2>3, Apart
<1>9. CASE Acquired
    <2>1. /\ Replied /\ queueLock = "tcl" /\ ~daq /\ At(w, "granted")
        BY <1>9, RepliedTcl DEF Acquired
    <2>2. /\ requests' = <<>> /\ replies' = 0 /\ tcl' = "use" /\ queueLock' = "tcl"
          /\ UNCHANGED <<acq, back, daq>>
        BY <1>9, <2>1 DEF Acquired
    <2> QED
        BY <2>1, <2>2, Apart
<1>10. CASE ReleaseUsb
    <2>1. /\ Nothing /\ queueLock = "tcl" /\ ~daq /\ At(w, "granted")
        BY <1>10 DEF ReleaseUsb
    <2>2. /\ requests' = <<"RELEASE">> /\ replies' = 0 /\ tcl' = "releasing"
          /\ queueLock' = "tcl" /\ UNCHANGED <<acq, back, daq>>
        BY <1>10, <2>1, Seqs DEF ReleaseUsb
    <2> QED
        BY <2>1, <2>2, Apart
<1>11. CASE Unlock
    <2>1. CASE tcl = "use"
        BY <1>a, <1>11, <2>1 DEF Unlock
    <2>2. CASE tcl = "releasing"
        <3>1. Replied /\ Calm(w)
            BY <1>11, <2>2, RepliedTcl DEF Unlock
        <3>2. requests' = <<>> /\ replies' = 0 /\ queueLock' = Nobody /\ UNCHANGED <<acq, back>>
            BY <1>11, <2>2, <3>1 DEF Unlock
        <3> QED
            BY <3>1, <3>2, Apart
    <2> QED
        BY <1>11, <2>1, <2>2 DEF Unlock
<1>12. CASE Answered
    <2>1. Replied /\ Calm(w) /\ queueLock = "main"
        BY <1>12, RepliedMain DEF Answered
    <2>2. requests' = <<>> /\ replies' = 0 /\ queueLock' = Nobody /\ UNCHANGED <<acq, back>>
        BY <1>12, <2>1 DEF Answered
    <2> QED
        BY <2>1, <2>2, Apart
<1>13. CASE Output \/ UNCHANGED vars
    BY <1>a, <1>13, Apart DEF Output, GetFilled, PutFilled, vars
<1> QED BY <1>1, <1>2, <1>3, <1>4, <1>5, <1>6, <1>7, <1>8, <1>9, <1>10, <1>11, <1>12, <1>13
        DEF Next, Operate, Carry, Client, Respond

\* The thread of a run that begins, when no other is left.
LEMMA SpawnStep ==
    ASSUME acq \in [Workers -> Places], back \in [Workers -> Returns], NEW w \in Workers,
           Typed, Locked(w), BackOk(w), ThreadAt(w), CommandAt(w), StateOk(w), TalkAt(w),
           FaultAt(w), TakingAt(w), Spawn, At(w, "none"), acq' = [acq EXCEPT ![w] = "born"]
    PROVE  /\ ThreadAt(w)' /\ CommandAt(w)' /\ StateOk(w)' /\ TalkAt(w)' /\ FaultAt(w)'
           /\ TakingAt(w)'
<1>1. /\ acq'[w] = "born" /\ main = "spawn" /\ main' = "starting"
      /\ UNCHANGED <<back, run, control, globalLock, daq, op, server, faults>>
    BY DEF Spawn
<1>2. back[w] = "none"
    BY DEF BackOk, Returns, Stopping, Starting, Draining
<1>3. main \notin Joining \cup {"wait"} /\ main' \notin Workers \cup Joining
    BY <1>1, Apart DEF MainPlaces, Joining
<1>4. ThreadAt(w)'
    BY <1>1 DEF ThreadAt
<1>5. CommandAt(w)'
    BY <1>1, <1>3 DEF CommandAt, Beginning
<1>6. StateOk(w)'
    BY <1>1, <1>2 DEF StateOk, Stopping, Draining, Gone, CommandAt
<1>7. TalkAt(w)'
    <2>1. queueLock # "main"
        BY <1>1 DEF Locked
    <2>2. Calm(w)' /\ ~Answering(w)' /\ ~Answering(w) /\ ~AnswersTcl(w)'
        BY <1>1, <1>2 DEF Calm, Answering, AnswersTcl
    <2> QED
        BY <1>1, <2>1, <2>2 DEF TalkAt, TclAt, Nothing, Asked, Replied
<1>8. ~Dead
    BY <1>1 DEF FaultAt
<1>9. FaultAt(w)'
    BY <1>1, <1>2, <1>8 DEF FaultAt, Failing, Leaving, Gone, Stopping, Draining, Dead
<1>10. TakingAt(w)'
    BY <1>1, <1>8 DEF TakingAt, Taking, Dead
<1> QED
    BY <1>4, <1>5, <1>6, <1>7, <1>9, <1>10

\* The part of the invariant that is about one thread, whoever takes the step.
LEMMA SoloStep ==
    ASSUME TypeOK, LockInv, NEW w \in Workers, Solo(w), ThreadAt(w), CommandAt(w), StateOk(w),
           TalkAt(w), FaultAt(w), TakingAt(w), [Next]_vars,
           \A v \in Workers \ {w} : ~Acquire(v),
           Spawn => At(w, "none") /\ acq' = [acq EXCEPT ![w] = "born"]
    PROVE  /\ Solo(w)' /\ ThreadAt(w)' /\ CommandAt(w)' /\ StateOk(w)' /\ TalkAt(w)'
           /\ FaultAt(w)' /\ TakingAt(w)'
<1>1. acq \in [Workers -> Places] /\ back \in [Workers -> Returns]
    BY DEF TypeOK
<1>2. Typed
    BY DEF TypeOK, Typed
<1>3. Locked(w) /\ BackOk(w) /\ replies \in Nat
    BY Apart DEF TypeOK, LockInv, Locked
<1>4. CASE Acquire(w)
    <2>1. Solo(w)'
        BY <1>1, <1>4, OneMoves DEF Solo
    <2>2. ThreadAt(w)' /\ CommandAt(w)'
        BY <1>1, <1>3, <1>4, ThreadStep, CommandStep
    <2>3. StateOk(w)' /\ TakingAt(w)'
        BY <1>1, <1>3, <1>4, StateStep, TakingStep
    <2>4. TalkAt(w)' /\ FaultAt(w)'
        BY <1>1, <1>2, <1>3, <1>4, TalkStep, FaultStep
    <2> QED
        BY <2>1, <2>2, <2>3, <2>4
<1>5. CASE Spawn
    <2>1. Solo(w)'
        <3>1. back' = back /\ At(w, "none") /\ acq' = [acq EXCEPT ![w] = "born"]
            BY <1>5 DEF Spawn
        <3> QED
            BY <1>1, <3>1 DEF Solo
    <2> QED
        BY <1>1, <1>2, <1>3, <1>5, <2>1, SpawnStep
<1>6. CASE ~Acquire(w) /\ ~Spawn
    <2>1. \A v \in Workers : ~Acquire(v)
        BY <1>6
    <2>2. UNCHANGED <<acq, back>>
        BY <1>6, <2>1, NobodyElse
    <2>3. Solo(w)'
        BY <2>2 DEF Solo
    <2>4. ThreadAt(w)' /\ CommandAt(w)'
        BY <1>1, <1>2, <1>3, <1>6, <2>1, <2>2, ThreadRest, CommandRest
    <2>5. StateOk(w)' /\ TakingAt(w)'
        BY <1>1, <1>2, <1>3, <1>6, <2>1, <2>2, StateRest, TakingRest
    <2>6. FaultAt(w)' /\ TalkAt(w)'
        BY <1>1, <1>2, <1>3, <1>6, <2>1, <2>2, FaultRest, TalkRest
    <2> QED
        BY <2>3, <2>4, <2>5, <2>6
<1> QED
    BY <1>4, <1>5, <1>6

\* A thread that takes a step is somewhere.
LEMMA Somewhere ==
    ASSUME NEW w \in Workers, Acquire(w)
    PROVE  acq[w] # "none"
BY DEF Acquire, InitBegin, StartLock, Start, BeginRun, Signal, GetBuffer, Read, Test, PauseItem,
       StopLock, StopOff, DrainGet, Drain, DrainLast, Stopped, WriteThrows, Grant, Released,
       Autonomous, RestartThrows, Pause, PausedRequest, ResumeItem, Resumed, Ended, Leave,
       EndItem, NotRunning, Return

\* A begin that finds a thread is remembered.
LEMMA CrossedOnce ==
    ASSUME [Next]_vars
    PROVE  /\ crossed => crossed'
           /\ crossed' => crossed \/ (Spawn /\ \E w \in Workers : ~At(w, "none"))
<1>1. ASSUME NEW w \in Workers, Acquire(w) PROVE crossed' = crossed
    BY <1>1, OthersAlone
<1>2. CASE Operate \/ Reconnect \/ Started \/ Ask
    BY <1>2 DEF Operate, Begin, End, PauseRun, ResumeRun, Exit, Reconnect, Started, Ask,
                Command, Proceed
<1>3. CASE HaltServer \/ IfRunning \/ Answered \/ Join
    BY <1>3 DEF HaltServer, IfRunning, Answered, Join, Finish, Proceed
<1>4. CASE Spawn
    BY <1>4 DEF Spawn
<1>5. CASE Client \/ Respond \/ Output \/ UNCHANGED vars
    BY <1>5 DEF Client, SlowControl, MonitorDevices, WatchActive, Respond, CheckActive,
                AcquireUsb, Acquired, ReleaseUsb, Unlock, TriggerList, SendWatched, Output,
                GetFilled, PutFilled, vars
<1> QED
    BY <1>1, <1>2, <1>3, <1>4, <1>5 DEF Next, Carry

-----------------------------------------------------------------------------
(* The theorems. *)

\* The program starts in the invariant.
LEMMA InitInv == Init => ReadoutInv
<1> SUFFICES ASSUME Init PROVE ReadoutInv
    OBVIOUS
<1>1. acq \in [Workers -> Places] /\ back \in [Workers -> Returns]
    BY DEF Init, Places, Returns
<1>2. TypeOK
    <2>1. requests \in Seq(Opcodes) /\ filled \in Seq(Items) /\ faults \subseteq Faults
        BY DEF Init
    <2>2. replies \in Nat /\ free \in Nat /\ runs \in 0 .. MaxRuns /\ data \in 0 .. MaxData
        BY Bounds DEF Init
    <2>3. main \in MainPlaces \cup Workers /\ main \notin {"enter", "wait"}
          /\ main \notin Joining \cup {"halt", "running?"}
        BY Apart DEF Init, MainPlaces, Joining
    <2> QED
        BY <1>1, <2>1, <2>2, <2>3
           DEF Init, TypeOK, States, Commands, TclPlaces, Phases
<1>3. BuffersKept
    <2>1. InLoop = {} /\ InDrain = {}
        BY DEF Init, InLoop, InDrain, HoldsLoop, HoldsDrain, InMainLoop, Stopping, Starting,
               Draining
    <2>2. Cardinality({}) = 0
        BY FS_EmptySet
    <2> QED
        BY <2>1, <2>2, Bounds DEF Init, BuffersKept
<1>4. LockInv
    BY Apart DEF Init, LockInv, BackOk, HasController, Asking, Stopping, Starting, Draining
<1>5. ThreadInv /\ CommandInv /\ StateInv
    BY Apart DEF Init, ThreadInv, CommandInv, CommandOk, Beginning, StateInv, StateOk, Gone,
                 Starting, Stopping, Draining, Joining, MainPlaces
<1>6. TalkInv /\ FaultInv /\ TakingInv
    BY Apart DEF Init, TalkInv, Nothing, Calm, Answering, FaultInv, Failing, Leaving, Gone,
                 Stopping, Draining, Dead, TakingInv
<1> QED
    BY <1>2, <1>3, <1>4, <1>5, <1>6 DEF Init, ReadoutInv

\* Every step keeps it: the types, mutexes and buffers whatever happened before; the
\* rest, as long as no run begins over another, by the one thread there is.
LEMMA NextInv == ReadoutInv /\ [Next]_vars => ReadoutInv'
<1> SUFFICES ASSUME ReadoutInv, [Next]_vars PROVE ReadoutInv'
    OBVIOUS
<1> USE DEF ReadoutInv
<1>1. TypeOK' /\ LockInv' /\ BuffersKept'
    BY TypeNext, LockNext, BuffersNext
<1>2. ASSUME ~crossed
      PROVE  ThreadInv /\ CommandInv /\ StateInv /\ TalkInv /\ FaultInv /\ TakingInv
    BY <1>2
<1>3. acq \in [Workers -> Places] /\ back \in [Workers -> Returns]
      /\ (living => tid \in Workers)
    BY DEF TypeOK
<1>4. acq' \in [Workers -> Places] /\ back' \in [Workers -> Returns]
      /\ (living' => tid' \in Workers)
    BY <1>1 DEF TypeOK
<1>5. ASSUME crossed' PROVE Bolted'
    <2>1. CASE crossed
        BY <2>1, FaultsGrow DEF Bolted
    <2>2. CASE ~crossed
        <3>1. Spawn /\ \E w \in Workers : ~At(w, "none")
            BY <1>5, <2>2, CrossedOnce
        <3>2. PICK w \in Workers : ~At(w, "none")
            BY <3>1
        <3>3. main = "spawn" /\ faults' = faults
            BY <3>1 DEF Spawn
        <3>4. acq[w] \in Gone \ {"none"}
            BY <1>2, <2>2, <3>2, <3>3 DEF CommandInv, CommandOk
        <3>5. Failing(w)
            BY <3>4 DEF Failing, Leaving, Gone
        <3>6. main \notin Joining \cup {"wait"}
            BY <3>3, Apart DEF MainPlaces, Joining
        <3>7. tcl # "acquiring"
            BY <1>2, <2>2, <3>3 DEF CommandInv, LockInv
        <3> QED
            BY <1>2, <2>2, <3>3, <3>5, <3>6, <3>7 DEF FaultInv, Bolted
    <2> QED
        BY <2>1, <2>2
<1>6. ASSUME ~crossed'
      PROVE  ThreadInv' /\ CommandInv' /\ StateInv' /\ TalkInv' /\ FaultInv' /\ TakingInv'
    <2>1. ~crossed
        BY <1>6, CrossedOnce
    <2>2. ThreadInv /\ CommandInv /\ StateInv /\ TalkInv /\ FaultInv /\ TakingInv
        BY <1>2, <2>1
    <2>3. \A v \in Workers : acq[v] = "none" => back[v] = "none"
        BY <1>3 DEF LockInv, BackOk, Returns, Stopping, Starting, Draining
    <2>4. PICK w \in Workers :
              /\ \A v \in Workers \ {w} : acq[v] = "none"
              /\ \A v \in Workers \ {w} : ~Acquire(v)
              /\ Spawn => At(w, "none") /\ acq' = [acq EXCEPT ![w] = "born"]
        <3>1. CASE Spawn
            <4>1. \A v \in Workers : acq[v] = "none"
                BY <1>6, <3>1 DEF Spawn
            <4>2. \A v \in Workers : ~Acquire(v)
                BY <4>1, Somewhere
            <4> QED
                BY <1>3, <3>1, <4>1, <4>2, OneBorn
        <3>2. CASE ~Spawn
            <4>1. CASE \E v \in Workers : acq[v] # "none"
                <5>1. PICK w \in Workers : acq[w] # "none"
                    BY <4>1
                <5>2. \A v \in Workers \ {w} : acq[v] = "none"
                    BY <2>2, <5>1 DEF ThreadInv
                <5> QED
                    BY <3>2, <5>2, Somewhere
            <4>2. CASE \A v \in Workers : acq[v] = "none"
                <5>1. PICK w \in Workers : TRUE
                    BY ReadoutAssumption
                <5> QED
                    BY <3>2, <4>2, <5>1, Somewhere
            <4> QED
                BY <4>1, <4>2
        <3> QED
            BY <3>1, <3>2
    <2>5. Solo(w)
        BY <2>3, <2>4 DEF Solo
    <2>6. ThreadAt(w) /\ CommandAt(w) /\ StateOk(w) /\ TalkAt(w) /\ FaultAt(w) /\ TakingAt(w)
        BY <1>3, <2>2, <2>5, SoloBefore
    <2>7. /\ Solo(w)' /\ ThreadAt(w)' /\ CommandAt(w)' /\ StateOk(w)' /\ TalkAt(w)'
          /\ FaultAt(w)' /\ TakingAt(w)'
        BY <2>4, <2>5, <2>6, SoloStep
    <2> QED
        BY <1>4, <2>7, SoloAfter
<1> QED
    BY <1>1, <1>5, <1>6

\* The inductive invariant holds throughout, for any pool of buffers and any number of
\* runs, faults and data buffers: who has the mutexes, where every buffer is, and, unless
\* a run began over a thread on its way out, how far the thread, the command, the client,
\* the run state, the conversation and the faults agree.
THEOREM ReadoutInvariant == Spec => []ReadoutInv
<1>1. Init => ReadoutInv
    BY InitInv
<1>2. ReadoutInv /\ [Next]_vars => ReadoutInv'
    BY NextInv
<1> QED
    BY <1>1, <1>2, PTL DEF Spec

\* Whichever way the acquisition thread leaves its main loop, every buffer of the pool is
\* in one place ("Don't lose buffers!!"), but for those that writes which failed while
\* drainUsb had one lost: never more than there were failed writes.
THEOREM BuffersSafe == Spec => []BuffersKept
<1>1. ReadoutInv => BuffersKept
    BY DEF ReadoutInv
<1> QED
    BY <1>1, ReadoutInvariant, PTL

\* What the invariant says as long as no run began over a thread on its way out.
LEMMA Uncrossed ==
    ASSUME ReadoutInv, ~crossed
    PROVE  /\ TypeOK /\ LockInv /\ ThreadInv /\ CommandInv /\ StateInv /\ TalkInv
           /\ FaultInv /\ TakingInv
BY DEF ReadoutInv

\* One request at a time, and one that the acquisition thread expects.
LEMMA Requested == ReadoutInv => RequestsFit
<1> SUFFICES ASSUME ReadoutInv, ~crossed PROVE RequestsFit
    BY DEF RequestsFit
<1>1. Nothing \/ Replied \/ \E opcode \in Opcodes : Asked(opcode)
    <2>1. queueLock \in {"main", "tcl", Nobody} /\ TalkInv
        BY Uncrossed DEF TypeOK
    <2>2. queueLock = "main" => op \in {"END", "PAUSE", "RESUME", "EXIT"}
        BY Uncrossed DEF TypeOK, LockInv
    <2> QED
        BY <2>1, <2>2 DEF TalkInv, TclTalk, MainTalk, Opcodes
<1>2. Len(requests) + replies <= 1
    <2>1. CASE Nothing \/ Replied
        <3>1. requests = <<>> /\ replies \in {0, 1}
            BY <2>1 DEF Nothing, Replied
        <3> QED
            BY <3>1
    <2>2. ASSUME NEW opcode \in Opcodes, Asked(opcode) PROVE Len(requests) + replies <= 1
        <3>1. requests = <<opcode>> /\ replies = 0
            BY <2>2 DEF Asked
        <3> QED
            BY <3>1
    <2> QED
        BY <1>1, <2>1, <2>2
<1>3. ASSUME requests # <<>>, NEW w \in Workers
      PROVE  /\ acq[w] \in {"read", "refill", "test"} =>
                    requests[1] \in {"ACQUIRE", "END", "PAUSE"}
             /\ At(w, "granted") => requests[1] = "RELEASE"
             /\ At(w, "paused") => requests[1] \in {"END", "RESUME"}
    <2>1. queueLock \in {"main", "tcl"} /\ TalkInv
        BY <1>3, Uncrossed DEF TypeOK, TalkInv, Nothing
    <2>2. CASE queueLock = "tcl"
        <3>1. \/ Asked("ACQUIRE") /\ Calm(w) /\ ~At(w, "paused")
              \/ Asked("RELEASE") /\ \E v \in Workers : At(v, "granted")
            BY <1>3, <2>1, <2>2 DEF TalkInv, TclTalk, Nothing, Replied, Granted
        <3>2. CASE Asked("ACQUIRE") /\ Calm(w) /\ ~At(w, "paused")
            BY <3>2 DEF Asked, Calm
        <3>3. CASE Asked("RELEASE") /\ \E v \in Workers : At(v, "granted")
            <4>1. acq[w] \in {"none", "granted"}
                BY <3>3, Uncrossed DEF ThreadInv
            <4> QED
                BY <3>3, <4>1 DEF Asked
        <3> QED
            BY <3>1, <3>2, <3>3
    <2>3. CASE queueLock = "main"
        <3>1. op \in {"END", "PAUSE", "RESUME", "EXIT"}
            BY <2>3, Uncrossed DEF TypeOK, LockInv
        <3>2. /\ Asked(IF op = "EXIT" THEN "END" ELSE op) /\ Calm(w)
              /\ op = "PAUSE" => ~At(w, "paused")
              /\ op = "RESUME" => acq[w] \in {"paused", "none"}
            BY <1>3, <2>1, <2>3 DEF TalkInv, MainTalk, Nothing, Replied
        <3> QED
            BY <3>1, <3>2 DEF Asked, Calm
    <2> QED
        BY <2>1, <2>2, <2>3
<1> QED
    BY <1>2, <1>3 DEF RequestsFit

\* The assertions on the requests of testRequest, processCommand, pauseDaq and
\* blockingTransaction hold, unless a run began over a thread on its way out.
THEOREM RequestsSafe == Spec => []RequestsFit
BY Requested, ReadoutInvariant, PTL

\* A client that acquired the controller has it to itself until it releases it.
THEOREM ControllerSafe == Spec => []ControllerGranted
<1>1. ReadoutInv => ControllerGranted
    <2> SUFFICES ASSUME ReadoutInv, ~crossed, tcl = "use", mustRelease PROVE ControllerGranted
        BY DEF ControllerGranted
    <2>1. queueLock = "tcl"
        BY Uncrossed DEF LockInv, Asking
    <2>2. Granted
        BY <2>1, Uncrossed DEF TalkInv, TclTalk
    <2>3. PICK w \in Workers : At(w, "granted")
        BY <2>2 DEF Granted
    <2>4. \A v \in Workers \ {w} : acq[v] = "none"
        BY <2>3, Uncrossed DEF ThreadInv
    <2> QED
        BY <2>2, <2>3, <2>4 DEF Granted, ControllerGranted, Draining
<1> QED
    BY <1>1, ReadoutInvariant, PTL

\* However the run ended, the controller is not left taking data, unless a read from it
\* failed, a monitor trigger came after the stop or a run began over another.
THEOREM OffSafe == Spec => []StoppedMeansOff
<1>1. ReadoutInv => StoppedMeansOff
    <2> SUFFICES ASSUME ReadoutInv, state = "Idle", daq, "read" \notin faults, ~stray,
                        ~crossed
                 PROVE  FALSE
        BY DEF StoppedMeansOff
    <2>1. ~Dead
        BY Uncrossed DEF FaultInv
    <2>2. PICK w \in Workers : acq[w] \in Taking \cup {"pauseRun", "stopDaq", "stopDaqImpl"}
        BY <2>1, Uncrossed DEF TakingInv
    <2>3. acq[w] \in Gone \cup {"born"}
        BY Uncrossed DEF StateInv, StateOk
    <2> QED
        BY <2>2, <2>3 DEF Taking, Gone
<1> QED
    BY <1>1, ReadoutInvariant, PTL

\* Between commands, and as long as nothing failed, the run state is the truth about the
\* acquisition thread.
LEMMA RunState == ReadoutInv => RunStateTrue
<1> SUFFICES ASSUME ReadoutInv, main = "idle", faults = {} PROVE RunStateTrue
    BY DEF RunStateTrue
<1>1. ~crossed
    BY DEF ReadoutInv, Bolted
<1>2. main \notin Joining \cup {"wait"}
    BY Apart DEF MainPlaces, Joining
<1>3. ASSUME NEW w \in Workers
      PROVE  /\ ~Beginning(w) /\ acq[w] \notin {"leave", "endRun", "notRunning", "return"}
             /\ ~Failing(w)
    <2>1. ~Beginning(w)
        BY <1>1, Uncrossed DEF CommandInv
    <2>2. ~Failing(w)
        BY <1>1, <1>2, Uncrossed DEF FaultInv, Bolted
    <2> QED
        BY <2>1, <2>2 DEF Failing, Leaving, Gone
<1>4. living => tid \in Workers
    BY <1>1, Uncrossed DEF TypeOK
<1>5. living => acq[tid] \notin {"none", "born"}
    BY <1>1, Uncrossed DEF ThreadInv
<1>6. CASE state = "Idle"
    <2>1. \A w \in Workers : acq[w] = "none"
        BY <1>1, <1>3, <1>6, Uncrossed DEF StateInv, StateOk, Gone, Beginning
    <2>2. ~living
        BY <1>4, <1>5, <2>1
    <2>3. ~running
        BY <1>1, <1>6, <2>2, Uncrossed DEF FaultInv, Dead
    <2> QED
        BY <1>6, <2>1, <2>3 DEF RunStateTrue
<1>7. CASE state = "Paused"
    <2>1. living
        BY <1>1, <1>7, Uncrossed DEF FaultInv
    <2>2. acq[tid] \in {"paused", "none"}
        BY <1>1, <1>2, <1>4, <1>7, <2>1, Uncrossed DEF StateInv, StateOk
    <2> QED
        BY <1>4, <1>5, <1>7, <2>1, <2>2 DEF RunStateTrue
<1>8. CASE state \in {"Starting", "Active", "Stopping"}
    <2>1. state # "Starting"
        BY <1>1, Uncrossed DEF FaultInv
    <2>2. living
        BY <1>1, <1>8, <2>1, Uncrossed DEF FaultInv
    <2>3. running
        BY <1>1, <1>3, <1>4, <1>5, <2>2, Uncrossed DEF ThreadInv
    <2>4. /\ acq[tid] \in Places /\ back[tid] \in Returns
          /\ acq[tid] \notin Gone \cup {"leave", "paused"} /\ ~Beginning(tid)
        BY <1>1, <1>3, <1>4, <1>5, <1>8, <2>2, Uncrossed DEF TypeOK, StateInv, StateOk, Gone
    <2>5. acq[tid] \in {"pauseRun", "pause", "ended", "resumeRun", "stopDaq"} \cup Starting
                => queueLock = "main" \/ back[tid] = "leave"
        <3>1. BackOk(tid)
            BY <1>1, <1>4, <2>2, Uncrossed DEF LockInv
        <3>2. acq[tid] \in {"pauseRun", "pause", "ended", "resumeRun", "stopDaq"} \cup Starting
                => back[tid] = "leave" \/ (Answering(tid) /\ ~AnswersTcl(tid))
            BY <2>4, <3>1 DEF BackOk, Answering, AnswersTcl, Beginning, Starting, Stopping,
                              Draining
        <3>3. Answering(tid) /\ ~AnswersTcl(tid) => queueLock = "main"
            <4>1. queueLock \in {"main", "tcl", Nobody} /\ TalkInv
                BY <1>1, Uncrossed DEF TypeOK
            <4>2. CASE \E v \in Workers : At(v, "granted")
                <5>1. At(tid, "granted") /\ BackOk(tid)
                    BY <1>1, <1>4, <1>5, <2>2, <4>2, Uncrossed DEF ThreadInv, LockInv
                <5> QED
                    BY <5>1 DEF BackOk, Answering, Starting, Stopping, Draining
            <4>3. CASE \A v \in Workers : ~At(v, "granted")
                BY <1>4, <2>2, <4>1, <4>3 DEF TalkInv, TclTalk, Calm, Granted
            <4> QED
                BY <4>2, <4>3
        <3> QED
            BY <3>2, <3>3
    <2>6. queueLock # "main" /\ back[tid] # "leave"
        BY <1>1, <1>3, <1>4, <2>2, Uncrossed DEF LockInv, Failing
    <2>7. acq[tid] \notin {"pauseRun", "pause", "ended", "resumeRun", "stopDaq"} \cup Starting
        BY <2>5, <2>6
    <2>8. TakingData(tid)
        BY <2>4, <2>7
           DEF TakingData, Places, InMainLoop, Draining, Stopping, Starting, Beginning, Gone
    <2> QED
        BY <1>4, <1>8, <2>2, <2>3, <2>8 DEF RunStateTrue
<1> QED
    BY <1>1, <1>6, <1>7, <1>8, Uncrossed DEF TypeOK, States

\* What the next command's checks rest on: the run state is true between commands.
THEOREM RunStateSafe == Spec => []RunStateTrue
BY RunState, ReadoutInvariant, PTL
=================================================================================
