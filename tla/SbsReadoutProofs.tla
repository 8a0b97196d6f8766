---------------------------- MODULE SbsReadoutProofs ----------------------------
(***************************************************************************)
(* That the SBS readout framework keeps SbsInv, and what follows.  The     *)
(* steps are of two kinds: a trigger thread's (the lemmas called Step),    *)
(* for which Walk says where it goes and what it does to the flags, and    *)
(* everybody else's (the lemmas called Rest).                              *)
(***************************************************************************)
EXTENDS SbsReadout, TLAPS

USE DEF flags, thread, ring, triggers, Goto, Command, MainOnly, At, Step, LoopOnly, Quiet,
        StartPut

\* What the assumption on the constants says, one fact at a time.
LEMMA Apart == Nobody \notin Loops /\ \A w \in Loops : w \notin MainPlaces
BY SbsAssumption

\* The bounds are numbers.
LEMMA Bounds ==
    /\ DwellCount \in Nat \ {0} /\ MaxFaults \in Nat /\ MaxStarts \in Nat /\ MaxEvents \in Nat
    /\ MaxScalers \in Nat
BY SbsAssumption

-----------------------------------------------------------------------------
(* Types. *)

\* The trigger threads' places, their loop counters and the counts of triggers.
LEMMA LoopTyped ==
    ASSUME loop \in [Loops -> Places], [Next]_vars
    PROVE  loop' \in [Loops -> Places]
<1> USE DEF Places, InLoop
<1>1. ASSUME NEW w \in Loops, Loop(w) PROVE loop' \in [Loops -> Places]
    BY <1>1 DEF Loop, Birth, Run, Clear, PollEvent, ReadEvent, CountEvent, PollScaler, Turn,
                TriggerScalerReadout, AfterScalers, While, ScheduleEndRunBuffer, NotRunning,
                NotStopping, ReportFail, Failed, Exit
<1>2. CASE Operate \/ Carry \/ HandleEvent
    BY <1>2 DEF Operate, Begin, Resume, Pause, End, Carry, StartItem, StartLoop, Spawn, Started,
                StopLoop, SetStopping, SetPausing, Sync, EndSync, Join, Dump, Resumes,
                HandleEvent, HandleEndRunEvent, HandleVarTrigger, HandleTriggerLoopError
<1>3. CASE UNCHANGED vars
    BY <1>3 DEF vars
<1> QED
    BY <1>1, <1>2, <1>3 DEF Next

\* mainLoop's i stays within the dwell.
LEMMA TurnTyped ==
    ASSUME dwell \in [Loops -> 0 .. DwellCount - 1], NEW w \in Loops, NEW here, Turn(w, here)
    PROVE  dwell' \in [Loops -> 0 .. DwellCount - 1]
<1>1. PICK d \in Nat \ {0} : d = DwellCount
    BY Bounds
<1>2. dwell[w] \in 0 .. d - 1
    BY <1>1
<1>3. (dwell[w] + 1) % d \in 0 .. d - 1
    <2>1. PICK i \in Nat : i = dwell[w] + 1
        BY <1>2
    <2>2. i % d \in 0 .. d - 1
        OBVIOUS
    <2> QED
        BY <2>1, <2>2
<1> QED
    BY <1>1, <1>3 DEF Turn

\* The counts of the model and the program's own.
LEMMA CountersTyped ==
    ASSUME dwell \in [Loops -> 0 .. DwellCount - 1], emitted \in Nat, faults \in 0 .. MaxFaults,
           starts \in 0 .. MaxStarts, eventTriggers \in 0 .. MaxEvents,
           scalerTriggers \in 0 .. MaxScalers, [Next]_vars
    PROVE  /\ dwell' \in [Loops -> 0 .. DwellCount - 1] /\ emitted' \in Nat
           /\ faults' \in 0 .. MaxFaults /\ starts' \in 0 .. MaxStarts
           /\ eventTriggers' \in 0 .. MaxEvents /\ scalerTriggers' \in 0 .. MaxScalers
<1>1. MaxFaults \in Nat /\ MaxStarts \in Nat /\ MaxEvents \in Nat /\ MaxScalers \in Nat
      /\ 0 \in 0 .. DwellCount - 1
    BY Bounds
<1>2. ASSUME NEW w \in Loops,
             Birth(w) \/ Run(w) \/ Clear(w) \/ PollEvent(w) \/ ReadEvent(w) \/ CountEvent(w)
      PROVE  /\ dwell' = dwell /\ emitted' \in Nat
             /\ faults' \in 0 .. MaxFaults /\ starts' \in 0 .. MaxStarts
             /\ eventTriggers' \in 0 .. MaxEvents /\ scalerTriggers' \in 0 .. MaxScalers
    BY <1>1, <1>2 DEF Birth, Run, Clear, PollEvent, ReadEvent, CountEvent, Fault
<1>3. ASSUME NEW w \in Loops, PollScaler(w) \/ AfterScalers(w) \/ ReportFail(w)
      PROVE  /\ dwell' \in [Loops -> 0 .. DwellCount - 1]
             /\ UNCHANGED <<emitted, faults, starts, eventTriggers>>
             /\ scalerTriggers' \in 0 .. MaxScalers
    <2>1. \/ dwell' = dwell \/ Turn(w, "poll") \/ Turn(w, "dumped")
          \/ dwell' = [dwell EXCEPT ![w] = 0]
        BY <1>3 DEF PollScaler, AfterScalers, ReportFail
    <2>2. dwell' \in [Loops -> 0 .. DwellCount - 1]
        <3>1. CASE dwell' = [dwell EXCEPT ![w] = 0]
            BY <1>1, <3>1
        <3> QED
            BY <2>1, <3>1, TurnTyped
    <2>3. UNCHANGED <<emitted, faults, starts, eventTriggers>>
        BY <1>3 DEF PollScaler, AfterScalers, ReportFail
    <2>4. scalerTriggers' \in 0 .. MaxScalers
        <3>1. \/ scalerTriggers' = scalerTriggers
              \/ scalerTriggers < MaxScalers /\ scalerTriggers' = scalerTriggers + 1
            BY <1>3 DEF PollScaler, AfterScalers, ReportFail
        <3> QED
            BY <1>1, <3>1
    <2> QED
        BY <2>2, <2>3, <2>4
<1>4. ASSUME NEW w \in Loops,
             \/ TriggerScalerReadout(w) \/ While(w) \/ ScheduleEndRunBuffer(w) \/ NotRunning(w)
             \/ NotStopping(w) \/ Failed(w) \/ Exit(w)
      PROVE  UNCHANGED <<dwell, emitted, faults, starts, eventTriggers, scalerTriggers>>
    BY <1>4 DEF TriggerScalerReadout, While, ScheduleEndRunBuffer, NotRunning, NotStopping,
                Failed, Exit
<1>5. CASE Begin \/ Resume \/ StartItem
    <2>1. CASE Begin \/ Resume
        BY <1>1, <2>1 DEF Begin, Resume
    <2>2. CASE StartItem
        <3>1. /\ starts' = starts /\ dwell' = dwell /\ eventTriggers' = eventTriggers
              /\ scalerTriggers' = scalerTriggers /\ emitted' \in {0, emitted}
            BY <2>2 DEF StartItem
        <3>2. faults' = faults \/ (faults < MaxFaults /\ faults' = faults + 1)
            BY <2>2 DEF StartItem, Fault
        <3> QED
            BY <1>1, <3>1, <3>2
    <2> QED
        BY <1>5, <2>1, <2>2
<1>6. CASE \/ Pause \/ End \/ StartLoop \/ Spawn \/ Started \/ StopLoop \/ SetStopping
           \/ SetPausing \/ Sync \/ EndSync \/ Join \/ Dump \/ HandleEvent \/ UNCHANGED vars
    BY <1>6 DEF Pause, End, StartLoop, Spawn, Started, StopLoop, SetStopping, SetPausing, Sync,
                EndSync, Join, Dump, HandleEvent, HandleEndRunEvent, HandleVarTrigger,
                HandleTriggerLoopError, vars
<1> QED
    BY <1>2, <1>3, <1>4, <1>5, <1>6 DEF Next, Loop, Operate, Carry

\* What the ring shows of the run.
RingOk == /\ inTurn \in BOOLEAN /\ vain \in BOOLEAN
          /\ phase \in {"ended", "taking", "paused"} /\ shown \in Nat

\* What is put in the ring.
LEMMA PutTyped ==
    ASSUME RingOk, NEW item, NEW inVain \in BOOLEAN, PutItem(item, inVain)
    PROVE  RingOk'
<1>1. inTurn' \in BOOLEAN /\ vain' \in BOOLEAN
    BY DEF PutItem, RingOk
<1>2. phase' \in {"ended", "taking", "paused"} /\ shown' \in Nat
    BY DEF PutItem, RingOk
<1> QED
    BY <1>1, <1>2 DEF RingOk

\* The ring as it is shown.
LEMMA RingTyped ==
    ASSUME RingOk, [Next]_vars
    PROVE  RingOk'
<1>1. CASE \E item : \E inVain \in BOOLEAN : PutItem(item, inVain)
    BY <1>1, PutTyped
<1>2. CASE UNCHANGED <<shown, phase, inTurn>> /\ vain' \in {vain, TRUE}
    BY <1>2 DEF RingOk
<1>3. ASSUME NEW w \in Loops, Loop(w)
      PROVE  (\E item : \E inVain \in BOOLEAN : PutItem(item, inVain)) \/ UNCHANGED ring
    BY <1>3 DEF Put, Loop, Birth, Run, Clear, PollEvent, ReadEvent, CountEvent, PollScaler,
                TriggerScalerReadout, AfterScalers, While, ScheduleEndRunBuffer, NotRunning,
                NotStopping, ReportFail, Failed, Exit
<1>4. CASE Operate \/ Carry \/ HandleEvent \/ UNCHANGED vars
    <2>1. CASE Sync \/ EndSync \/ Dump \/ StartItem
        <3>1. \/ \E item : \E inVain \in BOOLEAN : PutItem(item, inVain)
              \/ UNCHANGED ring
            BY <2>1 DEF Sync, EndSync, Dump, StartItem, SyncEndRun, Put
        <3> QED
            BY <1>1, <1>2, <3>1
    <2>2. CASE StartLoop
        BY <1>2, <2>2 DEF StartLoop
    <2>3. CASE \/ Operate \/ Spawn \/ Started \/ StopLoop \/ SetStopping \/ SetPausing
               \/ Join \/ HandleEvent \/ UNCHANGED vars
        BY <1>2, <2>3
           DEF Operate, Begin, Resume, Pause, End, Spawn, Started, StopLoop, SetStopping,
               SetPausing, Join, HandleEvent, HandleEndRunEvent, HandleVarTrigger,
               HandleTriggerLoopError, vars
    <2> QED
        BY <1>4, <2>1, <2>2, <2>3 DEF Carry
<1> QED
    BY <1>1, <1>2, <1>3, <1>4 DEF Next

\* The interpreter's queue.
LEMMA QueueTyped ==
    ASSUME events \in Seq(Messages), pausing \in BOOLEAN,
           main \in {"endSync", "dump"} => events # <<>>, [Next]_vars
    PROVE  events' \in Seq(Messages)
<1>1. ASSUME NEW kind \in {"end", "dump", "fail"}, NEW pause \in BOOLEAN, Post(kind, pause)
      PROVE  events' \in Seq(Messages)
    BY <1>1 DEF Post, Messages
<1>2. ASSUME NEW w \in Loops, Loop(w)
      PROVE  \/ UNCHANGED events
             \/ \E kind \in {"end", "dump", "fail"}, pause \in BOOLEAN : Post(kind, pause)
    BY <1>2 DEF Loop, Birth, Run, Clear, PollEvent, ReadEvent, CountEvent, PollScaler,
                TriggerScalerReadout, AfterScalers, While, ScheduleEndRunBuffer, NotRunning,
                NotStopping, ReportFail, Failed, Exit
<1>3. CASE Operate \/ Carry \/ HandleEvent \/ UNCHANGED vars
    <2>1. \/ UNCHANGED events
          \/ events' = Tail(events) /\ (EndSync \/ Dump \/ HandleTriggerLoopError)
        BY <1>3 DEF Operate, Begin, Resume, Pause, End, Carry, StartItem, StartLoop, Spawn,
                    Started, StopLoop, SetStopping, SetPausing, Sync, EndSync, Join, Dump,
                    HandleEvent, HandleEndRunEvent, HandleVarTrigger, HandleTriggerLoopError,
                    vars
    <2>2. events' = Tail(events) => events # <<>> \/ UNCHANGED events
        BY <2>1 DEF EndSync, Dump, HandleTriggerLoopError, Handle
    <2> QED
        BY <2>1, <2>2
<1> QED
    BY <1>1, <1>2, <1>3 DEF Next

\* The flags, the thread object, the run state, the command.
LEMMA FlagsTyped ==
    ASSUME TypeOK, [Next]_vars
    PROVE  /\ running' \in BOOLEAN /\ stopping' \in BOOLEAN /\ pausing' \in BOOLEAN
           /\ failed' \in BOOLEAN /\ living' \in BOOLEAN /\ tid' \in Loops \cup {Nobody}
           /\ living' => tid' \in Loops
<1>1. /\ running \in BOOLEAN /\ stopping \in BOOLEAN /\ pausing \in BOOLEAN
      /\ failed \in BOOLEAN /\ living \in BOOLEAN /\ tid \in Loops \cup {Nobody}
      /\ living => tid \in Loops
    BY DEF TypeOK
<1> DEFINE Flags == /\ running' \in BOOLEAN /\ stopping' \in BOOLEAN /\ pausing' \in BOOLEAN
                    /\ failed' \in BOOLEAN
           Thread == living' \in BOOLEAN /\ tid' \in Loops \cup {Nobody}
                       /\ (living' => tid' \in Loops)
<1>2. ASSUME NEW w \in Loops, Loop(w) PROVE Flags /\ Thread
    <2>1. Flags
        BY <1>1, <1>2
           DEF Loop, Birth, Run, Clear, PollEvent, ReadEvent, CountEvent, PollScaler,
               TriggerScalerReadout, AfterScalers, While, ScheduleEndRunBuffer, NotRunning,
               NotStopping, ReportFail, Failed, Exit
    <2>2. \/ living' = living /\ tid' = tid
          \/ living' = TRUE /\ tid' = w
          \/ living' = FALSE /\ tid' = Nobody
        BY <1>2
           DEF Loop, Birth, Run, Clear, PollEvent, ReadEvent, CountEvent, PollScaler,
               TriggerScalerReadout, AfterScalers, While, ScheduleEndRunBuffer, NotRunning,
               NotStopping, ReportFail, Failed, Exit
    <2>3. CASE living' = living /\ tid' = tid
        BY <1>1, <2>1, <2>3
    <2>4. CASE living' = TRUE /\ tid' = w
        BY <2>1, <2>4
    <2>5. CASE living' = FALSE /\ tid' = Nobody
        BY <2>1, <2>5
    <2> QED
        BY <2>2, <2>3, <2>4, <2>5
<1>3. CASE Operate \/ Carry \/ HandleEvent
    <2>1. Flags
        BY <1>1, <1>3
           DEF Operate, Begin, Resume, Pause, End, Carry, StartItem, StartLoop, Spawn, Started,
               StopLoop, SetStopping, SetPausing, Sync, EndSync, Join, Dump, HandleEvent,
               HandleEndRunEvent, HandleVarTrigger, HandleTriggerLoopError
    <2>2. living' = living /\ tid' = tid
        BY <1>3
           DEF Operate, Begin, Resume, Pause, End, Carry, StartItem, StartLoop, Spawn, Started,
               StopLoop, SetStopping, SetPausing, Sync, EndSync, Join, Dump, HandleEvent,
               HandleEndRunEvent, HandleVarTrigger, HandleTriggerLoopError
    <2> QED
        BY <1>1, <2>1, <2>2
<1>4. CASE UNCHANGED vars
    <2>1. /\ running' = running /\ stopping' = stopping /\ pausing' = pausing
          /\ failed' = failed /\ living' = living /\ tid' = tid
        BY <1>4 DEF vars
    <2> QED
        BY <1>1, <2>1
<1> QED
    BY <1>2, <1>3, <1>4 DEF Next

\* The run state and the command.
LEMMA CommandTyped ==
    ASSUME TypeOK, [Next]_vars
    PROVE  /\ state' \in {"inactive", "paused", "active"} /\ main' \in MainPlaces \cup Loops
           /\ op' \in {"none", "begin", "resume", "pause", "end"}
<1>1. /\ state \in {"inactive", "paused", "active"} /\ main \in MainPlaces \cup Loops
      /\ op \in {"none", "begin", "resume", "pause", "end"} /\ (living => tid \in Loops)
    BY DEF TypeOK
<1>2. CASE state' = state /\ main' = main /\ op' = op
    BY <1>1, <1>2
<1>3. CASE Operate \/ HandleEvent
    <2>1. state' = state
        BY <1>3 DEF Operate, Begin, Resume, Pause, End, HandleEvent, HandleEndRunEvent,
                    HandleVarTrigger, HandleTriggerLoopError
    <2>2. main' \in MainPlaces
        BY <1>3 DEF Operate, Begin, Resume, Pause, End, Stop, HandleEvent, Handle,
                    HandleEndRunEvent, HandleVarTrigger, HandleTriggerLoopError, MainPlaces
    <2>3. op' \in {op, "begin", "resume", "pause", "end"}
        BY <1>3 DEF Operate, Begin, Resume, Pause, End, HandleEvent, HandleEndRunEvent,
                    HandleVarTrigger, HandleTriggerLoopError
    <2> QED
        BY <1>1, <2>1, <2>2, <2>3
<1>4. CASE Carry
    BY <1>1, <1>4
       DEF Carry, StartItem, StartThrows, StartLoop, Spawn, Started, StopLoop, SetStopping,
           SetPausing, Sync, EndSync, SyncEndRun, Join, Dump, MainPlaces
<1>5. ASSUME NEW w \in Loops, Loop(w) PROVE state' = state /\ main' = main /\ op' = op
    BY <1>5 DEF Loop, Birth, Run, Clear, PollEvent, ReadEvent, CountEvent, PollScaler,
                TriggerScalerReadout, AfterScalers, While, ScheduleEndRunBuffer, NotRunning,
                NotStopping, ReportFail, Failed, Exit
<1> QED
    BY <1>2, <1>3, <1>4, <1>5 DEF Next, vars

\* Every step keeps the types.
LEMMA TypeNext ==
    TypeOK /\ (main \in {"endSync", "dump"} => events # <<>>) /\ [Next]_vars => TypeOK'
<1> SUFFICES ASSUME TypeOK, main \in {"endSync", "dump"} => events # <<>>, [Next]_vars
             PROVE  TypeOK'
    OBVIOUS
<1>1. loop' \in [Loops -> Places]
    BY LoopTyped DEF TypeOK
<1>2. /\ dwell' \in [Loops -> 0 .. DwellCount - 1] /\ emitted' \in Nat
      /\ faults' \in 0 .. MaxFaults /\ starts' \in 0 .. MaxStarts
      /\ eventTriggers' \in 0 .. MaxEvents /\ scalerTriggers' \in 0 .. MaxScalers
    BY CountersTyped DEF TypeOK
<1>3. RingOk'
    BY RingTyped DEF TypeOK, RingOk
<1>4. events' \in Seq(Messages)
    BY QueueTyped DEF TypeOK
<1> QED
    BY <1>1, <1>2, <1>3, <1>4, FlagsTyped, CommandTyped DEF TypeOK, RingOk

-----------------------------------------------------------------------------
(* Where a thread goes. *)

\* The step of a trigger thread, as the invariant sees it.
LEMMA Walk ==
    ASSUME loop \in [Loops -> Places], NEW w \in Loops, Loop(w)
    PROVE  /\ \A v \in Loops \ {w} : loop'[v] = loop[v]
           /\ state' = state /\ main' = main /\ op' = op
           /\ \/ loop[w] = "born" /\ loop'[w] = "run"
              \/ loop[w] = "run" /\ loop'[w] = "clear"
              \/ loop[w] \in InLoop \cup {"clear"} /\ loop'[w] \in InLoop
              \/ loop[w] \in InLoop /\ loop'[w] = "report"
              \/ loop[w] = "while" /\ stopping /\ loop'[w] = "schedule"
              \/ loop[w] = "schedule" /\ loop'[w] = "ending"
              \/ loop[w] = "ended" /\ loop'[w] = "notStopping"
              \/ loop[w] = "notStopping" /\ loop'[w] = "exit"
              \/ loop[w] = "report" /\ loop'[w] = "notRunning"
              \/ loop[w] = "notRunning" /\ loop'[w] = "noStop"
              \/ loop[w] = "noStop" /\ loop'[w] = "failed"
              \/ loop[w] = "failed" /\ loop'[w] = "exit"
              \/ loop[w] = "exit" /\ loop'[w] = "none"
           /\ running' = CASE loop[w] = "run" -> TRUE
                           [] loop[w] \in {"ended", "notRunning"} -> FALSE
                           [] OTHER -> running
           /\ failed' = IF loop[w] = "failed" THEN TRUE ELSE failed
<1> USE DEF InLoop
<1>1. CASE \/ Birth(w) \/ Run(w) \/ Clear(w) \/ PollEvent(w) \/ ReadEvent(w) \/ CountEvent(w)
    BY <1>1 DEF Birth, Run, Clear, PollEvent, ReadEvent, CountEvent
<1>2. CASE \/ PollScaler(w) \/ TriggerScalerReadout(w) \/ AfterScalers(w) \/ While(w)
    BY <1>2 DEF PollScaler, Turn, TriggerScalerReadout, AfterScalers, While
<1>3. CASE \/ ScheduleEndRunBuffer(w) \/ NotRunning(w) \/ NotStopping(w) \/ ReportFail(w)
           \/ Failed(w) \/ Exit(w)
    BY <1>3 DEF ScheduleEndRunBuffer, NotRunning, NotStopping, ReportFail, Failed, Exit
<1> QED
    BY <1>1, <1>2, <1>3 DEF Loop

\* A step of a trigger thread keeps one thread busy, and the flags true to it.
LEMMA LoopStep ==
    ASSUME loop \in [Loops -> Places], LoopInv, stopping => main # "wait", NEW w \in Loops,
           Loop(w)
    PROVE  LoopInv'
<1>1. LoopOk(w) /\ \A v \in Loops : loop[w] \in Busy /\ loop[v] \in Busy => v = w
    BY DEF LoopInv
<1>2. \A v \in Loops \ {w} : loop'[v] = loop[v]
    BY Walk
<1>3. \A u, v \in Loops : loop'[u] \in Busy /\ loop'[v] \in Busy => u = v
    <2>1. loop'[w] \in Busy => loop[w] \in Busy
        BY Walk DEF Busy, Lingering, InLoop, Places
    <2> QED
        BY <1>2, <2>1 DEF LoopInv
<1>4. ASSUME NEW v \in Loops PROVE LoopOk(v)'
    <2>1. CASE v = w
        BY <1>1, <2>1, Walk DEF LoopOk, Busy, Lingering, InLoop, Places
    <2>2. CASE v # w
        <3>1. failed' => failed \/ loop[v] \notin Busy
            BY <1>1, <2>2, Walk DEF Busy, Lingering, Places
        <3> QED
            BY <1>2, <2>2, <3>1, Walk DEF LoopInv, LoopOk, Busy
    <2> QED
        BY <2>1, <2>2
<1>5. running' <=> \E v \in Loops : loop'[v] \in HasRun
    <2>1. HasRun \subseteq Busy
        BY DEF HasRun, Busy, Lingering, InLoop, Places
    <2>2. CASE loop[w] = "run"
        BY <2>2, Walk DEF HasRun, InLoop
    <2>3. CASE loop[w] \in {"ended", "notRunning"}
        <3>1. ~running' /\ loop'[w] \notin HasRun /\ loop[w] \in Busy
            BY <2>3, Walk DEF HasRun, InLoop, Busy, Lingering, Places
        <3> QED
            BY <1>1, <1>2, <2>1, <3>1
    <2>4. CASE loop[w] \notin {"run", "ended", "notRunning"}
        <3>1. running' = running
            BY <2>4, Walk
        <3>2. loop'[w] \in HasRun <=> loop[w] \in HasRun
            BY <2>4, Walk DEF HasRun, InLoop
        <3>3. running <=> \E v \in Loops : loop[v] \in HasRun
            BY DEF LoopInv
        <3> QED
            BY <1>2, <3>1, <3>2, <3>3
    <2> QED
        BY <2>2, <2>3, <2>4
<1>6. state' = "active" \/ main' = "wait" => failed' \/ \E v \in Loops : loop'[v] \in Busy
    <2>1. SUFFICES ASSUME state = "active" \/ main = "wait", ~failed', loop'[w] \notin Busy
                   PROVE  \E v \in Loops : loop'[v] \in Busy
        BY Walk
    <2>2. loop[w] \notin Busy
        BY <1>1, <2>1, Walk DEF LoopOk, Busy, Lingering, InLoop, Places
    <2>3. ~failed
        BY <2>1, Walk
    <2> QED
        BY <1>2, <2>1, <2>2, <2>3 DEF LoopInv
<1> QED
    BY <1>3, <1>4, <1>5, <1>6 DEF LoopInv

\* Everybody else's steps.
LEMMA LoopRest ==
    ASSUME loop \in [Loops -> Places], living => tid \in Loops, LoopInv, MainInv,
           Operate \/ Carry \/ HandleEvent \/ UNCHANGED vars
    PROVE  LoopInv'
<1>1. \A w \in Loops : w \notin MainPlaces
    BY Apart
<1>2. HasRun \subseteq Busy /\ Dumping \subseteq HasRun
    BY DEF HasRun, Busy, Lingering, InLoop, Places, Dumping
<1>3. CASE /\ loop' = loop /\ state' = state /\ running' = running /\ failed' = failed
           /\ (main' = main \/ (main # "wait" /\ main' \notin {"spawn", "wait"}))
    BY <1>3 DEF LoopInv, LoopOk
<1>4. CASE Operate \/ HandleEvent
    BY <1>3, <1>4
       DEF Operate, Begin, Resume, Pause, End, Stop, HandleEvent, Handle, HandleEndRunEvent,
           HandleVarTrigger, HandleTriggerLoopError
<1>5. CASE \/ StartItem \/ StopLoop \/ SetStopping \/ SetPausing \/ Join \/ UNCHANGED vars
           \/ (StartLoop /\ running)
    <2>1. loop' = loop /\ state' = state /\ running' = running /\ failed' = failed
        BY <1>5 DEF StartItem, StartLoop, StopLoop, SetStopping, SetPausing, Join, vars
    <2>2. main' = main \/ (main # "wait" /\ main' \notin {"spawn", "wait"})
        BY <1>1, <1>5 DEF StartItem, StartThrows, StartLoop, StopLoop, SetStopping, SetPausing,
                          Join, vars, MainPlaces
    <2> QED
        BY <1>3, <2>1, <2>2
<1>6. CASE StartLoop /\ ~running
    <2>1. /\ loop' = loop /\ state' = state /\ running' = FALSE /\ failed' = FALSE
          /\ main = "start" /\ main' = "spawn" /\ state # "active"
        BY <1>6 DEF StartLoop, MainInv, Begun
    <2>2. \A w \in Loops : loop[w] \notin HasRun
        BY <1>6 DEF LoopInv
    <2> QED
        BY <2>1, <2>2 DEF LoopInv, LoopOk, HasRun
<1>7. CASE Spawn
    <2>1. /\ main = "spawn" /\ main' = "wait" /\ state' = state /\ running' = running
          /\ failed' = failed /\ \E w \in Loops : loop[w] = "none"
        BY <1>7 DEF Spawn
    <2>2. PICK w \in Loops : loop[w] = "none" /\ loop' = [loop EXCEPT ![w] = "born"]
        BY <1>7 DEF Spawn
    <2>3. state # "active" /\ ~running /\ ~failed
        BY <2>1 DEF MainInv, Begun
    <2>4. \A v \in Loops : loop[v] \in Lingering
        BY <2>1, <2>3 DEF LoopInv, LoopOk, Busy, Places, Lingering
    <2>5. loop'[w] = "born" /\ \A v \in Loops \ {w} : loop'[v] = loop[v]
        BY <2>2
    <2>6. /\ \A v \in Loops : loop'[v] \in Busy => v = w
          /\ loop'[w] \in Busy /\ loop'[w] \notin HasRun
        BY <2>4, <2>5 DEF Busy, Lingering, Places, HasRun, InLoop
    <2>7. \A v \in Loops : LoopOk(v)'
        BY <2>1, <2>3, <2>4, <2>5 DEF LoopOk, Busy, Lingering
    <2> QED
        BY <1>2, <2>1, <2>3, <2>6, <2>7 DEF LoopInv
<1>8. CASE Started
    <2>1. /\ loop' = loop /\ state' = "active" /\ running' = running /\ failed' = failed
          /\ main = "wait" /\ main' = "idle" /\ (running \/ failed)
        BY <1>8 DEF Started
    <2>2. \A w \in Loops : loop[w] \notin {"born", "run"}
        <3>1. CASE failed
            BY <3>1 DEF LoopInv, LoopOk, Lingering
        <3>2. CASE running
            BY <3>2 DEF LoopInv, HasRun, Busy, Lingering, InLoop, Places
        <3> QED
            BY <2>1, <3>1, <3>2
    <2>3. \A w \in Loops : LoopOk(w)'
        BY <2>1, <2>2 DEF LoopInv, LoopOk
    <2> QED
        BY <2>1, <2>3 DEF LoopInv
<1>9. CASE Sync
    <2>1. /\ loop' = loop /\ state' # "active" /\ running' = running /\ failed' = failed
          /\ main = "sync" /\ main' = "idle"
        BY <1>9 DEF Sync, SyncEndRun
    <2>2. \A w \in Loops : loop[w] \in Lingering \cup {"ended"}
        BY <2>1 DEF LoopInv, LoopOk, MainInv, Lingering, Busy
    <2>3. \A w \in Loops : LoopOk(w)'
        BY <2>1, <2>2 DEF LoopInv, LoopOk, Busy, Lingering
    <2> QED
        BY <2>1, <2>3 DEF LoopInv
<1>10. CASE EndSync
    <2>1. PICK w \in Loops : loop[w] = "ending" /\ loop' = [loop EXCEPT ![w] = "ended"]
        BY <1>10 DEF EndSync, Resumes
    <2>2. /\ state' # "active" /\ running' = running /\ failed' = failed
          /\ main = "endSync" /\ main' = "join"
        BY <1>10 DEF EndSync, SyncEndRun
    <2>3. \A v \in Loops \ {w} : loop'[v] = loop[v] /\ loop[v] \in Lingering
        BY <2>1 DEF LoopInv, Busy, Lingering, Places
    <2>4. loop'[w] = "ended" /\ loop[w] \in HasRun
        BY <2>1 DEF HasRun
    <2>5. \A v \in Loops : LoopOk(v)'
        BY <2>2, <2>3, <2>4, <1>2, <2>1 DEF LoopInv, LoopOk, Busy, Lingering
    <2>6. running
        BY <2>4 DEF LoopInv
    <2> QED
        BY <2>2, <2>3, <2>4, <2>5, <2>6 DEF LoopInv, Busy, HasRun
<1>11. CASE Dump
    <2>1. PICK w \in Loops : /\ loop[w] \in Dumping
                             /\ \/ loop' = [loop EXCEPT ![w] = "stateVars"]
                                \/ loop' = [loop EXCEPT ![w] = "dumped"]
        BY <1>11 DEF Dump, Resumes, Dumping
    <2>2. /\ state' = state /\ running' = running /\ failed' = failed
          /\ main = "dump" /\ main' = "idle"
        BY <1>11 DEF Dump
    <2>3. \A v \in Loops \ {w} : loop'[v] = loop[v]
        BY <2>1
    <2>4. loop'[w] \in {"stateVars", "dumped"}
        BY <2>1
    <2>5. LoopOk(w) /\ loop[w] \in HasRun \cap Busy /\ loop'[w] \in HasRun \cap Busy
        BY <1>2, <2>1, <2>4 DEF LoopInv, HasRun, Busy, Lingering, InLoop, Places
    <2>6. LoopOk(w)'
        BY <2>1, <2>2, <2>4, <2>5 DEF LoopOk, Busy, Lingering, Dumping
    <2>7. \A v \in Loops : LoopOk(v)'
        BY <2>2, <2>3, <2>6 DEF LoopInv, LoopOk
    <2>8. \A u, v \in Loops : loop'[u] \in Busy /\ loop'[v] \in Busy => u = v
        BY <2>3, <2>5 DEF LoopInv
    <2>9. running
        BY <2>5 DEF LoopInv
    <2> QED
        BY <2>2, <2>5, <2>7, <2>8, <2>9 DEF LoopInv
<1> QED
    BY <1>4, <1>5, <1>6, <1>7, <1>8, <1>9, <1>10, <1>11 DEF Carry

\* How far the command is.
LEMMA MainStep ==
    ASSUME loop \in [Loops -> Places], LoopInv, MainInv, NEW w \in Loops, Loop(w)
    PROVE  MainInv'
<1>1. LoopOk(w)
    BY DEF LoopInv
<1>2. stopping' => stopping
    BY DEF Loop, Birth, Run, Clear, PollEvent, ReadEvent, CountEvent, PollScaler,
           TriggerScalerReadout, AfterScalers, While, ScheduleEndRunBuffer, NotRunning,
           NotStopping, ReportFail, Failed, Exit
<1>3. failed => failed'
    BY Walk
<1>4. main = "spawn" => ~running' /\ ~failed'
    <2>1. SUFFICES ASSUME main = "spawn" PROVE ~running' /\ ~failed'
        OBVIOUS
    <2>2. state # "active" /\ ~running /\ ~failed
        BY <2>1 DEF MainInv, Begun
    <2>3. loop[w] \notin {"run", "failed"}
        BY <1>1, <2>1, <2>2 DEF LoopOk, Busy, Lingering, Places
    <2> QED
        BY <2>2, <2>3, Walk
<1> QED
    BY <1>2, <1>3, <1>4, Walk DEF MainInv, Begun

\* Everybody else's steps: what is at the head of the queue means a run is active.
LEMMA MainRest ==
    ASSUME TypeOK, LoopInv, MainInv, QueueInv,
           Operate \/ Carry \/ HandleEvent \/ UNCHANGED vars
    PROVE  MainInv'
<1>1. \A w \in Loops : w \notin MainPlaces
    BY Apart
<1>2. state \in {"inactive", "paused", "active"} /\ (living => tid \in Loops)
    BY DEF TypeOK
<1>3. CASE Operate
    BY <1>1, <1>2, <1>3 DEF Operate, Begin, Resume, Pause, End, Stop, MainInv, Begun, MainPlaces
<1>4. CASE HandleEndRunEvent \/ HandleVarTrigger
    <2>1. state = "active"
        <3>1. events # <<>> /\ Head(events).kind \in {"end", "dump"}
            BY <1>4 DEF HandleEndRunEvent, HandleVarTrigger, Handle
        <3>2. Head(events) = events[1] /\ Len(events) \in Nat \ {0}
            BY <3>1 DEF TypeOK
        <3>3. Awaits("end") \/ Awaits("dump")
            BY <3>1, <3>2 DEF QueueInv, Awaits
        <3>4. PICK w \in Loops : loop[w] \in Dumping \cup {"ending"}
            BY <3>3 DEF QueueInv
        <3>5. main = "idle"
            BY <1>4 DEF HandleEndRunEvent, HandleVarTrigger, Handle
        <3> QED
            BY <3>4, <3>5 DEF LoopInv, LoopOk, Dumping, Busy, Lingering, Places, InLoop
    <2> QED
        BY <1>1, <1>4, <2>1 DEF HandleEndRunEvent, HandleVarTrigger, Handle, MainInv, Begun,
                                MainPlaces
<1>5. CASE HandleTriggerLoopError
    BY <1>1, <1>2, <1>5 DEF HandleTriggerLoopError, Handle, Stop, MainInv, Begun, MainPlaces
<1>6. CASE StartItem \/ StartLoop \/ Spawn \/ Started
    <2>1. CASE StartItem
        <3>1. /\ main = "item" /\ main' \in {"idle", "start"} /\ op' = op
              /\ state' = state
            BY <2>1 DEF StartItem, StartThrows
        <3> QED
            BY <1>1, <1>2, <3>1 DEF MainInv, Begun, MainPlaces
    <2>2. CASE StartLoop \/ Spawn \/ Started
        BY <1>1, <1>2, <2>2 DEF StartThrows, StartLoop, Spawn, Started, MainInv, Begun,
                                MainPlaces
    <2> QED
        BY <1>6, <2>1, <2>2
<1>7. CASE StopLoop \/ SetStopping \/ SetPausing \/ Sync \/ EndSync
    BY <1>1, <1>2, <1>7 DEF StopLoop, SetStopping, SetPausing, Sync, EndSync, SyncEndRun,
                            MainInv, Begun, MainPlaces
<1>8. CASE Join \/ Dump \/ UNCHANGED vars
    BY <1>1, <1>2, <1>8 DEF Join, Dump, vars, MainInv, Begun, MainPlaces
<1> QED
    BY <1>3, <1>4, <1>5, <1>6, <1>7, <1>8 DEF Carry, HandleEvent

-----------------------------------------------------------------------------
(* The interpreter's queue. *)

Ordered == \A i \in 1 .. Len(events) : events[i].kind # "fail" => i = Len(events)

\* A thread that has nothing in the queue puts something in it.
LEMMA Posted ==
    ASSUME events \in Seq(Messages), Ordered, ~Awaits("dump"), ~Awaits("end"), NEW kind,
           NEW pause, Post(kind, pause)
    PROVE  /\ Ordered' /\ Awaits(kind)' /\ \A k : k # kind => ~Awaits(k)'
           /\ events # <<>> => events' # <<>> /\ Head(events') = Head(events)
<1>1. PICK n \in Nat : n = Len(events)
    OBVIOUS
<1>2. /\ Len(events') = n + 1 /\ events' # <<>>
      /\ events'[n + 1] = [kind |-> kind, pause |-> pause]
      /\ \A i \in 1 .. n : events'[i] = events[i]
    BY <1>1 DEF Post
<1>3. \A i \in 1 .. n : events[i].kind = "fail"
    <2>1. SUFFICES ASSUME NEW i \in 1 .. n, events[i].kind # "fail" PROVE FALSE
        OBVIOUS
    <2>2. i = n /\ events # <<>>
        BY <1>1, <2>1 DEF Ordered
    <2>3. events[i].kind \in {"end", "dump", "fail"}
        <3>1. events[i] \in Messages
            BY <1>1, <2>1
        <3> QED
            BY <3>1 DEF Messages
    <2> QED
        BY <1>1, <2>1, <2>2, <2>3 DEF Awaits
<1>4. Ordered'
    BY <1>2, <1>3 DEF Ordered
<1>5. Awaits(kind)' /\ \A k : k # kind => ~Awaits(k)'
    BY <1>2 DEF Awaits
<1>6. events # <<>> => Head(events') = Head(events)
    BY <1>1, <1>2 DEF Post
<1> QED
    BY <1>2, <1>4, <1>5, <1>6

\* The main thread takes the first out.
LEMMA Taken ==
    ASSUME events \in Seq(Messages), Ordered, events # <<>>, events' = Tail(events)
    PROVE  /\ Head(events).kind # "fail" => Awaits(Head(events).kind) /\ events' = <<>>
           /\ Head(events).kind = "fail" =>
                 Ordered' /\ \A k : k # "fail" => (Awaits(k)' <=> Awaits(k))
<1>1. PICK n \in Nat : n = Len(events)
    OBVIOUS
<1>2. n > 0 /\ Len(events') = n - 1 /\ Head(events) = events[1]
      /\ \A i \in 1 .. n - 1 : events'[i] = events[i + 1]
    BY <1>1
<1>3. ASSUME Head(events).kind # "fail" PROVE Awaits(Head(events).kind) /\ events' = <<>>
    <2>1. n = 1
        BY <1>1, <1>2, <1>3 DEF Ordered
    <2>2. Len(events') = 0 /\ events' \in Seq(Messages)
        BY <1>2, <2>1
    <2> QED
        BY <1>1, <1>2, <2>1, <2>2 DEF Awaits
<1>4. ASSUME Head(events).kind = "fail"
      PROVE  Ordered' /\ \A k : k # "fail" => (Awaits(k)' <=> Awaits(k))
    <2>1. Ordered'
        <3>1. SUFFICES ASSUME NEW i \in 1 .. n - 1, events'[i].kind # "fail" PROVE i = n - 1
            BY <1>2 DEF Ordered
        <3>2. i + 1 \in 1 .. n /\ events[i + 1].kind # "fail"
            BY <1>2, <3>1
        <3>3. i + 1 = n
            BY <1>1, <3>2 DEF Ordered
        <3> QED
            BY <3>3
    <2>2. ASSUME NEW k, k # "fail" PROVE Awaits(k)' <=> Awaits(k)
        <3>1. CASE n = 1
            <4>1. Len(events') = 0 /\ events' \in Seq(Messages)
                BY <1>2, <3>1
            <4>2. events' = <<>> /\ events[n].kind = "fail"
                BY <1>2, <1>4, <3>1, <4>1
            <4> QED
                BY <1>1, <2>2, <4>2 DEF Awaits
        <3>2. CASE n # 1
            <4>1. n - 1 \in 1 .. n - 1 /\ (n - 1) + 1 = n
                BY <1>2, <3>2
            <4>2. events'[n - 1] = events[n] /\ events' # <<>>
                BY <1>2, <4>1
            <4> QED
                BY <1>1, <1>2, <4>2 DEF Awaits
        <3> QED
            BY <3>1, <3>2
    <2> QED
        BY <2>1, <2>2
<1> QED
    BY <1>3, <1>4

\* What a step of a trigger thread does with the queue.
LEMMA Posts ==
    ASSUME NEW w \in Loops, loop \in [Loops -> Places], Loop(w)
    PROVE  \/ /\ Post("dump", FALSE) /\ loop[w] \in {"scalers", "stateVars"}
              /\ loop'[w] \in Dumping
           \/ Post("end", pausing) /\ At(w, "schedule") /\ loop'[w] = "ending"
           \/ Post("fail", FALSE) /\ At(w, "report") /\ loop'[w] = "notRunning"
           \/ /\ events' = events
              /\ {loop[w], loop'[w]} \cap (Dumping \cup {"ending"}) = {}
<1> USE DEF Dumping
<1>1. CASE \/ Birth(w) \/ Run(w) \/ Clear(w) \/ PollEvent(w) \/ ReadEvent(w) \/ CountEvent(w)
    BY <1>1 DEF Birth, Run, Clear, PollEvent, ReadEvent, CountEvent
<1>2. CASE \/ PollScaler(w) \/ TriggerScalerReadout(w) \/ AfterScalers(w) \/ While(w)
    BY <1>2 DEF PollScaler, Turn, TriggerScalerReadout, AfterScalers, While
<1>3. CASE \/ ScheduleEndRunBuffer(w) \/ NotRunning(w) \/ NotStopping(w) \/ ReportFail(w)
           \/ Failed(w) \/ Exit(w)
    BY <1>3 DEF ScheduleEndRunBuffer, NotRunning, NotStopping, ReportFail, Failed, Exit
<1> QED
    BY <1>1, <1>2, <1>3 DEF Loop

\* A step of a trigger thread keeps the queue.
LEMMA QueueStep ==
    ASSUME loop \in [Loops -> Places], events \in Seq(Messages), LoopInv, QueueInv,
           NEW w \in Loops, Loop(w)
    PROVE  QueueInv'
<1>1. \A v \in Loops \ {w} : loop'[v] = loop[v]
    BY Walk
<1>2. main' = main /\ Ordered
    BY Walk DEF QueueInv, Ordered
<1>3. CASE /\ events' = events
           /\ {loop[w], loop'[w]} \cap (Dumping \cup {"ending"}) = {}
    BY <1>1, <1>2, <1>3 DEF QueueInv, Awaits
<1>4. ASSUME loop[w] \in {"scalers", "stateVars", "schedule", "report"}
      PROVE  /\ \A v \in Loops : loop[v] \notin Dumping \cup {"ending"}
             /\ ~Awaits("dump") /\ ~Awaits("end")
    <2>1. \A v \in Loops \ {w} : loop[v] \notin Busy
        BY <1>4 DEF LoopInv, Busy, Lingering, Places, InLoop
    <2>2. \A v \in Loops : loop[v] \notin Dumping \cup {"ending"}
        BY <1>4, <2>1 DEF Busy, Lingering, Places, InLoop, Dumping
    <2> QED
        BY <2>2 DEF QueueInv
<1>5. CASE /\ Post("dump", FALSE) /\ loop[w] \in {"scalers", "stateVars"}
           /\ loop'[w] \in Dumping
    <2>1. /\ Ordered' /\ Awaits("dump")' /\ ~Awaits("end")'
          /\ events # <<>> => events' # <<>> /\ Head(events') = Head(events)
        BY <1>2, <1>4, <1>5, Posted
    <2> QED
        BY <1>1, <1>2, <1>4, <1>5, <2>1 DEF QueueInv, Ordered, Dumping
<1>6. CASE Post("end", pausing) /\ At(w, "schedule") /\ loop'[w] = "ending"
    <2>1. /\ Ordered' /\ Awaits("end")' /\ ~Awaits("dump")'
          /\ events # <<>> => events' # <<>> /\ Head(events') = Head(events)
        BY <1>2, <1>4, <1>6, Posted
    <2> QED
        BY <1>1, <1>2, <1>4, <1>6, <2>1 DEF QueueInv, Ordered, Dumping
<1>7. CASE Post("fail", FALSE) /\ At(w, "report") /\ loop'[w] = "notRunning"
    <2>1. /\ Ordered' /\ ~Awaits("end")' /\ ~Awaits("dump")'
          /\ events # <<>> => events' # <<>> /\ Head(events') = Head(events)
        BY <1>2, <1>4, <1>7, Posted
    <2> QED
        BY <1>1, <1>2, <1>4, <1>7, <2>1 DEF QueueInv, Ordered, Dumping
<1> QED
    BY <1>3, <1>5, <1>6, <1>7, Posts

\* The main thread takes out what it has handled.
LEMMA QueueRest ==
    ASSUME loop \in [Loops -> Places], events \in Seq(Messages), living => tid \in Loops,
           LoopInv, QueueInv, Operate \/ Carry \/ HandleEvent \/ UNCHANGED vars
    PROVE  QueueInv'
<1>1. \A w \in Loops : w \notin MainPlaces
    BY Apart
<1>2. Ordered
    BY DEF QueueInv, Ordered
<1>3. CASE /\ loop' = loop /\ events' = events
           /\ main' \in {"endSync", "dump"} => main' = main
    BY <1>3 DEF QueueInv, Awaits
<1>4. CASE \/ Operate \/ StartItem \/ StartLoop \/ Started \/ StopLoop \/ SetStopping
           \/ SetPausing \/ Sync \/ Join \/ UNCHANGED vars
    <2>1. loop' = loop /\ events' = events
        BY <1>4 DEF Operate, Begin, Resume, Pause, End, StartItem, StartLoop, Started, StopLoop,
                    SetStopping, SetPausing, Sync, Join, vars
    <2>2. main' \in {"endSync", "dump"} => main' = main
        BY <1>1, <1>4 DEF Operate, Begin, Resume, Pause, End, Stop, StartItem, StartThrows,
                          StartLoop, Started, StopLoop, SetStopping, SetPausing, Sync, Join,
                          vars, MainPlaces
    <2> QED
        BY <1>3, <2>1, <2>2
<1>5. CASE HandleEndRunEvent \/ HandleVarTrigger
    BY <1>5 DEF HandleEndRunEvent, HandleVarTrigger, Handle, QueueInv, Awaits
<1>6. CASE HandleTriggerLoopError
    <2>1. /\ events # <<>> /\ Head(events).kind = "fail" /\ events' = Tail(events)
          /\ loop' = loop /\ main' \notin {"endSync", "dump"}
        BY <1>6 DEF HandleTriggerLoopError, Handle, Stop
    <2>2. Ordered' /\ \A k : k # "fail" => (Awaits(k)' <=> Awaits(k))
        BY <1>2, <2>1, Taken
    <2> QED
        BY <2>1, <2>2 DEF QueueInv, Ordered
<1>7. CASE Spawn
    <2>1. /\ events' = events /\ main' = "wait"
          /\ \E w \in Loops : loop[w] = "none"
        BY <1>7 DEF Spawn
    <2>2. PICK w \in Loops : loop[w] = "none" /\ loop' = [loop EXCEPT ![w] = "born"]
        BY <1>7, <2>1 DEF Spawn
    <2>3. loop'[w] = "born" /\ \A v \in Loops \ {w} : loop'[v] = loop[v]
        BY <2>2
    <2> QED
        BY <2>1, <2>2, <2>3 DEF QueueInv, Awaits, Dumping
<1>8. CASE EndSync \/ Dump
    <2>1. /\ events # <<>> /\ Head(events).kind # "fail" /\ events' = Tail(events)
          /\ main' \in {"idle", "join"}
        BY <1>8 DEF EndSync, Dump, QueueInv
    <2>2. events' = <<>>
        BY <1>2, <2>1, Taken
    <2>3. PICK w \in Loops : /\ loop[w] \in Dumping \cup {"ending"}
                             /\ \/ loop' = [loop EXCEPT ![w] = "stateVars"]
                                \/ loop' = [loop EXCEPT ![w] = "dumped"]
                                \/ loop' = [loop EXCEPT ![w] = "ended"]
        BY <1>8 DEF EndSync, Dump, Resumes, Dumping
    <2>4. \A v \in Loops \ {w} : loop'[v] = loop[v] /\ loop[v] \notin Busy
        BY <2>3 DEF LoopInv, Busy, Lingering, Places, InLoop, Dumping
    <2>5. \A v \in Loops : loop'[v] \notin Dumping \cup {"ending"}
        BY <2>3, <2>4 DEF Busy, Lingering, Places, InLoop, Dumping
    <2> QED
        BY <2>1, <2>2, <2>5 DEF QueueInv, Awaits
<1> QED
    BY <1>4, <1>5, <1>6, <1>7, <1>8 DEF Carry, HandleEvent

-----------------------------------------------------------------------------
(* The ring. *)

Counting == \E w \in Loops : At(w, "counting")

\* What a step of a trigger thread does to the ring and to the count.
LEMMA Puts ==
    ASSUME NEW w \in Loops, loop \in [Loops -> Places], Loop(w)
    PROVE  \/ At(w, "reading") /\ loop'[w] = "counting" /\ Put("EVENT") /\ emitted' = emitted
           \/ At(w, "scalers") /\ loop'[w] = "runVars" /\ Put("SCALERS") /\ emitted' = emitted
           \/ /\ At(w, "counting") /\ loop'[w] # "counting"
              /\ UNCHANGED ring /\ emitted' = emitted + 1
           \/ /\ ~At(w, "counting") /\ loop'[w] # "counting"
              /\ UNCHANGED ring /\ emitted' = emitted
<1>1. CASE \/ Birth(w) \/ Run(w) \/ Clear(w) \/ PollEvent(w) \/ ReadEvent(w) \/ CountEvent(w)
    BY <1>1 DEF Birth, Run, Clear, PollEvent, ReadEvent, CountEvent
<1>2. CASE \/ PollScaler(w) \/ TriggerScalerReadout(w) \/ AfterScalers(w) \/ While(w)
    BY <1>2 DEF PollScaler, Turn, TriggerScalerReadout, AfterScalers, While
<1>3. CASE \/ ScheduleEndRunBuffer(w) \/ NotRunning(w) \/ NotStopping(w) \/ ReportFail(w)
           \/ Failed(w) \/ Exit(w)
    BY <1>3 DEF ScheduleEndRunBuffer, NotRunning, NotStopping, ReportFail, Failed, Exit
<1> QED
    BY <1>1, <1>2, <1>3 DEF Loop

\* A step of a trigger thread keeps the ring and the count.
LEMMA ShownStep ==
    ASSUME loop \in [Loops -> Places], emitted \in Nat, shown \in Nat, LoopInv, ShownInv,
           NEW w \in Loops, Loop(w)
    PROVE  ShownInv'
<1>1. /\ state' = state /\ main' = main
      /\ \A v \in Loops \ {w} : loop'[v] = loop[v]
    BY Walk
<1>2. ASSUME loop[w] \in {"reading", "scalers", "counting"}
      PROVE  /\ state = "active" \/ main = "wait"
             /\ \A v \in Loops \ {w} : loop[v] # "counting"
             /\ inTurn /\ phase = "taking" /\ ~vain
             /\ shown = IF At(w, "counting") THEN emitted + 1 ELSE emitted
    <2>1. LoopOk(w) /\ \A v \in Loops \ {w} : loop[v] # "counting"
        BY <1>2 DEF LoopInv, Busy, Lingering, Places, InLoop
    <2>2. state = "active" \/ main = "wait"
        BY <1>2, <2>1 DEF LoopOk, Busy, Lingering, Places, InLoop
    <2> QED
        BY <2>1, <2>2 DEF ShownInv, Begun
<1>3. CASE At(w, "reading") /\ loop'[w] = "counting" /\ Put("EVENT") /\ emitted' = emitted
    <2>1. inTurn' /\ phase' = "taking" /\ ~vain' /\ shown' = emitted' + 1 /\ Counting'
        BY <1>2, <1>3 DEF Put, PutItem, Counting
    <2>2. state' = "active" \/ main' = "wait"
        BY <1>1, <1>2, <1>3
    <2> QED
        BY <2>1, <2>2 DEF ShownInv, Counting, Begun
<1>4. CASE At(w, "scalers") /\ loop'[w] = "runVars" /\ Put("SCALERS") /\ emitted' = emitted
    <2>1. inTurn' /\ phase' = "taking" /\ ~vain' /\ shown' = emitted' /\ ~Counting'
        BY <1>1, <1>2, <1>4 DEF Put, PutItem, Counting
    <2>2. state' = "active" \/ main' = "wait"
        BY <1>1, <1>2, <1>4
    <2> QED
        BY <2>1, <2>2 DEF ShownInv, Counting, Begun
<1>5. CASE /\ At(w, "counting") /\ loop'[w] # "counting"
           /\ UNCHANGED ring /\ emitted' = emitted + 1
    <2>1. inTurn' /\ phase' = "taking" /\ ~vain' /\ shown' = emitted' /\ ~Counting'
        BY <1>1, <1>2, <1>5 DEF Counting
    <2>2. state' = "active" \/ main' = "wait"
        BY <1>1, <1>2, <1>5
    <2> QED
        BY <2>1, <2>2 DEF ShownInv, Counting, Begun
<1>6. CASE /\ ~At(w, "counting") /\ loop'[w] # "counting"
           /\ UNCHANGED ring /\ emitted' = emitted
    <2>1. Counting' <=> Counting
        BY <1>1, <1>6 DEF Counting
    <2> QED
        BY <1>1, <1>6, <2>1 DEF ShownInv, Counting
<1> QED
    BY <1>3, <1>4, <1>5, <1>6, Puts

\* A run begins, pauses, resumes and ends in the ring when it does in the program, but
\* for a start that throws behind its item.
LEMMA ShownRest ==
    ASSUME loop \in [Loops -> Places], state \in {"inactive", "paused", "active"},
           main \in MainPlaces \cup Loops, living => tid \in Loops, LoopInv, MainInv, ShownInv,
           Operate \/ Carry \/ HandleEvent \/ UNCHANGED vars
    PROVE  ShownInv'
<1>1. \A w \in Loops : w \notin MainPlaces
    BY Apart
<1>2. CASE /\ state' = state /\ UNCHANGED ring
           /\ emitted' = emitted /\ (Counting' <=> Counting)
           /\ main' \in Begun <=> main \in Begun
    BY <1>2 DEF ShownInv, Counting
<1>3. CASE \/ Operate \/ HandleEvent \/ StopLoop \/ SetStopping \/ SetPausing \/ Join
           \/ UNCHANGED vars
    <2>1. state' = state /\ UNCHANGED ring /\ emitted' = emitted /\ loop' = loop
        BY <1>3 DEF Operate, Begin, Resume, Pause, End, HandleEvent, HandleEndRunEvent,
                    HandleVarTrigger, HandleTriggerLoopError, StopLoop, SetStopping, SetPausing,
                    Join, vars
    <2>2. main' \in Begun <=> main \in Begun
        BY <1>1, <1>3 DEF Operate, Begin, Resume, Pause, End, Stop, HandleEvent, Handle,
                    HandleEndRunEvent, HandleVarTrigger, HandleTriggerLoopError, StopLoop,
                    SetStopping, SetPausing, Join, vars, Begun, MainPlaces
    <2> QED
        BY <1>2, <2>1, <2>2 DEF Counting
<1>4. ASSUME main \in {"item", "start", "spawn", "sync"} PROVE ~Counting
    <2>1. SUFFICES ASSUME NEW w \in Loops, At(w, "counting") PROVE FALSE
        BY DEF Counting
    <2>2. main # "sync" /\ main # "item" /\ main # "start" /\ main # "spawn"
        BY <2>1 DEF LoopInv, LoopOk, MainInv, Begun, Busy, Lingering, Places, InLoop
    <2> QED
        BY <1>4, <2>1, <2>2
<1>5. CASE StartItem
    <2>1. main = "item" /\ state' = state /\ loop' = loop /\ ~Counting /\ ~Counting'
        <3>1. main = "item" /\ state' = state /\ loop' = loop
            BY <1>5 DEF StartItem, StartThrows
        <3> QED
            BY <1>4, <3>1 DEF Counting
    <2>2. /\ inTurn /\ main' \notin Begun \ {"start"}
          /\ \/ /\ op = "begin" /\ state = "inactive"
                /\ phase = IF vain THEN "taking" ELSE "ended"
             \/ /\ op = "resume" /\ state = "paused" /\ shown = emitted
                /\ phase = IF vain THEN "taking" ELSE "paused"
        BY <1>5, <2>1 DEF StartItem, StartThrows, MainInv, ShownInv, Begun, Counting
    <2>3. CASE UNCHANGED <<emitted, ring>> /\ main' = "idle"
        BY <1>2, <2>1, <2>3 DEF Begun
    <2>4. CASE /\ emitted' = (IF op = "begin" THEN 0 ELSE emitted)
               /\ \E inVain \in BOOLEAN :
                      /\ PutItem(IF op = "begin" THEN "BEGIN" ELSE "RESUME", inVain)
                      /\ main' = IF inVain THEN "idle" ELSE "start"
        <3>1. PICK inVain \in BOOLEAN :
                  /\ PutItem(IF op = "begin" THEN "BEGIN" ELSE "RESUME", inVain)
                  /\ main' = IF inVain THEN "idle" ELSE "start"
            BY <2>4
        <3>2. inTurn' /\ phase' = "taking" /\ shown' = emitted' /\ vain' = inVain
            <4>1. CASE op = "begin"
                BY <2>2, <2>4, <3>1, <4>1 DEF PutItem
            <4>2. CASE op = "resume"
                BY <2>2, <2>4, <3>1, <4>2 DEF PutItem
            <4> QED
                BY <2>2, <4>1, <4>2
        <3> QED
            BY <2>1, <2>2, <3>1, <3>2 DEF ShownInv, Begun, Counting
    <2> QED
        BY <1>5, <2>3, <2>4 DEF StartItem, StartThrows
<1>6. CASE StartLoop
    <2>1. /\ main = "start" /\ state' = state /\ loop' = loop /\ emitted' = emitted
          /\ ~Counting /\ ~Counting'
        BY <1>4, <1>6 DEF StartLoop, StartThrows, Counting
    <2>2. CASE main' = "idle" /\ vain' = TRUE /\ UNCHANGED <<shown, phase, inTurn>>
        BY <2>1, <2>2 DEF MainInv, ShownInv, Begun, Counting
    <2>3. CASE ~running /\ main' = "spawn" /\ UNCHANGED ring
        BY <2>1, <2>3 DEF ShownInv, Begun, Counting
    <2> QED
        BY <1>6, <2>2, <2>3 DEF StartLoop, StartThrows
<1>7. CASE Spawn
    <2>1. /\ main = "spawn" /\ main' = "wait" /\ state' = state /\ UNCHANGED ring
          /\ emitted' = emitted
          /\ \E w \in Loops : loop[w] = "none"
        BY <1>7 DEF Spawn
    <2>2. PICK w \in Loops : loop[w] = "none" /\ loop' = [loop EXCEPT ![w] = "born"]
        BY <1>7, <2>1 DEF Spawn
    <2>3. Counting' <=> Counting
        BY <2>2 DEF Counting
    <2> QED
        BY <1>2, <2>1, <2>3 DEF Begun
<1>8. CASE Started
    <2>1. /\ main = "wait" /\ main' = "idle" /\ state' = "active" /\ loop' = loop
          /\ UNCHANGED ring /\ emitted' = emitted
        BY <1>8 DEF Started
    <2> QED
        BY <2>1 DEF ShownInv, Begun, Counting
<1>9. CASE Sync \/ EndSync
    <2>1. /\ main \in {"sync", "endSync"} /\ main' \in {"idle", "join"} /\ SyncEndRun
          /\ emitted' = emitted /\ state \in {"active", "paused"}
          /\ op \in {"pause", "end"} /\ (state = "paused" => op = "end")
        BY <1>9 DEF Sync, EndSync, MainInv
    <2>2. ~Counting /\ ~Counting'
        <3>1. ~Counting
            <4>1. CASE EndSync
                <5>1. PICK w \in Loops : loop[w] = "ending"
                    BY <4>1 DEF EndSync, Resumes
                <5> QED
                    BY <5>1 DEF Counting, LoopInv, Busy, Lingering, Places, InLoop
            <4>2. CASE Sync
                BY <1>4, <4>2 DEF Sync
            <4> QED
                BY <1>9, <4>1, <4>2
        <3>2. loop' = loop \/ \E w \in Loops : loop' = [loop EXCEPT ![w] = "ended"]
            BY <1>9 DEF Sync, EndSync, Resumes
        <3> QED
            BY <3>1, <3>2 DEF Counting
    <2>3. /\ inTurn /\ shown = emitted /\ phase \in {"taking", "paused"}
          /\ (state = "active" => phase = "taking" /\ ~vain)
        BY <2>1, <2>2 DEF ShownInv, Counting, Begun
    <2>4. /\ inTurn' /\ shown' = shown /\ ~vain'
          /\ \/ state' = "paused" /\ phase' = "paused"
             \/ state' = "inactive" /\ phase' = "ended"
        BY <2>1, <2>3 DEF SyncEndRun, Put, PutItem
    <2> QED
        BY <2>1, <2>2, <2>3, <2>4 DEF ShownInv, Counting, Begun
<1>10. CASE Dump
    <2>1. /\ main = "dump" /\ main' = "idle" /\ state' = state /\ emitted' = emitted
          /\ Put("VARIABLES") /\ state = "active"
        BY <1>10 DEF Dump, MainInv
    <2>2. inTurn /\ phase = "taking" /\ ~vain
        BY <2>1 DEF ShownInv
    <2>3. inTurn' /\ phase' = "taking" /\ shown' = shown /\ ~vain'
        BY <2>1, <2>2 DEF Put, PutItem, ShownInv
    <2>4. \E w \in Loops : /\ ~At(w, "counting")
                           /\ \/ loop' = [loop EXCEPT ![w] = "stateVars"]
                              \/ loop' = [loop EXCEPT ![w] = "dumped"]
        BY <1>10 DEF Dump, Resumes
    <2>5. Counting' <=> Counting
        BY <2>4 DEF Counting
    <2> QED
        BY <2>1, <2>3, <2>5 DEF ShownInv, Counting, Begun
<1> QED
    BY <1>3, <1>5, <1>6, <1>7, <1>8, <1>9, <1>10 DEF Carry

-----------------------------------------------------------------------------
(* As long as nothing failed. *)

\* The step of a trigger thread that does not fail.
LEMMA FaultlessWalk ==
    ASSUME loop \in [Loops -> Places], faults \in Nat, NEW w \in Loops, loop[w] \notin Failing,
           Loop(w), faults' = 0
    PROVE  /\ faults = 0 /\ loop'[w] \notin Failing
           /\ \/ events' = events
              \/ \E kind \in {"dump", "end"} : \E pause : Post(kind, pause)
           /\ \/ loop[w] = "born" /\ loop'[w] # "born" /\ living' = TRUE /\ tid' = w
              \/ loop[w] = "exit" /\ loop'[w] = "none" /\ living' = FALSE
              \/ /\ loop[w] \notin {"none", "born", "exit"} /\ loop'[w] \notin {"none", "born"}
                 /\ living' = living /\ tid' = tid
<1> USE DEF Failing
<1>1. CASE Birth(w) \/ Run(w) \/ Clear(w) \/ CountEvent(w)
    BY <1>1 DEF Birth, Run, Clear, CountEvent
<1>2. CASE PollEvent(w) \/ ReadEvent(w)
    <2>1. ~Fault("loop")
        BY DEF Fault
    <2> QED
        BY <1>2, <2>1 DEF PollEvent, ReadEvent
<1>3. CASE \/ PollScaler(w) \/ TriggerScalerReadout(w) \/ AfterScalers(w) \/ While(w)
    BY <1>3 DEF PollScaler, Turn, TriggerScalerReadout, AfterScalers, While
<1>4. CASE \/ ScheduleEndRunBuffer(w) \/ NotRunning(w) \/ NotStopping(w) \/ ReportFail(w)
           \/ Failed(w) \/ Exit(w)
    BY <1>4 DEF ScheduleEndRunBuffer, NotRunning, NotStopping, ReportFail, Failed, Exit
<1> QED
    BY <1>1, <1>2, <1>3, <1>4 DEF Loop

\* Nothing in the queue is about a failure.
Sound == \A i \in 1 .. Len(events) : events[i].kind # "fail"

\* Taking an event out, or queueing one that is not about a failure, keeps it so.
LEMMA StaysSound ==
    ASSUME events \in Seq(Messages), Sound,
           \/ events' = events
           \/ events # <<>> /\ events' = Tail(events)
           \/ \E kind \in {"dump", "end"} : \E pause : Post(kind, pause)
    PROVE  Sound'
<1>1. PICK n \in Nat : n = Len(events)
    OBVIOUS
<1>2. CASE events' = events
    BY <1>2 DEF Sound
<1>3. CASE events # <<>> /\ events' = Tail(events)
    <2>1. /\ Len(events') = n - 1
          /\ \A i \in 1 .. n - 1 : i + 1 \in 1 .. n /\ events'[i] = events[i + 1]
        BY <1>1, <1>3
    <2> QED
        BY <1>1, <2>1 DEF Sound
<1>4. ASSUME NEW kind \in {"dump", "end"}, NEW pause, Post(kind, pause) PROVE Sound'
    <2>1. /\ Len(events') = n + 1 /\ events'[n + 1] = [kind |-> kind, pause |-> pause]
          /\ \A i \in 1 .. n : events'[i] = events[i]
        BY <1>1, <1>4 DEF Post
    <2> QED
        BY <1>1, <1>4, <2>1 DEF Sound
<1> QED
    BY <1>2, <1>3, <1>4

\* A step of a trigger thread that does not fail.
LEMMA FaultlessStep ==
    ASSUME TypeOK, LoopInv, FaultlessInv, NEW w \in Loops, Loop(w)
    PROVE  FaultlessInv'
<1> SUFFICES ASSUME faults' = 0 PROVE FaultlessInv'
    BY DEF FaultlessInv
<1>1. /\ loop \in [Loops -> Places] /\ faults \in Nat /\ events \in Seq(Messages)
      /\ living \in BOOLEAN
    BY Bounds DEF TypeOK
<1>2. faults = 0
    <2>1. faults' = faults \/ faults' = faults + 1
        BY DEF Loop, Birth, Run, Clear, PollEvent, ReadEvent, CountEvent, PollScaler,
               TriggerScalerReadout, AfterScalers, While, ScheduleEndRunBuffer, NotRunning,
               NotStopping, ReportFail, Failed, Exit, Fault
    <2> QED
        BY <1>1, <2>1
<1>3. /\ ~failed /\ Sound
      /\ \A v \in Loops : loop[v] \notin Failing
      /\ \A u, v \in Loops : loop[u] # "none" /\ loop[v] # "none" => u = v
      /\ living => loop[tid] \notin {"none", "born"}
      /\ ~living => \A v \in Loops : loop[v] \in {"none", "born"}
      /\ \A v \in Loops : loop[v] # "none" => state = "active" \/ main \in {"wait", "join", v}
    BY <1>2 DEF FaultlessInv, Sound
<1>4. /\ loop'[w] \notin Failing
      /\ \/ events' = events
         \/ \E kind \in {"dump", "end"} : \E pause : Post(kind, pause)
      /\ \/ loop[w] = "born" /\ loop'[w] # "born" /\ living' = TRUE /\ tid' = w
         \/ loop[w] = "exit" /\ loop'[w] = "none" /\ living' = FALSE
         \/ /\ loop[w] \notin {"none", "born", "exit"} /\ loop'[w] \notin {"none", "born"}
            /\ living' = living /\ tid' = tid
    BY <1>1, <1>3, FaultlessWalk
<1>5. Sound'
    BY <1>1, <1>3, <1>4, StaysSound
<1>6. /\ \A v \in Loops \ {w} : loop'[v] = loop[v]
      /\ state' = state /\ main' = main
    BY <1>1, Walk
<1>7. ~failed'
    <2>1. loop[w] # "failed"
        BY <1>3 DEF Failing
    <2> QED
        BY <1>1, <1>3, <2>1, Walk
<1>8. loop[w] # "none" /\ \A v \in Loops \ {w} : loop'[v] = "none"
    BY <1>3, <1>4, <1>6
<1>9. /\ living' => loop'[tid'] \notin {"none", "born"}
      /\ ~living' => \A v \in Loops : loop'[v] \in {"none", "born"}
    <2>1. CASE loop[w] = "born" /\ loop'[w] # "born" /\ living' = TRUE /\ tid' = w
        <3>1. loop'[w] = "run"
            BY <1>1, <2>1, Walk DEF InLoop
        <3> QED
            BY <2>1, <3>1
    <2>2. CASE loop[w] = "exit" /\ loop'[w] = "none" /\ living' = FALSE
        BY <1>8, <2>2
    <2>3. CASE /\ loop[w] \notin {"none", "born", "exit"} /\ loop'[w] \notin {"none", "born"}
               /\ living' = living /\ tid' = tid
        <3>1. living /\ tid \in Loops /\ loop[tid] # "none"
            BY <1>3, <2>3 DEF TypeOK
        <3>2. tid = w
            BY <1>3, <1>8, <3>1
        <3> QED
            BY <2>3, <3>1, <3>2
    <2> QED
        BY <1>4, <2>1, <2>2, <2>3
<1>10. \A v \in Loops : loop'[v] \notin Failing
    BY <1>3, <1>4, <1>6
<1>11. \A v \in Loops : loop'[v] # "none" => state' = "active" \/ main' \in {"wait", "join", v}
    BY <1>3, <1>6, <1>8
<1> QED
    BY <1>5, <1>7, <1>8, <1>9, <1>10, <1>11 DEF FaultlessInv, Sound

\* Everybody else's steps: the next start finds no thread.
LEMMA FaultlessRest ==
    ASSUME TypeOK, LoopInv, MainInv, QueueInv, FaultlessInv,
           Operate \/ Carry \/ HandleEvent \/ UNCHANGED vars
    PROVE  FaultlessInv'
<1> SUFFICES ASSUME faults' = 0 PROVE FaultlessInv'
    BY DEF FaultlessInv
<1>1. /\ loop \in [Loops -> Places] /\ faults \in Nat /\ events \in Seq(Messages)
      /\ living \in BOOLEAN /\ (living => tid \in Loops)
    BY Bounds DEF TypeOK
<1>2. faults' = faults /\ faults = 0 /\ ~Fault("begin")
    <2>1. ~Fault("begin")
        BY <1>1 DEF Fault
    <2> QED
        BY <2>1 DEF Operate, Begin, Resume, Pause, End, HandleEvent, HandleEndRunEvent,
               HandleVarTrigger, HandleTriggerLoopError, Carry, StartItem, StartLoop, Spawn,
               Started, StopLoop, SetStopping, SetPausing, Sync, EndSync, Join, Dump, vars
<1>3. /\ ~failed /\ Sound
      /\ \A v \in Loops : loop[v] \notin Failing
      /\ \A u, v \in Loops : loop[u] # "none" /\ loop[v] # "none" => u = v
      /\ living => loop[tid] \notin {"none", "born"}
      /\ ~living => \A v \in Loops : loop[v] \in {"none", "born"}
      /\ \A v \in Loops : loop[v] # "none" => state = "active" \/ main \in {"wait", "join", v}
    BY <1>2 DEF FaultlessInv, Sound
<1>4. \A w \in Loops : w \notin MainPlaces
    BY Apart
<1>5. Sound'
    <2>1. events' = events \/ (events # <<>> /\ events' = Tail(events))
        BY DEF QueueInv, Operate, Begin, Resume, Pause, End, HandleEvent, HandleEndRunEvent,
               HandleVarTrigger, HandleTriggerLoopError, Handle, Carry, StartItem, StartLoop,
               Spawn, Started, StopLoop, SetStopping, SetPausing, Sync, EndSync, Join, Dump,
               vars
    <2> QED
        BY <1>1, <1>3, <2>1, StaysSound
<1>6. ~failed' /\ living' = living /\ tid' = tid
    <2>1. CASE StartItem
        BY <1>3, <2>1 DEF StartItem
    <2>2. CASE Operate \/ HandleEvent \/ (Carry /\ ~StartItem) \/ UNCHANGED vars
        BY <1>3, <2>2
           DEF Operate, Begin, Resume, Pause, End, HandleEvent, HandleEndRunEvent,
               HandleVarTrigger, HandleTriggerLoopError, Carry, StartLoop, Spawn, Started,
               StopLoop, SetStopping, SetPausing, Sync, EndSync, Join, Dump, vars
    <2> QED
        BY <2>1, <2>2
<1>7. ~HandleTriggerLoopError
    <2>1. SUFFICES ASSUME events # <<>>, Head(events).kind = "fail" PROVE FALSE
        BY DEF HandleTriggerLoopError, Handle
    <2>2. 1 \in 1 .. Len(events) /\ Head(events) = events[1]
        BY <1>1, <2>1
    <2> QED
        BY <1>3, <2>1, <2>2 DEF Sound
<1>8. CASE /\ loop' = loop
           /\ \A v \in Loops :
                 loop[v] # "none" => state' = "active" \/ main' \in {"wait", "join", v}
    BY <1>3, <1>5, <1>6, <1>8 DEF FaultlessInv, Sound
<1>9. CASE \/ Operate \/ HandleEndRunEvent \/ HandleVarTrigger \/ StartItem \/ StartLoop
           \/ StopLoop \/ SetStopping \/ SetPausing
    <2>1. loop' = loop /\ state' = state
        BY <1>9 DEF Operate, Begin, Resume, Pause, End, HandleEndRunEvent, HandleVarTrigger,
                    StartItem, StartLoop, StopLoop, SetStopping, SetPausing
    <2>2. main \in MainPlaces \ {"wait", "join"}
        BY <1>9 DEF Operate, Begin, Resume, Pause, End, HandleEndRunEvent, HandleVarTrigger,
                    Handle, StartItem, StartThrows, StartLoop, StopLoop, SetStopping,
                    SetPausing, MainPlaces
    <2>3. \A v \in Loops : loop[v] # "none" => state = "active"
        BY <1>3, <1>4, <2>2
    <2> QED
        BY <1>8, <2>1, <2>3
<1>10. CASE Started
    <2>1. loop' = loop /\ state' = "active"
        BY <1>10 DEF Started
    <2> QED
        BY <1>8, <2>1
<1>11. CASE Sync
    <2>1. loop' = loop /\ main = "sync" /\ state # "active"
        BY <1>3, <1>11 DEF Sync, MainInv
    <2>2. \A v \in Loops : loop[v] = "none"
        BY <1>3, <1>4, <2>1 DEF MainPlaces
    <2> QED
        BY <1>8, <2>1, <2>2
<1>12. CASE Join
    <2>1. loop' = loop
        BY <1>12 DEF Join
    <2>2. \A v \in Loops : loop[v] # "none" => main' \in {"wait", "join", v}
        <3>1. SUFFICES ASSUME NEW v \in Loops, loop[v] # "none" PROVE main' = v
            OBVIOUS
        <3>2. state # "active"
            BY <1>12 DEF Join, MainInv
        <3>3. main \in {"join", v}
            BY <1>3, <1>4, <1>12, <3>1, <3>2 DEF Join, MainPlaces
        <3>4. loop[v] # "born"
            BY <1>4, <3>3 DEF LoopInv, LoopOk, MainPlaces
        <3>5. living /\ tid = v
            BY <1>1, <1>3, <3>1, <3>4
        <3> QED
            BY <1>4, <1>12, <3>1, <3>3, <3>5 DEF Join, MainPlaces
    <2> QED
        BY <1>8, <2>1, <2>2
<1>13. CASE UNCHANGED vars
    BY <1>3, <1>8, <1>13 DEF vars
<1>14. CASE Spawn
    <2>1. /\ main = "spawn" /\ main' = "wait" /\ \E w \in Loops : loop[w] = "none"
        BY <1>14 DEF Spawn
    <2>2. PICK w \in Loops : loop[w] = "none" /\ loop' = [loop EXCEPT ![w] = "born"]
        BY <1>14, <2>1 DEF Spawn
    <2>3. state # "active"
        BY <2>1 DEF MainInv, Begun
    <2>4. \A v \in Loops : loop[v] = "none"
        BY <1>3, <1>4, <2>1, <2>3 DEF MainPlaces
    <2>5. ~living
        BY <1>1, <1>3, <2>4
    <2>6. loop'[w] = "born" /\ \A v \in Loops \ {w} : loop'[v] = "none"
        BY <1>1, <2>2, <2>4
    <2> QED
        BY <1>5, <1>6, <2>1, <2>5, <2>6 DEF FaultlessInv, Sound, Failing
<1>15. CASE EndSync \/ Dump
    <2>1. PICK w \in Loops : /\ loop[w] \notin {"none", "born"}
                             /\ \/ loop' = [loop EXCEPT ![w] = "stateVars"]
                                \/ loop' = [loop EXCEPT ![w] = "dumped"]
                                \/ loop' = [loop EXCEPT ![w] = "ended"]
        BY <1>15 DEF EndSync, Dump, Resumes
    <2>2. /\ loop'[w] \notin {"none", "born"} \cup Failing
          /\ \A v \in Loops \ {w} : loop'[v] = loop[v] /\ loop[v] = "none"
        BY <1>1, <1>3, <2>1 DEF Failing
    <2>3. living /\ tid = w
        BY <1>1, <1>3, <2>1
    <2>4. main' = "join" \/ state' = "active"
        BY <1>15 DEF EndSync, Dump, MainInv
    <2> QED
        BY <1>3, <1>5, <1>6, <2>2, <2>3, <2>4 DEF FaultlessInv, Sound
<1> QED
    BY <1>7, <1>9, <1>10, <1>11, <1>12, <1>13, <1>14, <1>15 DEF Carry, HandleEvent

-----------------------------------------------------------------------------
(* The theorems. *)

\* The program starts in the invariant.
LEMMA InitInv == Init => SbsInv
<1> SUFFICES ASSUME Init PROVE SbsInv
    OBVIOUS
<1>1. events = <<>> /\ events \in Seq(Messages) /\ Len(events) = 0
    BY DEF Init
<1>2. loop \in [Loops -> Places] /\ \A w \in Loops : loop[w] = "none"
    BY DEF Init, Places
<1>3. TypeOK
    <2>1. dwell \in [Loops -> 0 .. DwellCount - 1]
        <3>1. 0 \in 0 .. DwellCount - 1
            BY Bounds
        <3> QED
            BY <3>1 DEF Init
    <2>2. /\ faults \in 0 .. MaxFaults /\ starts \in 0 .. MaxStarts
          /\ eventTriggers \in 0 .. MaxEvents /\ scalerTriggers \in 0 .. MaxScalers
        BY Bounds DEF Init
    <2> QED
        BY <1>1, <1>2, <2>1, <2>2 DEF Init, TypeOK, MainPlaces
<1>4. LoopInv
    BY <1>2 DEF Init, LoopInv, LoopOk, Busy, Lingering, HasRun, InLoop
<1>5. MainInv
    BY Apart DEF Init, MainInv, Begun, MainPlaces
<1>6. QueueInv
    BY <1>1, <1>2 DEF Init, QueueInv, Awaits, Dumping
<1>7. ShownInv /\ FaultlessInv
    BY <1>1, <1>2 DEF Init, ShownInv, Begun, FaultlessInv, Failing
<1> QED
    BY <1>3, <1>4, <1>5, <1>6, <1>7 DEF SbsInv

\* Every step keeps it.
LEMMA NextInv == SbsInv /\ [Next]_vars => SbsInv'
<1> SUFFICES ASSUME SbsInv, [Next]_vars PROVE SbsInv'
    OBVIOUS
<1>1. TypeOK /\ LoopInv /\ MainInv /\ QueueInv /\ ShownInv /\ FaultlessInv
    BY DEF SbsInv
<1>2. /\ loop \in [Loops -> Places] /\ events \in Seq(Messages) /\ (living => tid \in Loops)
      /\ emitted \in Nat /\ shown \in Nat /\ state \in {"inactive", "paused", "active"}
      /\ main \in MainPlaces \cup Loops
    BY <1>1 DEF TypeOK
<1>3. TypeOK'
    <2>1. main \in {"endSync", "dump"} => events # <<>>
        BY <1>1 DEF QueueInv
    <2> QED
        BY <1>1, <2>1, TypeNext
<1>4. ASSUME NEW w \in Loops, Loop(w)
      PROVE  LoopInv' /\ MainInv' /\ QueueInv' /\ ShownInv' /\ FaultlessInv'
    <2>1. stopping => main # "wait"
        BY <1>1 DEF MainInv
    <2> QED
        BY <1>1, <1>2, <1>4, <2>1, LoopStep, MainStep, QueueStep, ShownStep, FaultlessStep
<1>5. CASE Operate \/ Carry \/ HandleEvent \/ UNCHANGED vars
    <2>1. LoopInv' /\ MainInv'
        BY <1>1, <1>2, <1>5, LoopRest, MainRest
    <2>2. QueueInv' /\ ShownInv'
        BY <1>1, <1>2, <1>5, QueueRest, ShownRest
    <2>3. FaultlessInv'
        BY <1>1, <1>5, FaultlessRest
    <2> QED
        BY <1>3, <2>1, <2>2, <2>3 DEF SbsInv
<1> QED
    BY <1>3, <1>4, <1>5 DEF Next, SbsInv

\* The inductive invariant holds throughout, for any number of threads and whatever fails:
\* one trigger thread at a time can do anything but end, and where it is, how far the
\* operation is, what is queued for the interpreter and what the ring shows agree.
THEOREM SbsInvariant == Spec => []SbsInv
BY InitInv, NextInv, PTL DEF Spec

\* While the main thread ends a run or dumps variables for a trigger thread, that thread
\* waits for it, and there is no other.
LEMMA Waited ==
    ASSUME SbsInv, main \in {"endSync", "dump"}, NEW w \in Loops, loop[w] \in Busy
    PROVE  loop[w] \in Dumping \cup {"ending"}
<1>1. LoopInv /\ QueueInv /\ events \in Seq(Messages)
    BY DEF SbsInv, TypeOK
<1>2. events # <<>> /\ Head(events).kind \in {"end", "dump"}
    BY <1>1 DEF QueueInv
<1>3. Head(events) = events[1] /\ 1 \in 1 .. Len(events)
    BY <1>1, <1>2
<1>4. Awaits("end") \/ Awaits("dump")
    BY <1>1, <1>2, <1>3 DEF QueueInv, Awaits
<1>5. PICK v \in Loops : loop[v] \in Dumping \cup {"ending"}
    BY <1>1, <1>4 DEF QueueInv
<1>6. v = w
    BY <1>1, <1>5 DEF LoopInv, Busy, Lingering, Places, InLoop, Dumping
<1> QED
    BY <1>5, <1>6

\* No two threads put into the ring at a time, though no lock says so.
THEOREM RingSafe == Spec => []RingSerialized
<1>1. SbsInv => RingSerialized
    <2> SUFFICES ASSUME SbsInv PROVE RingSerialized
        OBVIOUS
    <2>1. LoopInv /\ MainInv
        BY DEF SbsInv
    <2>2. \A v, w \in Loops : v # w /\ loop[v] \in InLoop => loop[w] \notin InLoop
        BY <2>1 DEF LoopInv, Busy, Lingering, Places, InLoop
    <2>3. ASSUME NEW w \in Loops, loop[w] \in Working
          PROVE  main \notin {"item", "sync", "endSync", "dump"}
        <3>1. main \notin {"item", "sync"}
            BY <2>1, <2>3 DEF LoopInv, LoopOk, MainInv, Begun, Busy, Lingering, Places, InLoop,
                              Working
        <3>2. main \notin {"endSync", "dump"}
            BY <2>3, Waited DEF Busy, Lingering, Places, InLoop, Dumping, Working
        <3> QED
            BY <3>1, <3>2
    <2> QED
        BY <2>2, <2>3 DEF RingSerialized
<1> QED
    BY <1>1, SbsInvariant, PTL

\* The ring shows runs that begin, pause, resume and end in turn, with data in between only;
\* but for a start that failed behind its item, which the next start or end follows.
THEOREM ItemsSafe == Spec => []ItemsInTurn
<1>1. SbsInv => ItemsInTurn
    BY DEF SbsInv, ShownInv, ItemsInTurn
<1> QED
    BY <1>1, SbsInvariant, PTL

\* The count items say how many events of the run are in the ring.
THEOREM CountSafe == Spec => []EventsCounted
<1>1. SbsInv => EventsCounted
    <2> SUFFICES ASSUME SbsInv,
                        main \in {"sync", "endSync"} \/ \E w \in Loops : loop[w] = "scalers"
                 PROVE  emitted = shown
        BY DEF EventsCounted
    <2>1. LoopInv /\ MainInv /\ ShownInv
        BY DEF SbsInv
    <2>2. ~Counting
        <3>1. SUFFICES ASSUME NEW v \in Loops, At(v, "counting") PROVE FALSE
            BY DEF Counting
        <3>2. loop[v] \in Busy \ (Dumping \cup {"ending"})
            BY <3>1 DEF Busy, Lingering, Places, InLoop, Dumping
        <3>3. main \notin {"sync", "endSync"}
            BY <2>1, <3>1, <3>2, Waited DEF LoopInv, LoopOk, MainInv, Lingering
        <3>4. PICK w \in Loops : loop[w] = "scalers"
            BY <3>3
        <3> QED
            BY <2>1, <3>1, <3>4 DEF LoopInv, Busy, Lingering, Places, InLoop
    <2>3. state # "inactive" \/ main \in Begun
        <3>1. CASE main \in {"sync", "endSync"}
            BY <2>1, <3>1 DEF MainInv
        <3>2. CASE \E w \in Loops : loop[w] = "scalers"
            BY <2>1, <3>2 DEF LoopInv, LoopOk, Busy, Lingering, Places, InLoop, Begun
        <3> QED
            BY <3>1, <3>2
    <2> QED
        BY <2>1, <2>2, <2>3 DEF ShownInv, Counting
<1> QED
    BY <1>1, SbsInvariant, PTL

\* Between operations the run state is the truth about the trigger threads.
THEOREM StateSafe == Spec => []StateTrue
<1>1. SbsInv => StateTrue
    <2> SUFFICES ASSUME SbsInv, main = "idle" PROVE StateTrue
        BY DEF StateTrue
    <2>1. LoopInv /\ FaultlessInv /\ loop \in [Loops -> Places]
        BY DEF SbsInv, TypeOK
    <2>2. CASE state = "active"
        <3>1. SUFFICES ASSUME NEW w \in Loops, loop[w] \in Busy PROVE StateTrue
            BY <2>1, <2>2 DEF LoopInv, StateTrue
        <3>2. loop[w] \notin {"none", "born", "run", "ended", "notStopping", "exit"}
            BY <2>1, <2>2, <3>1 DEF LoopInv, LoopOk, Busy, Lingering
        <3> QED
            BY <2>2, <3>2 DEF StateTrue
    <2>3. CASE state # "active"
        <3>1. \A w \in Loops : loop[w] \notin InLoop \cup {"schedule", "ending"}
            BY <2>1, <2>3 DEF LoopInv, LoopOk, Busy, Lingering, Places, InLoop
        <3>2. ASSUME faults = 0 PROVE ~running /\ \A w \in Loops : loop[w] = "none"
            <4>1. \A w \in Loops : loop[w] = "none"
                BY <2>1, <2>3, <3>2, Apart DEF FaultlessInv, MainPlaces
            <4> QED
                BY <2>1, <4>1 DEF LoopInv, HasRun, InLoop
        <3> QED
            BY <2>3, <3>1, <3>2 DEF StateTrue
    <2> QED
        BY <2>2, <2>3
<1> QED
    BY <1>1, SbsInvariant, PTL
=================================================================================
