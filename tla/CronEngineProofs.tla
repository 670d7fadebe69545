--------------------------- MODULE CronEngineProofs ---------------------------
(***************************************************************************)
(* Theorems about the cron engine, for every set of engines, workers and   *)
(* jobs, every retry policy and every bound.                               *)
(***************************************************************************)
EXTENDS CronEngineProps, SequenceTheorems, TLAPS

-----------------------------------------------------------------------------
(* The three ways a step may write to the tables.                          *)

\* The other records of the table after a step, and their identity: ids are
\* never reused, and only mark_event and the due time touch an existing row.
KeepsRows ==
    /\ Len(events') >= Len(events)
    /\ \A id \in 1 .. Len(events) :
          /\ events'[id].job = events[id].job
          /\ events'[id].attempt = events[id].attempt
          /\ events'[id].origin = events[id].origin

\* Writing one row to the event table keeps its type and adds one id.
LEMMA CreateEventType ==
    ASSUME TableOK, NEW job \in Jobs, NEW status \in Statuses,
           NEW attempt \in Nat \ {0}, NEW ready \in BOOLEAN,
           NEW origin \in Nat \ {0},
           CreateEvent(job, status, attempt, ready, origin)
    PROVE  /\ TableOK' /\ KeepsRows
           /\ Len(events') = Len(events) + 1
           /\ events'[Len(events) + 1].status = status
           /\ \A id \in 1 .. Len(events) : events'[id] = events[id]
BY DEF TableOK, CreateEvent, EventRecord, KeepsRows

\* A submission creates one row, with attempt 1 and itself as origin.
LEMMA SubmitEventType ==
    ASSUME TableOK, NEW job \in Jobs, NEW status \in Statuses,
           SubmitEvent(job, status)
    PROVE  /\ TableOK' /\ KeepsRows
           /\ Len(events') = Len(events) + 1
           /\ events'[Len(events) + 1].status = status
           /\ \A id \in 1 .. Len(events) : events'[id] = events[id]
<1>1. Len(events) + 1 \in Nat \ {0} /\ 1 \in Nat \ {0} /\ TRUE \in BOOLEAN
  BY DEF TableOK
<1>2. CreateEvent(job, status, 1, TRUE, Len(events) + 1)
  BY DEF SubmitEvent
<1>3. QED
  BY <1>1, <1>2, CreateEventType

\* Replacing the status, or the due flag, of one row.
LEMMA UpdateRowType ==
    ASSUME TableOK, NEW id \in 1 .. Len(events),
           NEW row \in EventRecord,
           row.job = events[id].job, row.attempt = events[id].attempt,
           row.origin = events[id].origin,
           events' = [events EXCEPT ![id] = row],
           UNCHANGED <<runs, starts>>
    PROVE  /\ TableOK' /\ KeepsRows
           /\ Len(events') = Len(events)
           /\ events'[id] = row
           /\ \A k \in 1 .. Len(events) : k # id => events'[k] = events[k]
<1>1. events \in Seq(EventRecord)
  BY DEF TableOK
<1>2. /\ events' \in Seq(EventRecord)
      /\ Len(events') = Len(events)
      /\ \A k \in 1 .. Len(events) : events'[k] = IF k = id THEN row ELSE events[k]
  BY <1>1, ExceptSeq
<1>3. TableOK'
  BY <1>2 DEF TableOK
<1>4. KeepsRows
  BY <1>1, <1>2 DEF KeepsRows
<1>5. QED
  BY <1>2, <1>3, <1>4

\* mark_event changes the status of one row.
LEMMA MarkEventType ==
    ASSUME TableOK, NEW id \in 1 .. Len(events), NEW status \in Statuses,
           MarkEvent(id, status)
    PROVE  /\ TableOK' /\ KeepsRows
           /\ Len(events') = Len(events)
           /\ events'[id].status = status
           /\ \A k \in 1 .. Len(events) : k # id => events'[k] = events[k]
<1> DEFINE row == [events[id] EXCEPT !.status = status]
<1>1. events[id] \in EventRecord
  BY ElementOfSeq DEF TableOK
<1>2. /\ row \in EventRecord /\ row.status = status
      /\ row.job = events[id].job /\ row.attempt = events[id].attempt
      /\ row.origin = events[id].origin
  BY <1>1 DEF EventRecord
<1>3. events' = [events EXCEPT ![id] = row] /\ UNCHANGED <<runs, starts>>
  BY DEF MarkEvent
<1> HIDE DEF row
<1>4. QED
  BY <1>2, <1>3, UpdateRowType

\* record_run adds a run to an existing event.
LEMMA RecordRunType ==
    ASSUME TableOK, NEW id \in 1 .. Len(events), NEW status \in RunStatuses,
           RecordRun(id, status)
    PROVE  TableOK' /\ KeepsRows /\ events' = events
<1>1. runs[id] \in Seq(RunStatuses)
  BY ElementOfSeq DEF TableOK
<1>2. Append(runs[id], status) \in Seq(RunStatuses)
  BY <1>1
<1>3. runs' = [runs EXCEPT ![id] = Append(runs[id], status)]
  BY DEF RecordRun
<1>4. runs' \in Seq(Seq(RunStatuses)) /\ Len(runs') = Len(runs)
  BY <1>2, <1>3, ExceptSeq DEF TableOK
<1>5. events' = events /\ starts' = starts
  BY DEF RecordRun
<1>6. QED
  BY <1>4, <1>5 DEF TableOK, KeepsRows

-----------------------------------------------------------------------------
(* Type correctness.                                                       *)

\* A database call that writes nothing.
LEMMA SameTable ==
    ASSUME TableOK, UNCHANGED table
    PROVE  TableOK' /\ KeepsRows /\ events' = events
BY DEF TableOK, table, KeepsRows

\* The table only grows, so that what a process remembers of it stays valid.
Grows == TableOK /\ TableOK' /\ Len(events') >= Len(events) /\ KeepsRows

SlotRecord == [at : Points, ev : Nat]

\* A slot that holds no event, or one of the first n.
SlotOK(s, n) ==
    IF s.at \in {"exited", "waiting"} THEN s.ev = 0 ELSE s.ev \in 1 .. n

\* TypeOK by variable: the worker slots, the queues, the rest of the memory.
SlotsOK ==
    /\ slot \in [Engines -> [Workers -> SlotRecord]]
    /\ \A f \in Engines, v \in Workers : SlotOK(slot[f][v], Len(events))

QueuesOK ==
    /\ queue \in [Engines -> Seq(Nat)]
    /\ \A f \in Engines : \A i \in 1 .. Len(queue[f]) : queue[f][i] \in 1 .. Len(events)

SetsOK ==
    /\ mode \in [Engines -> Modes]
    /\ running \in [Engines -> SUBSET Jobs]
    /\ poller \in [Engines -> BOOLEAN]
    /\ batch \in [Engines -> SUBSET Nat]
    /\ \A f \in Engines : batch[f] \subseteq 1 .. Len(events)
    /\ threads \in [Engines -> SUBSET Nat]
    /\ \A f \in Engines : threads[f] \subseteq 1 .. Len(events)
    /\ outages \in 0 .. MaxOutages /\ faults \in 0 .. MaxFaults

LEMMA TypeParts == TypeOK <=> TableOK /\ SlotsOK /\ QueuesOK /\ SetsOK
<1>1. TypeOK => TableOK /\ SlotsOK /\ QueuesOK /\ SetsOK
  BY DEF TypeOK, MemoryOK, HeldOK, SlotsOK, SlotOK, SlotRecord, QueuesOK, SetsOK
<1>2. TableOK /\ SlotsOK /\ QueuesOK /\ SetsOK => TypeOK
  BY DEF TypeOK, MemoryOK, HeldOK, SlotsOK, SlotOK, SlotRecord, QueuesOK, SetsOK
<1>3. QED
  BY <1>1, <1>2

LEMMA TypePartsNext ==
    Grows /\ SlotsOK' /\ QueuesOK' /\ SetsOK' => TypeOK' /\ KeepsRows
BY DEF Grows, TypeOK, MemoryOK, HeldOK, SlotsOK, SlotOK, SlotRecord, QueuesOK, SetsOK

\* Assigning one worker's slot.
LEMMA AssignSlot ==
    ASSUME SlotsOK, Grows,
           NEW e \in Engines, NEW w \in Workers, NEW s \in SlotRecord,
           SlotOK(s, Len(events')), slot' = [slot EXCEPT ![e][w] = s]
    PROVE  /\ SlotsOK'
           /\ \A f \in Engines, v \in Workers :
                 slot'[f][v] = IF f = e /\ v = w THEN s ELSE slot[f][v]
<1>1. slot \in [Engines -> [Workers -> SlotRecord]]
  BY DEF SlotsOK
<1>2. [slot[e] EXCEPT ![w] = s] \in [Workers -> SlotRecord]
  BY <1>1
<1>3. slot' = [slot EXCEPT ![e] = [slot[e] EXCEPT ![w] = s]]
  OBVIOUS
<1>4. /\ slot' \in [Engines -> [Workers -> SlotRecord]]
      /\ \A f \in Engines, v \in Workers :
            slot'[f][v] = IF f = e /\ v = w THEN s ELSE slot[f][v]
  BY <1>1, <1>2, <1>3
<1>5. ASSUME NEW f \in Engines, NEW v \in Workers
      PROVE  SlotOK(slot'[f][v], Len(events'))
  <2>1. CASE f = e /\ v = w
    BY <2>1, <1>4 DEF SlotOK
  <2>2. CASE ~(f = e /\ v = w)
    <3>1. slot'[f][v] = slot[f][v] /\ SlotOK(slot[f][v], Len(events))
      BY <2>2, <1>4 DEF SlotsOK
    <3>2. QED
      BY SMTT(60), <3>1 DEF SlotOK, Grows, TableOK
  <2>3. QED
    BY <2>1, <2>2
<1>6. QED
  BY <1>4, <1>5 DEF SlotsOK

\* _execute_event moves on within one event.
LEMMA GotoType ==
    ASSUME SlotsOK, Grows, NEW e \in Engines, NEW w \in Workers,
           slot[e][w].at \notin {"exited", "waiting"},
           NEW at \in Points \ {"exited", "waiting"}, Goto(e, w, at)
    PROVE  /\ SlotsOK'
           /\ \A f \in Engines, v \in Workers :
                 slot'[f][v] = IF f = e /\ v = w THEN [at |-> at, ev |-> slot[e][w].ev]
                               ELSE slot[f][v]
<1> DEFINE s == [at |-> at, ev |-> slot[e][w].ev]
<1>1. slot[e][w] \in SlotRecord /\ SlotOK(slot[e][w], Len(events))
  BY DEF SlotsOK
<1>2. s \in SlotRecord /\ s = [slot[e][w] EXCEPT !.at = at]
  BY <1>1 DEF SlotRecord
<1>3. SlotOK(s, Len(events'))
  BY <1>1 DEF SlotOK, Grows, TableOK
<1>4. slot' = [slot EXCEPT ![e][w] = s]
  BY <1>2 DEF Goto
<1> HIDE DEF s
<1>5. /\ SlotsOK'
      /\ \A f \in Engines, v \in Workers :
            slot'[f][v] = IF f = e /\ v = w THEN s ELSE slot[f][v]
  BY <1>2, <1>3, <1>4, AssignSlot
<1>6. QED
  BY <1>5 DEF s

\* A slot that holds nothing is fine whatever the table.
LEMMA IdleType ==
    ASSUME NEW at \in {"exited", "waiting"}, NEW n
    PROVE  Idle(at) \in SlotRecord /\ SlotOK(Idle(at), n)
BY DEF Idle, SlotRecord, SlotOK, Points

\* The worker task lets go of its event, or ends.
LEMMA LeaveType ==
    ASSUME SlotsOK, SetsOK, Grows, NEW e \in Engines, NEW w \in Workers,
           NEW at \in {"exited", "waiting"}, Leave(e, w, at)
    PROVE  /\ SlotsOK' /\ mode' \in [Engines -> Modes]
           /\ \A f \in Engines, v \in Workers :
                 slot'[f][v] = IF f = e /\ v = w THEN Idle(at) ELSE slot[f][v]
<1>1. Idle(at) \in SlotRecord /\ SlotOK(Idle(at), Len(events'))
  BY IdleType
<1>2. slot' = [slot EXCEPT ![e][w] = Idle(at)]
  BY DEF Leave
<1>3. mode' \in [Engines -> Modes]
  BY DEF Leave, SetsOK, Modes
<1>4. QED
  BY <1>1, <1>2, <1>3, AssignSlot

\* What an action leaves alone stays well typed over a growing table.
LEMMA SameSlots == SlotsOK /\ Grows /\ slot' = slot => SlotsOK'
BY DEF SlotsOK, SlotOK, Grows, TableOK

LEMMA SameQueues == QueuesOK /\ Grows /\ queue' = queue => QueuesOK'
BY DEF QueuesOK, Grows, TableOK

\* put on the unbounded queue.
LEMMA PutType ==
    ASSUME QueuesOK, Grows, NEW e \in Engines, NEW id \in 1 .. Len(events'),
           queue' = [queue EXCEPT ![e] = Append(@, id)]
    PROVE  QueuesOK'
BY SMTT(60) DEF QueuesOK, Grows, TableOK

\* A process that ends, by whatever means, forgets everything.
LEMMA LoseMemoryType ==
    ASSUME SlotsOK, QueuesOK, SetsOK, Grows, NEW e \in Engines, LoseMemory(e)
    PROVE  /\ SlotsOK' /\ QueuesOK'
           /\ running' \in [Engines -> SUBSET Jobs]
           /\ poller' \in [Engines -> BOOLEAN]
           /\ batch' \in [Engines -> SUBSET Nat]
           /\ \A f \in Engines : batch'[f] \subseteq 1 .. Len(events')
<1>1. [w \in Workers |-> Idle("exited")] \in [Workers -> SlotRecord]
  BY IdleType
<1>2. slot' = [slot EXCEPT ![e] = [w \in Workers |-> Idle("exited")]]
  BY DEF LoseMemory
<1>3. /\ slot' \in [Engines -> [Workers -> SlotRecord]]
      /\ \A f \in Engines, v \in Workers :
            slot'[f][v] = IF f = e THEN Idle("exited") ELSE slot[f][v]
  BY <1>1, <1>2 DEF SlotsOK
<1>4. ASSUME NEW f \in Engines, NEW v \in Workers
      PROVE  SlotOK(slot'[f][v], Len(events'))
  <2>1. CASE f = e
    BY <2>1, <1>3, IdleType
  <2>2. CASE f # e
    <3>1. slot'[f][v] = slot[f][v] /\ SlotOK(slot[f][v], Len(events))
      BY <2>2, <1>3 DEF SlotsOK
    <3>2. QED
      BY <3>1 DEF SlotOK, Grows, TableOK
  <2>3. QED
    BY <2>1, <2>2
<1>5. SlotsOK'
  BY <1>3, <1>4 DEF SlotsOK
<1>6. QueuesOK'
  <2>1. /\ queue' \in [Engines -> Seq(Nat)]
        /\ \A f \in Engines : queue'[f] = IF f = e THEN <<>> ELSE queue[f]
    <3>1. <<>> \in Seq(Nat)
      BY EmptySeq
    <3>2. queue' = [queue EXCEPT ![e] = <<>>] /\ queue \in [Engines -> Seq(Nat)]
      BY DEF LoseMemory, QueuesOK
    <3>3. QED
      BY <3>1, <3>2
  <2>2. QED
    BY <2>1 DEF QueuesOK, Grows, TableOK
<1>7. running' \in [Engines -> SUBSET Jobs] /\ poller' \in [Engines -> BOOLEAN]
  BY DEF SetsOK, LoseMemory
<1>8. /\ batch' \in [Engines -> SUBSET Nat]
      /\ \A f \in Engines : batch'[f] \subseteq 1 .. Len(events')
  BY SMTT(60) DEF SetsOK, LoseMemory, Grows, TableOK
<1>9. QED
  BY <1>5, <1>6, <1>7, <1>8

-----------------------------------------------------------------------------
(* Type correctness, action by action.                                     *)

LEMMA TypeInit == Init => TypeOK
<1> SUFFICES ASSUME Init PROVE TypeOK
  OBVIOUS
<1>1. TableOK
  BY EmptySeq DEF Init, TableOK
<1>2. SlotsOK
  <2>1. [w \in Workers |-> Idle("exited")] \in [Workers -> SlotRecord]
    BY IdleType
  <2>2. QED
    BY <2>1, IdleType DEF Init, SlotsOK
<1>3. QueuesOK
  BY EmptySeq DEF Init, QueuesOK
<1>4. SetsOK
  BY EngineAssumption DEF Init, SetsOK, Modes
<1>5. QED
  BY <1>1, <1>2, <1>3, <1>4, TypeParts

\* A step that leaves the tables alone, and the sets well typed.
LEMMA QuietTable ==
    ASSUME TypeOK, UNCHANGED table
    PROVE  Grows /\ TableOK' /\ SlotsOK /\ QueuesOK /\ SetsOK
BY SameTable, TypeParts DEF Grows, KeepsRows

LEMMA LifecycleType ==
    ASSUME TypeOK, NEW e \in Engines,
           Start(e) \/ Stop(e) \/ Shutdown(e) \/ ProcessExit(e) \/ Crash(e)
    PROVE  TypeOK' /\ KeepsRows
<1>1. CASE Start(e)
  <2>1. Grows /\ TableOK' /\ SlotsOK /\ QueuesOK /\ SetsOK
    BY <1>1, QuietTable DEF Start
  <2>2. SlotsOK'
    <3>1. [w \in Workers |-> Idle("waiting")] \in [Workers -> SlotRecord]
      BY IdleType
    <3>2. /\ slot' \in [Engines -> [Workers -> SlotRecord]]
          /\ \A f \in Engines, v \in Workers :
                slot'[f][v] = IF f = e THEN Idle("waiting") ELSE slot[f][v]
      BY <1>1, <2>1, <3>1 DEF Start, SlotsOK
    <3>3. ASSUME NEW f \in Engines, NEW v \in Workers
          PROVE  SlotOK(slot'[f][v], Len(events'))
      <4>1. CASE f = e
        BY <4>1, <3>2, IdleType
      <4>2. CASE f # e
        <5>1. slot'[f][v] = slot[f][v] /\ SlotOK(slot[f][v], Len(events))
          BY <4>2, <2>1, <3>2 DEF SlotsOK
        <5>2. QED
          BY <2>1, <5>1 DEF SlotOK, Grows, TableOK
      <4>3. QED
        BY <4>1, <4>2
    <3>4. QED
      BY <3>2, <3>3 DEF SlotsOK
  <2>3. QueuesOK'
    BY <1>1, <2>1, SameQueues DEF Start
  <2>4. SetsOK'
    BY <1>1, <2>1 DEF Start, SetsOK, Modes, table
  <2>5. QED
    BY <2>1, <2>2, <2>3, <2>4, TypePartsNext
<1>2. CASE Stop(e)
  <2>1. Grows /\ TableOK' /\ SlotsOK /\ QueuesOK /\ SetsOK
    BY <1>2, QuietTable DEF Stop
  <2>2. SetsOK'
    BY <1>2, <2>1, EngineAssumption DEF Stop, SetsOK, Grows, TableOK, Modes
  <2>3. QED
    BY <1>2, <2>1, <2>2, SameSlots, SameQueues, TypePartsNext DEF Stop
<1>3. CASE Shutdown(e)
  <2>1. Grows /\ TableOK' /\ SlotsOK /\ QueuesOK /\ SetsOK
    BY <1>3, QuietTable DEF Shutdown
  <2>2. AtHandler(e) \subseteq 1 .. Len(events)
    BY <2>1 DEF AtHandler, SlotsOK, SlotOK
  <2>3. /\ threads' \in [Engines -> SUBSET Nat]
        /\ \A f \in Engines : threads'[f] \subseteq 1 .. Len(events')
    BY <1>3, <2>1, <2>2 DEF Shutdown, SetsOK, Grows, TableOK
  <2>4. /\ SlotsOK' /\ QueuesOK'
        /\ running' \in [Engines -> SUBSET Jobs]
        /\ poller' \in [Engines -> BOOLEAN]
        /\ batch' \in [Engines -> SUBSET Nat]
        /\ \A f \in Engines : batch'[f] \subseteq 1 .. Len(events')
    BY <1>3, <2>1, LoseMemoryType DEF Shutdown
  <2>5. SetsOK'
    BY <1>3, <2>1, <2>3, <2>4 DEF Shutdown, SetsOK, Modes
  <2>6. QED
    BY <2>1, <2>4, <2>5, TypePartsNext
<1>4. CASE ProcessExit(e)
  <2>1. Grows /\ TableOK' /\ SlotsOK /\ QueuesOK /\ SetsOK
    BY <1>4, QuietTable DEF ProcessExit
  <2>2. /\ SlotsOK' /\ QueuesOK'
        /\ running' \in [Engines -> SUBSET Jobs]
        /\ poller' \in [Engines -> BOOLEAN]
        /\ batch' \in [Engines -> SUBSET Nat]
        /\ \A f \in Engines : batch'[f] \subseteq 1 .. Len(events')
    BY <1>4, <2>1, LoseMemoryType DEF ProcessExit
  <2>3. SetsOK'
    BY <1>4, <2>1, <2>2 DEF ProcessExit, SetsOK, Modes, Grows, TableOK
  <2>4. QED
    BY <2>1, <2>2, <2>3, TypePartsNext
<1>5. CASE Crash(e)
  <2>1. Grows /\ TableOK' /\ SlotsOK /\ QueuesOK /\ SetsOK
    BY <1>5, QuietTable DEF Crash
  <2>2. /\ SlotsOK' /\ QueuesOK'
        /\ running' \in [Engines -> SUBSET Jobs]
        /\ poller' \in [Engines -> BOOLEAN]
        /\ batch' \in [Engines -> SUBSET Nat]
        /\ \A f \in Engines : batch'[f] \subseteq 1 .. Len(events')
    BY <1>5, <2>1, LoseMemoryType DEF Crash
  <2>3. SetsOK'
    BY <1>5, <2>1, <2>2, EngineAssumption DEF Crash, SetsOK, Modes, Grows, TableOK
  <2>4. QED
    BY <2>1, <2>2, <2>3, TypePartsNext
<1>6. QED
  BY <1>1, <1>2, <1>3, <1>4, <1>5

LEMMA SourceType ==
    ASSUME TypeOK,
           \/ \E job \in Jobs : Trigger(job)
           \/ \E id \in Ids : BackoffElapses(id)
           \/ \E e \in Engines, job \in Jobs : Enqueue(e, job)
           \/ \E e \in Engines, w \in Workers, job \in Jobs : RunOnce(e, w, job)
    PROVE  TypeOK' /\ KeepsRows
<1> USE DEF Ids
<1>0. TableOK /\ SlotsOK /\ QueuesOK /\ SetsOK
  BY TypeParts
<1>1. ASSUME NEW job \in Jobs, Trigger(job)
      PROVE  TypeOK' /\ KeepsRows
  <2>1. "pending" \in Statuses /\ SubmitEvent(job, "pending")
    BY <1>1 DEF Trigger, Statuses
  <2>2. Grows
    BY <1>0, <2>1, SubmitEventType DEF Grows, KeepsRows
  <2>3. SetsOK'
    BY <1>0, <1>1, <2>2 DEF Trigger, SetsOK, Grows, TableOK
  <2>4. QED
    BY <1>0, <1>1, <2>2, <2>3, SameSlots, SameQueues, TypePartsNext DEF Trigger, Grows
<1>2. ASSUME NEW id \in Ids, BackoffElapses(id)
      PROVE  TypeOK' /\ KeepsRows
  <2> DEFINE row == [events[id] EXCEPT !.ready = TRUE]
  <2>1. id \in 1 .. Len(events) /\ events[id] \in EventRecord
    BY <1>0, ElementOfSeq DEF TableOK
  <2>2. /\ row \in EventRecord
        /\ row.job = events[id].job /\ row.attempt = events[id].attempt
        /\ row.origin = events[id].origin
    BY <2>1 DEF EventRecord
  <2>3. events' = [events EXCEPT ![id] = row] /\ UNCHANGED <<runs, starts>>
    BY <1>2 DEF BackoffElapses
  <2> HIDE DEF row
  <2>4. Grows
    BY <1>0, <2>1, <2>2, <2>3, UpdateRowType DEF Grows, KeepsRows
  <2>5. SetsOK'
    BY <1>0, <1>2, <2>4 DEF BackoffElapses, SetsOK, Grows, TableOK
  <2>6. QED
    BY <1>0, <1>2, <2>4, <2>5, SameSlots, SameQueues, TypePartsNext
       DEF BackoffElapses, Grows
<1>3. ASSUME NEW e \in Engines, NEW job \in Jobs, Enqueue(e, job)
      PROVE  TypeOK' /\ KeepsRows
  <2>1. "queued" \in Statuses /\ SubmitEvent(job, "queued")
    BY <1>3 DEF Enqueue, Statuses
  <2>2. Grows /\ Len(events') = Len(events) + 1
    BY <1>0, <2>1, SubmitEventType DEF Grows, KeepsRows
  <2>3. Len(events) + 1 \in 1 .. Len(events')
    BY <2>2 DEF Grows, TableOK
  <2>4. QueuesOK'
    BY <1>0, <1>3, <2>2, <2>3, PutType DEF Enqueue
  <2>5. SetsOK'
    BY SMTT(60), <1>0, <1>3, <2>2 DEF Enqueue, SetsOK, Grows, TableOK
  <2>6. QED
    BY <1>0, <1>3, <2>2, <2>4, <2>5, SameSlots, TypePartsNext DEF Enqueue, Grows
<1>4. ASSUME NEW e \in Engines, NEW w \in Workers, NEW job \in Jobs, RunOnce(e, w, job)
      PROVE  TypeOK' /\ KeepsRows
  <2>1. "queued" \in Statuses /\ SubmitEvent(job, "queued")
    BY <1>4 DEF RunOnce, Statuses
  <2>2. Grows /\ Len(events') = Len(events) + 1
    BY <1>0, <2>1, SubmitEventType DEF Grows, KeepsRows
  <2>3. QueuesOK'
    <3>1. <<Len(events) + 1>> \in Seq(Nat) /\ Len(events) + 1 \in 1 .. Len(events')
      BY <2>2 DEF Grows, TableOK
    <3>2. /\ queue' \in [Engines -> Seq(Nat)]
          /\ \A f \in Engines :
                queue'[f] = IF f = e THEN <<Len(events) + 1>> ELSE queue[f]
      BY <1>0, <1>4, <3>1 DEF RunOnce, QueuesOK
    <3>3. QED
      <4>1. ASSUME NEW f \in Engines, NEW i \in 1 .. Len(queue'[f])
            PROVE  queue'[f][i] \in 1 .. Len(events')
        <5>1. CASE f = e
          BY <5>1, <3>1, <3>2
        <5>2. CASE f # e
          BY SMTT(60), <5>2, <1>0, <2>2, <3>2 DEF QueuesOK, Grows, TableOK
        <5>3. QED
          BY <5>1, <5>2
      <4>2. QED
        BY <3>2, <4>1 DEF QueuesOK
  <2>4. SlotsOK'
    BY <1>0, <1>4, <2>2, IdleType, AssignSlot DEF RunOnce
  <2>5. SetsOK'
    BY SMTT(60), <1>0, <1>4, <2>2 DEF RunOnce, SetsOK, Grows, TableOK, Modes
  <2>6. QED
    BY <2>2, <2>3, <2>4, <2>5, TypePartsNext DEF Grows
<1>5. QED
  BY <1>1, <1>2, <1>3, <1>4

LEMMA PollerType ==
    ASSUME TypeOK, NEW e \in Engines,
           Poll(e) \/ TakePending(e) \/ PollerFails(e)
    PROVE  TypeOK' /\ KeepsRows
<1>0. TableOK /\ SlotsOK /\ QueuesOK /\ SetsOK
  BY TypeParts
<1>1. CASE Poll(e)
  <2>1. Grows
    BY <1>1, QuietTable DEF Poll
  <2>2. {id \in Window : events[id].ready} \subseteq 1 .. Len(events)
    BY <1>0 DEF Window, PendingIds, Ids, TableOK
  <2>3. SetsOK'
    <3> DEFINE due == {id \in Window : events[id].ready}
    <3>1. batch' = [batch EXCEPT ![e] = due] /\ Len(events') = Len(events)
      BY <1>1 DEF Poll, table
    <3>2. due \subseteq 1 .. Len(events) /\ due \subseteq Nat
      BY <2>2
    <3> HIDE DEF due
    <3>3. /\ batch' \in [Engines -> SUBSET Nat]
          /\ \A f \in Engines : batch'[f] \subseteq 1 .. Len(events')
      BY <1>0, <3>1, <3>2 DEF SetsOK
    <3>4. QED
      BY <1>0, <1>1, <3>1, <3>3 DEF Poll, SetsOK
  <2>4. QED
    BY <1>0, <1>1, <2>1, <2>3, SameSlots, SameQueues, TypePartsNext DEF Poll, Grows
<1>2. CASE TakePending(e)
  <2>1. PICK id \in batch[e] :
            /\ MarkEvent(id, "queued")
            /\ queue' = [queue EXCEPT ![e] = Append(@, id)]
            /\ batch' = [batch EXCEPT ![e] = @ \ {id}]
            /\ UNCHANGED <<mode, running, poller, slot, threads, outages, faults>>
    BY <1>2 DEF TakePending
  <2>2. id \in 1 .. Len(events) /\ "queued" \in Statuses
    BY <1>0 DEF SetsOK, Statuses
  <2>3. Grows /\ Len(events') = Len(events)
    BY <1>0, <2>1, <2>2, MarkEventType DEF Grows, KeepsRows
  <2>4. QueuesOK'
    BY <1>0, <2>1, <2>2, <2>3, PutType
  <2>5. SetsOK'
    BY <1>0, <2>1, <2>3 DEF SetsOK, Grows, TableOK
  <2>6. QED
    BY <1>0, <2>1, <2>3, <2>4, <2>5, SameSlots, TypePartsNext DEF Grows
<1>3. CASE PollerFails(e)
  <2>1. Grows
    BY <1>3, QuietTable DEF PollerFails
  <2>2. SetsOK'
    BY <1>0, <1>3, <2>1, EngineAssumption DEF PollerFails, SetsOK, Grows, TableOK
  <2>3. QED
    BY <1>0, <1>3, <2>1, <2>2, SameSlots, SameQueues, TypePartsNext DEF PollerFails, Grows
<1>4. QED
  BY <1>1, <1>2, <1>3

LEMMA ThreadEndsType ==
    ASSUME TypeOK, NEW e \in Engines, NEW id \in threads[e], ThreadEnds(e, id)
    PROVE  TypeOK' /\ KeepsRows
<1>0. TableOK /\ SlotsOK /\ QueuesOK /\ SetsOK
  BY TypeParts
<1>1. Grows
  BY QuietTable DEF ThreadEnds
<1>2. SetsOK'
  <2>1. threads' = [threads EXCEPT ![e] = @ \ {id}] /\ Len(events') = Len(events)
    BY DEF ThreadEnds, table
  <2>2. /\ threads' \in [Engines -> SUBSET Nat]
        /\ \A f \in Engines : threads'[f] \subseteq 1 .. Len(events')
    BY <1>0, <2>1 DEF SetsOK
  <2>3. QED
    BY <1>0, <2>1, <2>2 DEF ThreadEnds, SetsOK
<1>3. QED
  BY <1>0, <1>1, <1>2, SameSlots, SameQueues, TypePartsNext DEF ThreadEnds, Grows

\* Between two awaits a worker executes the event in its slot.
LEMMA BusySlot ==
    ASSUME TypeOK, NEW e \in Engines, NEW w \in Workers,
           slot[e][w].at \notin {"exited", "waiting"}
    PROVE  /\ slot[e][w].ev \in 1 .. Len(events)
           /\ events[slot[e][w].ev] \in EventRecord
<1>1. TableOK /\ SlotsOK
  BY TypeParts
<1>2. slot[e][w].ev \in 1 .. Len(events)
  BY <1>1 DEF SlotsOK, SlotOK
<1>3. QED
  BY <1>1, <1>2, ElementOfSeq DEF TableOK

LEMMA DequeueType ==
    ASSUME TypeOK, NEW e \in Engines, NEW w \in Workers, Dequeue(e, w)
    PROVE  TypeOK' /\ KeepsRows
<1> DEFINE id == Head(queue[e])
           at == Admission(e, events[id].job)
           s == [at |-> at, ev |-> id]
<1>0. TableOK /\ SlotsOK /\ QueuesOK /\ SetsOK
  BY TypeParts
<1>1. queue[e] \in Seq(Nat) /\ queue[e] # <<>>
  BY <1>0 DEF Dequeue, QueuesOK
<1>2. /\ id \in 1 .. Len(events) /\ id \in Nat
      /\ Tail(queue[e]) \in Seq(Nat)
      /\ \A i \in 1 .. Len(Tail(queue[e])) : Tail(queue[e])[i] \in 1 .. Len(events)
  <2>1. id = queue[e][1] /\ Len(queue[e]) \in Nat \ {0}
    BY <1>1
  <2>2. \A i \in 1 .. Len(queue[e]) : queue[e][i] \in 1 .. Len(events)
    BY <1>0 DEF QueuesOK
  <2>3. /\ Tail(queue[e]) \in Seq(Nat)
        /\ Len(Tail(queue[e])) = Len(queue[e]) - 1
        /\ \A i \in 1 .. Len(Tail(queue[e])) : Tail(queue[e])[i] = queue[e][i + 1]
    BY <1>1
  <2>4. QED
    BY <1>0, <2>1, <2>2, <2>3 DEF TableOK
<1>3. events[id] \in EventRecord /\ events[id].job \in Jobs
  <2> HIDE DEF id
  <2>1. events[id] \in EventRecord
    BY <1>0, <1>2, ElementOfSeq DEF TableOK
  <2>2. QED
    BY <2>1 DEF EventRecord
<1>4. at \in {"mark_rejected", "mark_overlap", "handler"}
  BY DEF Admission
<1>5. /\ slot' = [slot EXCEPT ![e][w] = s]
      /\ running' = [running EXCEPT ![e] =
                        IF at = "handler" THEN @ \cup {events[id].job} ELSE @]
      /\ starts' = [starts EXCEPT ![id] = IF at = "handler" THEN @ + 1 ELSE @]
      /\ queue' = [queue EXCEPT ![e] = Tail(@)]
      /\ UNCHANGED <<events, runs, mode, poller, batch, threads, outages, faults>>
  BY DEF Dequeue
<1> HIDE DEF at, s
<1>6. Grows
  <2>1. starts' \in Seq(Nat) /\ Len(starts') = Len(starts)
    <3>1. starts[id] \in Nat
      BY <1>0, <1>2, ElementOfSeq DEF TableOK
    <3>2. (IF at = "handler" THEN starts[id] + 1 ELSE starts[id]) \in Nat
      BY <3>1
    <3>3. QED
      BY <1>0, <1>2, <1>5, <3>2, ExceptSeq DEF TableOK
  <2>2. QED
    BY <1>0, <1>5, <2>1 DEF Grows, TableOK, KeepsRows
<1>7. s \in SlotRecord /\ SlotOK(s, Len(events'))
  BY <1>2, <1>4, <1>5 DEF s, SlotRecord, SlotOK, Points, Writing, InFlight
<1>8. SlotsOK'
  BY <1>0, <1>5, <1>6, <1>7, AssignSlot
<1>9. QueuesOK'
  <2>1. /\ queue' \in [Engines -> Seq(Nat)]
        /\ \A f \in Engines : queue'[f] = IF f = e THEN Tail(queue[e]) ELSE queue[f]
    BY <1>0, <1>2, <1>5 DEF QueuesOK
  <2>2. ASSUME NEW f \in Engines, NEW i \in 1 .. Len(queue'[f])
        PROVE  queue'[f][i] \in 1 .. Len(events')
    <3>1. CASE f = e
      BY <3>1, <1>2, <1>5, <2>1
    <3>2. CASE f # e
      BY <3>2, <1>0, <1>5, <2>1 DEF QueuesOK
    <3>3. QED
      BY <3>1, <3>2
  <2>3. QED
    BY <2>1, <2>2 DEF QueuesOK
<1>10. SetsOK'
  <2>1. running' \in [Engines -> SUBSET Jobs]
    BY <1>0, <1>3, <1>5 DEF SetsOK
  <2>2. QED
    BY <1>0, <1>5, <2>1 DEF SetsOK
<1>11. QED
  BY <1>6, <1>8, <1>9, <1>10, TypePartsNext DEF Grows

\* The steps of _execute_event around its one await write to no table, and
\* only a timeout leaves a thread behind.
LEMMA AwaitType ==
    ASSUME TypeOK, NEW e \in Engines, NEW w \in Workers,
           HandlerReturns(e, w) \/ HandlerRaises(e, w) \/ HandlerTimesOut(e, w)
    PROVE  TypeOK' /\ KeepsRows
<1>0. TableOK /\ SlotsOK /\ QueuesOK /\ SetsOK
  BY TypeParts
<1>1. /\ slot[e][w].at = "handler"
      /\ Goto(e, w, "mark_processed") \/ Goto(e, w, FailurePoint(slot[e][w].ev))
      /\ UNCHANGED <<table, mode, queue, running, poller, batch, outages, faults>>
      /\ \/ threads' = threads
         \/ threads' = [threads EXCEPT ![e] = IF JobOf(e, w) \in Threaded
                                              THEN @ \cup {slot[e][w].ev} ELSE @]
  BY DEF HandlerReturns, HandlerRaises, HandlerTimesOut, AwaitEnds
<1>2. PICK at \in {"mark_processed", "create_retry", "mark_failed"} : Goto(e, w, at)
  BY <1>1 DEF FailurePoint
<1>3. at \in Points \ {"exited", "waiting"}
  BY DEF Points, InFlight
<1>4. Grows
  BY <1>1, QuietTable
<1>5. SlotsOK'
  BY <1>0, <1>1, <1>2, <1>3, <1>4, GotoType
<1>6. /\ threads' \in [Engines -> SUBSET Nat]
      /\ \A f \in Engines : threads'[f] \subseteq 1 .. Len(events)
  BY <1>0, <1>1, BusySlot DEF SetsOK
<1>7. SetsOK'
  BY <1>0, <1>1, <1>6 DEF SetsOK, table
<1>8. QED
  BY <1>0, <1>1, <1>4, <1>5, <1>7, SameQueues, TypePartsNext DEF Grows

\* The table after a write of _execute_event: a row of its event, a run of it,
\* or the row of its retry.
LEMMA OutcomeTable ==
    ASSUME TypeOK, NEW e \in Engines, NEW w \in Workers,
           slot[e][w].at \notin {"exited", "waiting"},
           \/ \E status \in Statuses : MarkEvent(slot[e][w].ev, status)
           \/ \E status \in RunStatuses : RecordRun(slot[e][w].ev, status)
           \/ LET failed == events[slot[e][w].ev]
              IN  CreateEvent(failed.job, "pending", failed.attempt + 1, FALSE, failed.origin)
    PROVE  Grows
<1> DEFINE failed == events[slot[e][w].ev]
<1>0. TableOK
  BY DEF TypeOK
<1>1. slot[e][w].ev \in 1 .. Len(events) /\ failed \in EventRecord
  BY BusySlot
<1>2. CASE \E status \in Statuses : MarkEvent(slot[e][w].ev, status)
  BY <1>0, <1>1, <1>2, MarkEventType DEF Grows, KeepsRows
<1>3. CASE \E status \in RunStatuses : RecordRun(slot[e][w].ev, status)
  BY <1>0, <1>1, <1>3, RecordRunType DEF Grows, KeepsRows
<1>4. CASE CreateEvent(failed.job, "pending", failed.attempt + 1, FALSE, failed.origin)
  <2>1. /\ failed.job \in Jobs /\ failed.attempt + 1 \in Nat \ {0}
        /\ failed.origin \in Nat \ {0}
        /\ "pending" \in Statuses /\ FALSE \in BOOLEAN
    BY SMTT(60), <1>1 DEF EventRecord, Statuses
  <2>2. QED
    BY <1>0, <1>4, <2>1, CreateEventType DEF Grows, KeepsRows
<1>5. QED
  BY <1>2, <1>3, <1>4

\* _execute_event moves on to its next write, or is done.
LEMMA OutcomeStepType ==
    ASSUME TypeOK, Grows, NEW e \in Engines, NEW w \in Workers,
           slot[e][w].at \notin {"exited", "waiting"},
           \/ /\ \E at \in InFlight \cup Writing : Goto(e, w, at)
              /\ mode' = mode
           \/ \E at \in {"exited", "waiting"} : Leave(e, w, at),
           running' = running \/ \E J : running' = [running EXCEPT ![e] = @ \ J],
           UNCHANGED <<queue, poller, batch, threads, outages>>,
           faults' \in 0 .. MaxFaults
    PROVE  TypeOK' /\ KeepsRows
<1>0. TableOK /\ SlotsOK /\ QueuesOK /\ SetsOK
  BY TypeParts
<1>1. SlotsOK' /\ mode' \in [Engines -> Modes]
  <2>1. ASSUME NEW at \in InFlight \cup Writing, Goto(e, w, at), mode' = mode
        PROVE  SlotsOK' /\ mode' \in [Engines -> Modes]
    <3>1. at \in Points \ {"exited", "waiting"}
      BY DEF Points, InFlight, Writing
    <3>2. QED
      BY <1>0, <2>1, <3>1, GotoType DEF SetsOK
  <2>2. ASSUME NEW at \in {"exited", "waiting"}, Leave(e, w, at)
        PROVE  SlotsOK' /\ mode' \in [Engines -> Modes]
    BY <1>0, <2>2, LeaveType
  <2>3. QED
    BY <2>1, <2>2
<1>2. running' \in [Engines -> SUBSET Jobs]
  BY <1>0 DEF SetsOK
<1>3. QueuesOK'
  BY <1>0, SameQueues
<1>4. SetsOK'
  BY <1>0, <1>1, <1>2 DEF SetsOK, Grows, TableOK
<1>5. QED
  BY <1>1, <1>3, <1>4, TypePartsNext DEF Grows

LEMMA OutcomeType ==
    ASSUME TypeOK, NEW e \in Engines, NEW w \in Workers,
           \/ MarkRejected(e, w) \/ MarkOverlap(e, w) \/ RecordSkipped(e, w)
           \/ MarkProcessed(e, w) \/ RecordSuccess(e, w)
           \/ CreateRetry(e, w) \/ MarkFailed(e, w) \/ RecordFailure(e, w)
           \/ OutcomeWriteFails(e, w) \/ WorkerFails(e, w)
    PROVE  TypeOK' /\ KeepsRows
<1>0. TableOK /\ SlotsOK /\ QueuesOK /\ SetsOK
  BY TypeParts
<1>1. /\ Return(e, w) => \E at \in {"exited", "waiting"} : Leave(e, w, at)
      /\ Discard(e, w) => \E J : running' = [running EXCEPT ![e] = @ \ J]
      /\ faults \in 0 .. MaxFaults
  BY <1>0 DEF Return, Discard, SetsOK
<1>2. CASE MarkRejected(e, w)
  <2>1. /\ slot[e][w].at \notin {"exited", "waiting"} /\ Return(e, w)
        /\ \E status \in Statuses : MarkEvent(slot[e][w].ev, status)
        /\ UNCHANGED <<queue, running, poller, batch, threads, outages, faults>>
    BY <1>2 DEF MarkRejected, Statuses, Settled
  <2>2. QED
    BY <1>1, <2>1, OutcomeTable, OutcomeStepType
<1>3. CASE MarkOverlap(e, w)
  <2>1. /\ slot[e][w].at \notin {"exited", "waiting"}
        /\ Goto(e, w, "record_skipped") /\ "record_skipped" \in Writing
        /\ \E status \in Statuses : MarkEvent(slot[e][w].ev, status)
        /\ UNCHANGED <<mode, queue, running, poller, batch, threads, outages, faults>>
    BY <1>3 DEF MarkOverlap, Statuses, Settled, Writing
  <2>2. QED
    BY <1>1, <2>1, OutcomeTable, OutcomeStepType
<1>4. CASE RecordSkipped(e, w)
  <2>1. /\ slot[e][w].at \notin {"exited", "waiting"} /\ Return(e, w)
        /\ \E status \in RunStatuses : RecordRun(slot[e][w].ev, status)
        /\ UNCHANGED <<queue, running, poller, batch, threads, outages, faults>>
    BY <1>4 DEF RecordSkipped, RunStatuses
  <2>2. QED
    BY <1>1, <2>1, OutcomeTable, OutcomeStepType
<1>5. CASE MarkProcessed(e, w)
  <2>1. /\ slot[e][w].at \notin {"exited", "waiting"}
        /\ Goto(e, w, "record_success") /\ "record_success" \in InFlight
        /\ \E status \in Statuses : MarkEvent(slot[e][w].ev, status)
        /\ UNCHANGED <<mode, queue, running, poller, batch, threads, outages, faults>>
    BY <1>5 DEF MarkProcessed, Statuses, Settled, InFlight
  <2>2. QED
    BY <1>1, <2>1, OutcomeTable, OutcomeStepType
<1>6. CASE RecordSuccess(e, w)
  <2>1. /\ slot[e][w].at \notin {"exited", "waiting"}
        /\ Return(e, w) /\ Discard(e, w)
        /\ \E status \in RunStatuses : RecordRun(slot[e][w].ev, status)
        /\ UNCHANGED <<queue, poller, batch, threads, outages, faults>>
    BY <1>6 DEF RecordSuccess, RunStatuses
  <2>2. QED
    BY <1>1, <2>1, OutcomeTable, OutcomeStepType
<1>7. CASE CreateRetry(e, w)
  <2>1. /\ slot[e][w].at \notin {"exited", "waiting"}
        /\ Goto(e, w, "mark_failed") /\ "mark_failed" \in InFlight
        /\ LET failed == events[slot[e][w].ev]
           IN  CreateEvent(failed.job, "pending", failed.attempt + 1, FALSE, failed.origin)
        /\ UNCHANGED <<mode, queue, running, poller, batch, threads, outages, faults>>
    BY <1>7 DEF CreateRetry, InFlight
  <2>2. QED
    BY <1>1, <2>1, OutcomeTable, OutcomeStepType
<1>8. CASE MarkFailed(e, w)
  <2>1. /\ slot[e][w].at \notin {"exited", "waiting"}
        /\ Goto(e, w, "record_failure") /\ "record_failure" \in InFlight
        /\ \E status \in Statuses : MarkEvent(slot[e][w].ev, status)
        /\ UNCHANGED <<mode, queue, running, poller, batch, threads, outages, faults>>
    BY <1>8 DEF MarkFailed, FinalStatus, Statuses, Settled, InFlight
  <2>2. QED
    BY <1>1, <2>1, OutcomeTable, OutcomeStepType
<1>9. CASE RecordFailure(e, w)
  <2>1. /\ slot[e][w].at \notin {"exited", "waiting"}
        /\ Return(e, w) /\ Discard(e, w)
        /\ \E status \in RunStatuses : RecordRun(slot[e][w].ev, status)
        /\ UNCHANGED <<queue, poller, batch, threads, outages, faults>>
    BY <1>9 DEF RecordFailure, RunStatuses
  <2>2. QED
    BY <1>1, <2>1, OutcomeTable, OutcomeStepType
<1>10. CASE OutcomeWriteFails(e, w)
  <2>1. /\ slot[e][w].at \notin {"exited", "waiting"}
        /\ Goto(e, w, FailurePoint(slot[e][w].ev))
        /\ FailurePoint(slot[e][w].ev) \in InFlight
        /\ faults < MaxFaults /\ faults' = faults + 1
        /\ UNCHANGED <<table, mode, queue, running, poller, batch, threads, outages>>
    BY <1>10 DEF OutcomeWriteFails, FailurePoint, InFlight
  <2>2. faults' \in 0 .. MaxFaults
    BY <1>1, <2>1, EngineAssumption
  <2>3. QED
    BY <1>1, <2>1, <2>2, QuietTable, OutcomeStepType
<1>11. CASE WorkerFails(e, w)
  <2>1. /\ slot[e][w].at \notin {"exited", "waiting"}
        /\ Leave(e, w, "exited")
        /\ running' = [running EXCEPT ![e] =
                          IF slot[e][w].at \in InFlight THEN @ \ {JobOf(e, w)} ELSE @]
        /\ faults < MaxFaults /\ faults' = faults + 1
        /\ UNCHANGED <<table, queue, poller, batch, threads, outages>>
    BY <1>11 DEF WorkerFails, Writing, InFlight
  <2>2. faults' \in 0 .. MaxFaults
    BY <1>1, <2>1, EngineAssumption
  <2>3. running' = running \/ \E J : running' = [running EXCEPT ![e] = @ \ J]
    BY <1>0, <2>1 DEF SetsOK
  <2>4. QED
    BY <2>1, <2>2, <2>3, QuietTable, OutcomeStepType
<1>12. QED
  BY <1>2, <1>3, <1>4, <1>5, <1>6, <1>7, <1>8, <1>9, <1>10, <1>11

LEMMA TypeStep == TypeOK /\ [Next]_vars => TypeOK' /\ KeepsRows
<1> SUFFICES ASSUME TypeOK, [Next]_vars PROVE TypeOK' /\ KeepsRows
  OBVIOUS
<1>1. ASSUME NEW job \in Jobs, Trigger(job) PROVE TypeOK' /\ KeepsRows
  BY <1>1, SourceType
<1>2. ASSUME NEW id \in Ids, BackoffElapses(id) PROVE TypeOK' /\ KeepsRows
  BY <1>2, SourceType
<1>3. ASSUME NEW e \in Engines,
             Start(e) \/ Stop(e) \/ Shutdown(e) \/ ProcessExit(e) \/ Crash(e)
      PROVE  TypeOK' /\ KeepsRows
  BY <1>3, LifecycleType
<1>4. ASSUME NEW e \in Engines, Poll(e) \/ TakePending(e) \/ PollerFails(e)
      PROVE  TypeOK' /\ KeepsRows
  BY <1>4, PollerType
<1>5. ASSUME NEW e \in Engines, NEW job \in Jobs, Enqueue(e, job)
      PROVE  TypeOK' /\ KeepsRows
  BY <1>5, SourceType
<1>6. ASSUME NEW e \in Engines, NEW id \in threads[e], ThreadEnds(e, id)
      PROVE  TypeOK' /\ KeepsRows
  BY <1>6, ThreadEndsType
<1>7. ASSUME NEW e \in Engines, NEW w \in Workers, NEW job \in Jobs, RunOnce(e, w, job)
      PROVE  TypeOK' /\ KeepsRows
  BY <1>7, SourceType
<1>8. ASSUME NEW e \in Engines, NEW w \in Workers, WorkerStep(e, w)
      PROVE  TypeOK' /\ KeepsRows
  <2>1. CASE Dequeue(e, w)
    BY <2>1, DequeueType
  <2>2. CASE IdleTimeout(e, w)
    <3>0. TableOK /\ SlotsOK /\ QueuesOK /\ SetsOK
      BY TypeParts
    <3>1. Grows
      BY <2>2, QuietTable DEF IdleTimeout
    <3>2. SlotsOK'
      BY <2>2, <3>0, <3>1, SameSlots, IdleType, AssignSlot DEF IdleTimeout
    <3>3. SetsOK'
      BY <2>2, <3>0 DEF IdleTimeout, SetsOK, table
    <3>4. QED
      BY <2>2, <3>0, <3>1, <3>2, <3>3, SameQueues, TypePartsNext DEF IdleTimeout, Grows
  <2>3. CASE HandlerReturns(e, w) \/ HandlerRaises(e, w) \/ HandlerTimesOut(e, w)
    BY <2>3, AwaitType
  <2>4. CASE \/ MarkRejected(e, w) \/ MarkOverlap(e, w) \/ RecordSkipped(e, w)
             \/ MarkProcessed(e, w) \/ RecordSuccess(e, w)
             \/ CreateRetry(e, w) \/ MarkFailed(e, w) \/ RecordFailure(e, w)
             \/ OutcomeWriteFails(e, w) \/ WorkerFails(e, w)
    BY <2>4, OutcomeType
  <2>5. QED
    BY <1>8, <2>1, <2>2, <2>3, <2>4 DEF WorkerStep
<1>9. CASE UNCHANGED vars
  BY <1>9 DEF vars, table, TypeOK, TableOK, MemoryOK, HeldOK, KeepsRows
<1>10. QED
  BY <1>1, <1>2, <1>3, <1>4, <1>5, <1>6, <1>7, <1>8, <1>9 DEF Next

\* The tables keep their shape, and every id that a process holds in its
\* queue, its batch, a worker or a thread is a row of fx_cron_events; a worker
\* holds one exactly between taking it and letting it go.
THEOREM TypeCorrect == Spec => []TypeOK
<1>1. Init => TypeOK
  BY TypeInit
<1>2. TypeOK /\ [Next]_vars => TypeOK'
  BY TypeStep
<1>3. QED
  BY <1>1, <1>2, PTL DEF Spec

\* Ids are never reused, and a row keeps its job, attempt and payload: what
\* mark_event may change of it is its status (and time its due flag).
THEOREM RowsKeepIdentity == Spec => [][KeepsRows]_vars
<1>1. TypeOK /\ [Next]_vars => [KeepsRows]_vars
  BY TypeStep
<1>2. QED
  BY <1>1, TypeCorrect, PTL DEF Spec

-----------------------------------------------------------------------------
(* No two workers of an engine execute the same job.                       *)

Executes(e, w, j) == slot[e][w].at \in InFlight /\ JobOf(e, w) = j

\* NoOverlap, with what makes it inductive: a process that is down has no
\* worker, so that starting it replaces none that executes a job.
OverlapInv ==
    /\ \A e \in Engines : mode[e] = "down" =>
          \A w \in Workers : slot[e][w].at = "exited"
    /\ \A e \in Engines, j \in Jobs :
          /\ j \in running[e] <=> \E w \in Workers : Executes(e, w, j)
          /\ \A v, w \in Workers : Executes(e, v, j) /\ Executes(e, w, j) => v = w

LEMMA OverlapImplies == TypeOK /\ OverlapInv => NoOverlap
<1> SUFFICES ASSUME TypeOK, OverlapInv, NEW e \in Engines
             PROVE  /\ running[e] = {JobOf(e, w) : w \in {x \in Workers : slot[e][x].at \in InFlight}}
                    /\ \A v, w \in Workers :
                          slot[e][v].at \in InFlight /\ slot[e][w].at \in InFlight
                          /\ JobOf(e, v) = JobOf(e, w) => v = w
  BY DEF NoOverlap
<1>1. ASSUME NEW w \in Workers, slot[e][w].at \in InFlight
      PROVE  JobOf(e, w) \in Jobs
  <2>1. slot[e][w].at \notin {"exited", "waiting"}
    BY <1>1 DEF InFlight
  <2>2. events[slot[e][w].ev] \in EventRecord
    BY <2>1, BusySlot
  <2>3. QED
    BY <2>2 DEF EventRecord, JobOf
<1>2. running[e] \subseteq Jobs
  BY DEF TypeOK, MemoryOK
<1>3. running[e] = {JobOf(e, w) : w \in {x \in Workers : slot[e][x].at \in InFlight}}
  BY <1>1, <1>2 DEF OverlapInv, Executes
<1>4. QED
  BY <1>1, <1>3 DEF OverlapInv, Executes

\* What a worker executes depends on its slot, since rows keep their job.
LEMMA ExecutesKept ==
    ASSUME TypeOK, KeepsRows, NEW f \in Engines, NEW v \in Workers, NEW j,
           slot'[f][v].at \in InFlight <=> slot[f][v].at \in InFlight,
           slot[f][v].at \in InFlight => slot'[f][v].ev = slot[f][v].ev
    PROVE  Executes(f, v, j)' <=> Executes(f, v, j)
<1>1. CASE slot[f][v].at \notin InFlight
  BY <1>1 DEF Executes
<1>2. CASE slot[f][v].at \in InFlight
  <2>1. slot[f][v].ev \in 1 .. Len(events)
    BY <1>2, BusySlot DEF InFlight
  <2>2. events'[slot'[f][v].ev].job = events[slot[f][v].ev].job
    BY <1>2, <2>1 DEF KeepsRows
  <2>3. QED
    BY <1>2, <2>2 DEF Executes, JobOf
<1>3. QED
  BY <1>1, <1>2

\* Steps that neither begin nor end an execution.
LEMMA OverlapFrame ==
    ASSUME TypeOK, KeepsRows, OverlapInv, running' = running,
           \A f \in Engines, v \in Workers :
               /\ slot'[f][v].at \in InFlight <=> slot[f][v].at \in InFlight
               /\ slot[f][v].at \in InFlight => slot'[f][v].ev = slot[f][v].ev,
           \A f \in Engines : mode'[f] = "down" =>
               \A v \in Workers : slot'[f][v].at = "exited"
    PROVE  OverlapInv'
<1>1. \A f \in Engines, v \in Workers, j \in Jobs :
          Executes(f, v, j)' <=> Executes(f, v, j)
  BY ExecutesKept
<1>2. QED
  BY <1>1 DEF OverlapInv

LEMMA GotoSlots ==
    ASSUME TypeOK, NEW e \in Engines, NEW w \in Workers, NEW at, Goto(e, w, at)
    PROVE  \A f \in Engines, v \in Workers :
              slot'[f][v] = IF f = e /\ v = w THEN [at |-> at, ev |-> slot[e][w].ev]
                            ELSE slot[f][v]
<1>1. slot \in [Engines -> [Workers -> [at : Points, ev : Nat]]]
  BY DEF TypeOK, MemoryOK
<1>2. slot[e][w] \in [at : Points, ev : Nat]
  BY <1>1
<1>3. [slot[e][w] EXCEPT !.at = at] = [at |-> at, ev |-> slot[e][w].ev]
  BY <1>2
<1>4. slot' = [slot EXCEPT ![e] = [slot[e] EXCEPT ![w] = [slot[e][w] EXCEPT !.at = at]]]
  BY DEF Goto
<1>5. QED
  BY <1>1, <1>3, <1>4

LEMMA SetSlots ==
    ASSUME TypeOK, NEW e \in Engines, NEW w \in Workers, NEW s,
           slot' = [slot EXCEPT ![e][w] = s]
    PROVE  \A f \in Engines, v \in Workers :
              slot'[f][v] = IF f = e /\ v = w THEN s ELSE slot[f][v]
BY DEF TypeOK, MemoryOK

\* _execute_event goes from one of its writes to the next.
LEMMA OverlapGoto ==
    ASSUME TypeOK, KeepsRows, OverlapInv, NEW e \in Engines, NEW w \in Workers,
           slot[e][w].at # "exited", NEW at, Goto(e, w, at), at # "exited",
           at \in InFlight <=> slot[e][w].at \in InFlight,
           running' = running, mode' = mode
    PROVE  OverlapInv'
<1>1. \A f \in Engines, v \in Workers :
          slot'[f][v] = IF f = e /\ v = w THEN [at |-> at, ev |-> slot[e][w].ev]
                        ELSE slot[f][v]
  BY GotoSlots
<1>2. mode[e] # "down"
  BY DEF OverlapInv
<1>3. \A f \in Engines : mode'[f] = "down" => \A v \in Workers : slot'[f][v].at = "exited"
  BY <1>1, <1>2 DEF OverlapInv
<1>4. QED
  BY <1>1, <1>3, OverlapFrame

\* A worker lets go of its event, having left _running_jobs if it was in it.
LEMMA OverlapLeave ==
    ASSUME TypeOK, KeepsRows, OverlapInv, NEW e \in Engines, NEW w \in Workers,
           slot[e][w].at # "exited", NEW at \in {"exited", "waiting"}, Leave(e, w, at),
           running' = [running EXCEPT ![e] =
                          IF slot[e][w].at \in InFlight THEN @ \ {JobOf(e, w)} ELSE @]
    PROVE  OverlapInv'
<1>1. \A f \in Engines, v \in Workers :
          slot'[f][v] = IF f = e /\ v = w THEN Idle(at) ELSE slot[f][v]
  BY DEF Leave, TypeOK, MemoryOK
<1>2. Idle(at).at = at /\ at \notin InFlight
  BY DEF Idle, InFlight
<1>3. mode[e] # "down"
  BY DEF OverlapInv
<1>4. mode \in [Engines -> Modes] /\ running \in [Engines -> SUBSET Jobs]
  BY DEF TypeOK, MemoryOK
<1>5. \A f \in Engines : mode'[f] = "down" => \A v \in Workers : slot'[f][v].at = "exited"
  <2>1. mode' = [mode EXCEPT ![e] = IF @ = "once" THEN "exiting" ELSE @]
    BY DEF Leave
  <2>2. \A f \in Engines : mode'[f] = "down" => f # e /\ mode[f] = "down"
    BY <1>3, <1>4, <2>1
  <2>3. QED
    BY <1>1, <2>2 DEF OverlapInv
<1>6. CASE slot[e][w].at \notin InFlight
  <2>1. running' = running
    BY <1>4, <1>6
  <2>2. \A f \in Engines, v \in Workers :
            /\ slot'[f][v].at \in InFlight <=> slot[f][v].at \in InFlight
            /\ slot[f][v].at \in InFlight => slot'[f][v].ev = slot[f][v].ev
    BY <1>1, <1>2, <1>6
  <2>3. QED
    BY <1>5, <2>1, <2>2, OverlapFrame
<1>7. CASE slot[e][w].at \in InFlight
  <2>1. \A j : ~Executes(e, w, j)'
    BY <1>1, <1>2 DEF Executes
  <2>2. \A f \in Engines, v \in Workers, j \in Jobs :
            ~(f = e /\ v = w) => (Executes(f, v, j)' <=> Executes(f, v, j))
    BY <1>1, ExecutesKept
  <2>3. \A f \in Engines : running'[f] =
            IF f = e THEN running[e] \ {JobOf(e, w)} ELSE running[f]
    BY <1>4, <1>7
  <2>4. Executes(e, w, JobOf(e, w))
    BY <1>7 DEF Executes
  <2>5. \A j : Executes(e, w, j) => j = JobOf(e, w)
    BY DEF Executes
  <2>6. ASSUME NEW f \in Engines, NEW j \in Jobs
        PROVE  /\ j \in running'[f] <=> \E v \in Workers : Executes(f, v, j)'
               /\ \A u, v \in Workers : Executes(f, u, j)' /\ Executes(f, v, j)' => u = v
    <3>1. CASE f # e
      BY <2>2, <2>3, <3>1 DEF OverlapInv
    <3>2. CASE f = e
      <4>1. CASE j = JobOf(e, w)
        BY <2>1, <2>2, <2>3, <2>4, <3>2, <4>1 DEF OverlapInv
      <4>2. CASE j # JobOf(e, w)
        BY <2>1, <2>2, <2>3, <2>5, <3>2, <4>2 DEF OverlapInv
      <4>3. QED
        BY <4>1, <4>2
    <3>3. QED
      BY <3>1, <3>2
  <2>7. QED
    BY <1>5, <2>6 DEF OverlapInv
<1>8. QED
  BY <1>6, <1>7

\* A process that loses its memory executes nothing.
LEMMA OverlapLose ==
    ASSUME TypeOK, KeepsRows, OverlapInv, NEW e \in Engines, LoseMemory(e),
           \A f \in Engines : f # e => mode'[f] = mode[f]
    PROVE  OverlapInv'
<1>1. /\ \A v \in Workers : slot'[e][v] = Idle("exited")
      /\ \A f \in Engines : f # e => slot'[f] = slot[f]
      /\ \A f \in Engines : running'[f] = IF f = e THEN {} ELSE running[f]
  BY DEF LoseMemory, TypeOK, MemoryOK
<1>2. Idle("exited").at = "exited" /\ "exited" \notin InFlight
  BY DEF Idle, InFlight
<1>3. \A v \in Workers, j \in Jobs : ~Executes(e, v, j)'
  BY <1>1, <1>2 DEF Executes
<1>4. \A f \in Engines, v \in Workers, j \in Jobs :
          f # e => (Executes(f, v, j)' <=> Executes(f, v, j))
  BY <1>1, ExecutesKept
<1>5. QED
  BY <1>1, <1>2, <1>3, <1>4 DEF OverlapInv

\* The overlap check of _execute_event, and the add before the await.
LEMMA OverlapDequeue ==
    ASSUME TypeOK, KeepsRows, OverlapInv, NEW e \in Engines, NEW w \in Workers,
           Dequeue(e, w)
    PROVE  OverlapInv'
<1> DEFINE id == Head(queue[e])
           job == events[id].job
           at == Admission(e, job)
<1>1. /\ slot[e][w].at = "waiting" /\ mode' = mode /\ events' = events
      /\ slot' = [slot EXCEPT ![e][w] = [at |-> at, ev |-> id]]
      /\ running' = [running EXCEPT ![e] = IF at = "handler" THEN @ \cup {job} ELSE @]
  BY DEF Dequeue
<1>2. /\ at \in {"mark_rejected", "mark_overlap", "handler"}
      /\ at = "handler" => job \in Enabled /\ job \notin running[e]
  BY DEF Admission
<1>3. job \in Enabled => job \in Jobs
  BY EngineAssumption
<1> HIDE DEF at, job, id
<1>4. \A f \in Engines, v \in Workers :
          slot'[f][v] = IF f = e /\ v = w THEN [at |-> at, ev |-> id] ELSE slot[f][v]
  BY <1>1 DEF TypeOK, MemoryOK
<1>5. /\ mode[e] # "down"
      /\ \A f \in Engines : mode'[f] = "down" => \A v \in Workers : slot'[f][v].at = "exited"
  <2>1. mode[e] # "down"
    BY <1>1 DEF OverlapInv
  <2>2. QED
    BY <1>1, <1>4, <2>1 DEF OverlapInv
<1>6. \A f \in Engines :
          running'[f] = IF f = e /\ at = "handler" THEN running[e] \cup {job} ELSE running[f]
  BY <1>1 DEF TypeOK, MemoryOK
<1>7. slot[e][w].at \notin InFlight
  BY <1>1 DEF InFlight
<1>8. \A j : ~Executes(e, w, j)
  BY <1>7 DEF Executes
<1>9. \A f \in Engines, v \in Workers, j \in Jobs :
          ~(f = e /\ v = w) => (Executes(f, v, j)' <=> Executes(f, v, j))
  BY <1>4, ExecutesKept
<1>10. \A j : Executes(e, w, j)' <=> at = "handler" /\ j = job
  <2>1. at \in InFlight <=> at = "handler"
    BY <1>2 DEF InFlight
  <2>2. slot'[e][w].at = at /\ slot'[e][w].ev = id
    BY <1>4
  <2>3. events'[id].job = job
    BY <1>1 DEF job
  <2>4. QED
    BY <2>1, <2>2, <2>3 DEF Executes, JobOf
<1>11. ASSUME NEW f \in Engines, NEW j \in Jobs
       PROVE  /\ j \in running'[f] <=> \E v \in Workers : Executes(f, v, j)'
              /\ \A u, v \in Workers : Executes(f, u, j)' /\ Executes(f, v, j)' => u = v
  <2>1. CASE f # e
    BY <1>6, <1>9, <2>1 DEF OverlapInv
  <2>2. CASE f = e /\ at = "handler" /\ j = job
    <3>1. \A v \in Workers : ~Executes(e, v, j)
      BY <1>2, <2>2 DEF OverlapInv
    <3>2. QED
      BY <1>6, <1>9, <1>10, <2>2, <3>1
  <2>3. CASE f = e /\ ~(at = "handler" /\ j = job)
    BY <1>6, <1>8, <1>9, <1>10, <2>3 DEF OverlapInv
  <2>4. QED
    BY <2>1, <2>2, <2>3
<1>12. QED
  BY <1>5, <1>11 DEF OverlapInv

LEMMA OverlapInit == Init => OverlapInv
BY DEF Init, OverlapInv, Executes, Idle, InFlight

\* Steps of a worker other than taking an event.
LEMMA OverlapWorker ==
    ASSUME TypeOK, KeepsRows, OverlapInv, NEW e \in Engines, NEW w \in Workers,
           WorkerStep(e, w)
    PROVE  OverlapInv'
<1>0. running \in [Engines -> SUBSET Jobs]
  BY DEF TypeOK, MemoryOK
<1>1. Return(e, w) => \E at \in {"exited", "waiting"} : Leave(e, w, at)
  BY DEF Return
<1>2. CASE Dequeue(e, w)
  BY <1>2, OverlapDequeue
<1>3. CASE IdleTimeout(e, w)
  <2>1. \/ slot' = slot
        \/ slot' = [slot EXCEPT ![e][w] = Idle("exited")]
    BY <1>3 DEF IdleTimeout
  <2>2. Idle("exited").at = "exited" /\ "exited" \notin InFlight
    BY DEF Idle, InFlight
  <2>3. slot[e][w].at \notin InFlight /\ running' = running /\ mode' = mode
    BY <1>3 DEF IdleTimeout, InFlight
  <2>4. \A f \in Engines, v \in Workers :
            slot'[f][v] = slot[f][v] \/ (f = e /\ v = w /\ slot'[f][v] = Idle("exited"))
    BY <2>1 DEF TypeOK, MemoryOK
  <2>5. \A f \in Engines : mode'[f] = "down" => \A v \in Workers : slot'[f][v].at = "exited"
    BY <2>2, <2>3, <2>4 DEF OverlapInv
  <2>6. \A f \in Engines, v \in Workers :
            /\ slot'[f][v].at \in InFlight <=> slot[f][v].at \in InFlight
            /\ slot[f][v].at \in InFlight => slot'[f][v].ev = slot[f][v].ev
    BY <2>2, <2>3, <2>4
  <2>7. QED
    BY <2>3, <2>5, <2>6, OverlapFrame
<1>4. CASE \/ HandlerReturns(e, w) \/ HandlerRaises(e, w) \/ HandlerTimesOut(e, w)
           \/ MarkProcessed(e, w) \/ CreateRetry(e, w) \/ MarkFailed(e, w)
           \/ OutcomeWriteFails(e, w)
  <2>1. /\ slot[e][w].at \in InFlight
        /\ \E at \in InFlight : Goto(e, w, at)
        /\ running' = running /\ mode' = mode
    <3>1. FailurePoint(slot[e][w].ev) \in InFlight
      BY DEF FailurePoint, InFlight
    <3>2. {"handler", "mark_processed", "record_success", "create_retry",
           "mark_failed", "record_failure"} \subseteq InFlight
      BY DEF InFlight
    <3>3. CASE HandlerReturns(e, w)
      BY <3>2, <3>3 DEF HandlerReturns, AwaitEnds
    <3>4. CASE HandlerRaises(e, w)
      BY <3>1, <3>2, <3>4 DEF HandlerRaises, AwaitEnds
    <3>5. CASE HandlerTimesOut(e, w)
      BY <3>1, <3>2, <3>5 DEF HandlerTimesOut, AwaitEnds
    <3>6. CASE MarkProcessed(e, w)
      BY <3>2, <3>6 DEF MarkProcessed
    <3>7. CASE CreateRetry(e, w)
      BY <3>2, <3>7 DEF CreateRetry
    <3>8. CASE MarkFailed(e, w)
      BY <3>2, <3>8 DEF MarkFailed
    <3>9. CASE OutcomeWriteFails(e, w)
      BY <3>1, <3>2, <3>9 DEF OutcomeWriteFails
    <3>10. QED
      BY <1>4, <3>3, <3>4, <3>5, <3>6, <3>7, <3>8, <3>9
  <2>2. "exited" \notin InFlight
    BY DEF InFlight
  <2>3. QED
    BY <2>1, <2>2, OverlapGoto
<1>5. CASE MarkOverlap(e, w)
  <2>1. /\ slot[e][w].at = "mark_overlap" /\ Goto(e, w, "record_skipped")
        /\ running' = running /\ mode' = mode
    BY <1>5 DEF MarkOverlap
  <2>2. "mark_overlap" \notin InFlight /\ "record_skipped" \notin InFlight
    BY DEF InFlight
  <2>3. QED
    BY <2>1, <2>2, OverlapGoto
<1>6. CASE MarkRejected(e, w) \/ RecordSkipped(e, w)
  <2>1. /\ slot[e][w].at \in {"mark_rejected", "record_skipped"} /\ Return(e, w)
        /\ running' = running
    BY <1>6 DEF MarkRejected, RecordSkipped
  <2>2. slot[e][w].at \notin InFlight /\ slot[e][w].at # "exited"
    BY <2>1 DEF InFlight
  <2>3. running' = [running EXCEPT ![e] =
                       IF slot[e][w].at \in InFlight THEN @ \ {JobOf(e, w)} ELSE @]
    BY <1>0, <2>1, <2>2
  <2>4. QED
    BY <1>1, <2>1, <2>2, <2>3, OverlapLeave
<1>7. CASE RecordSuccess(e, w) \/ RecordFailure(e, w)
  <2>1. /\ slot[e][w].at \in {"record_success", "record_failure"} /\ Return(e, w)
        /\ running' = [running EXCEPT ![e] = @ \ {JobOf(e, w)}]
    BY <1>7 DEF RecordSuccess, RecordFailure, Discard
  <2>2. slot[e][w].at \in InFlight /\ slot[e][w].at # "exited"
    BY <2>1 DEF InFlight
  <2>3. running' = [running EXCEPT ![e] =
                       IF slot[e][w].at \in InFlight THEN @ \ {JobOf(e, w)} ELSE @]
    BY <2>1, <2>2
  <2>4. QED
    BY <1>1, <2>1, <2>2, <2>3, OverlapLeave
<1>8. CASE WorkerFails(e, w)
  <2>1. slot[e][w].at # "exited" /\ "exited" \in {"exited", "waiting"}
    BY <1>8 DEF WorkerFails, Writing, InFlight
  <2>2. QED
    BY <1>8, <2>1, OverlapLeave DEF WorkerFails
<1>9. QED
  BY <1>2, <1>3, <1>4, <1>5, <1>6, <1>7, <1>8 DEF WorkerStep

LEMMA OverlapStep ==
    ASSUME TypeOK, KeepsRows, OverlapInv, [Next]_vars
    PROVE  OverlapInv'
<1>1. ASSUME slot' = slot, running' = running,
             \A e \in Engines : mode'[e] = "down" => mode[e] = "down"
      PROVE  OverlapInv'
  BY <1>1, OverlapFrame DEF OverlapInv
<1>2. ASSUME NEW job \in Jobs, Trigger(job) PROVE OverlapInv'
  BY <1>1, <1>2 DEF Trigger
<1>3. ASSUME NEW id \in Ids, BackoffElapses(id) PROVE OverlapInv'
  BY <1>1, <1>3 DEF BackoffElapses
<1>4. ASSUME NEW e \in Engines, Start(e) PROVE OverlapInv'
  <2>1. /\ \A v \in Workers : slot'[e][v] = Idle("waiting")
        /\ \A f \in Engines : f # e => slot'[f] = slot[f] /\ mode'[f] = mode[f]
        /\ mode'[e] = "daemon" /\ running' = running
    BY <1>4 DEF Start, TypeOK, MemoryOK
  <2>2. \A v \in Workers : slot[e][v].at = "exited"
    BY <1>4 DEF Start, OverlapInv
  <2>3. /\ Idle("waiting").at = "waiting"
        /\ "waiting" \notin InFlight /\ "exited" \notin InFlight
    BY DEF Idle, InFlight
  <2>4. \A f \in Engines, v \in Workers :
            /\ slot'[f][v].at \in InFlight <=> slot[f][v].at \in InFlight
            /\ slot[f][v].at \in InFlight => slot'[f][v].ev = slot[f][v].ev
    BY <2>1, <2>2, <2>3
  <2>5. \A f \in Engines : mode'[f] = "down" => \A v \in Workers : slot'[f][v].at = "exited"
    BY <2>1 DEF OverlapInv
  <2>6. QED
    BY <2>1, <2>4, <2>5, OverlapFrame
<1>5. ASSUME NEW e \in Engines, Stop(e) PROVE OverlapInv'
  BY <1>1, <1>5 DEF Stop, TypeOK, MemoryOK
<1>6. ASSUME NEW e \in Engines, Shutdown(e) \/ ProcessExit(e) \/ Crash(e)
      PROVE  OverlapInv'
  <2>1. LoseMemory(e) /\ \A f \in Engines : f # e => mode'[f] = mode[f]
    BY <1>6 DEF Shutdown, ProcessExit, Crash, TypeOK, MemoryOK
  <2>2. QED
    BY <2>1, OverlapLose
<1>7. ASSUME NEW e \in Engines, Poll(e) \/ TakePending(e) \/ PollerFails(e)
      PROVE  OverlapInv'
  BY <1>1, <1>7 DEF Poll, TakePending, PollerFails
<1>8. ASSUME NEW e \in Engines, NEW job \in Jobs, Enqueue(e, job) PROVE OverlapInv'
  BY <1>1, <1>8 DEF Enqueue
<1>9. ASSUME NEW e \in Engines, NEW id \in threads[e], ThreadEnds(e, id)
      PROVE  OverlapInv'
  BY <1>1, <1>9 DEF ThreadEnds
<1>10. ASSUME NEW e \in Engines, NEW w \in Workers, NEW job \in Jobs, RunOnce(e, w, job)
       PROVE  OverlapInv'
  <2>1. /\ \A f \in Engines, v \in Workers :
              slot'[f][v] = IF f = e /\ v = w THEN Idle("waiting") ELSE slot[f][v]
        /\ \A f \in Engines : mode'[f] = IF f = e THEN "once" ELSE mode[f]
        /\ running' = running
    BY <1>10 DEF RunOnce, TypeOK, MemoryOK
  <2>2. slot[e][w].at = "exited"
    BY <1>10 DEF RunOnce, OverlapInv
  <2>3. /\ Idle("waiting").at = "waiting"
        /\ "waiting" \notin InFlight /\ "exited" \notin InFlight
    BY DEF Idle, InFlight
  <2>4. \A f \in Engines, v \in Workers :
            /\ slot'[f][v].at \in InFlight <=> slot[f][v].at \in InFlight
            /\ slot[f][v].at \in InFlight => slot'[f][v].ev = slot[f][v].ev
    BY <2>1, <2>2, <2>3
  <2>5. \A f \in Engines : mode'[f] = "down" => \A v \in Workers : slot'[f][v].at = "exited"
    BY <2>1 DEF OverlapInv
  <2>6. QED
    BY <2>1, <2>4, <2>5, OverlapFrame
<1>11. ASSUME NEW e \in Engines, NEW w \in Workers, WorkerStep(e, w) PROVE OverlapInv'
  BY <1>11, OverlapWorker
<1>12. CASE UNCHANGED vars
  BY <1>1, <1>12 DEF vars
<1>13. QED
  BY <1>2, <1>3, <1>4, <1>5, <1>6, <1>7, <1>8, <1>9, <1>10, <1>11, <1>12 DEF Next

\* overlap_policy "skip": in every engine at most one worker is between
\* _running_jobs.add and discard for a job, and _running_jobs holds exactly
\* the jobs so executed, across stops, crashes and writes that raise.
THEOREM NoOverlapHolds == Spec => []NoOverlap
<1>1. Init => OverlapInv
  BY OverlapInit
<1>2. TypeOK /\ TypeOK' /\ OverlapInv /\ [Next]_vars => OverlapInv'
  BY TypeStep, OverlapStep
<1>3. TypeOK /\ OverlapInv => NoOverlap
  BY OverlapImplies
<1>4. QED
  BY <1>1, <1>2, <1>3, TypeCorrect, PTL DEF Spec

-----------------------------------------------------------------------------
(* Events are claimed once, if one daemon serves the root.                 *)

\* Two daemons on one root may both read a row as pending and both queue it.
SoleDaemon == \A d, f \in Daemons : d = f

Pending(id) == events[id].status = "pending"

\* ClaimedOnce place by place; only daemons poll, and what waits to be marked
\* "queued" is pending, while what is in a queue or with a worker is not.
BatchInv ==
    /\ \A e \in Engines : mode[e] \in {"daemon", "stopping"} => e \in Daemons
    /\ \A e \in Engines : batch[e] # {} => e \in Daemons
    /\ \A e \in Engines : \A id \in batch[e] : Pending(id)

QueueInv ==
    /\ \A e \in Engines : \A i \in 1 .. Len(queue[e]) : ~Pending(queue[e][i])
    /\ \A e, f \in Engines : \A i \in 1 .. Len(queue[e]), j \in 1 .. Len(queue[f]) :
          queue[e][i] = queue[f][j] => e = f /\ i = j

SlotInv ==
    /\ \A e \in Engines, w \in Workers : slot[e][w].ev # 0 => ~Pending(slot[e][w].ev)
    /\ \A e, f \in Engines, v, w \in Workers :
          slot[e][v].ev = slot[f][w].ev /\ slot[e][v].ev # 0 => e = f /\ v = w
    /\ \A e, f \in Engines, w \in Workers : \A i \in 1 .. Len(queue[e]) :
          queue[e][i] # slot[f][w].ev

ClaimInv == BatchInv /\ QueueInv /\ SlotInv

LEMMA ClaimInit == Init => ClaimInv
BY DEF Init, ClaimInv, BatchInv, QueueInv, SlotInv, Idle

LEMMA HeldIds ==
    ASSUME TypeOK
    PROVE  /\ Len(events) \in Nat
           /\ \A e \in Engines : batch[e] \subseteq 1 .. Len(events)
           /\ \A e \in Engines : queue[e] \in Seq(Nat)
           /\ \A e \in Engines : \A i \in 1 .. Len(queue[e]) : queue[e][i] \in 1 .. Len(events)
           /\ \A e \in Engines, w \in Workers :
                 slot[e][w].ev = 0 \/ slot[e][w].ev \in 1 .. Len(events)
BY DEF TypeOK, TableOK, MemoryOK, HeldOK

LEMMA ClaimImplies == SoleDaemon /\ TypeOK /\ ClaimInv => ClaimedOnce
<1> SUFFICES ASSUME SoleDaemon, TypeOK, ClaimInv PROVE ClaimedOnce
  OBVIOUS
<1>1. \A e \in Engines : batch[e] \subseteq PendingIds
  BY HeldIds DEF ClaimInv, BatchInv, Pending, PendingIds, Ids, TypeOK, TableOK
<1>2. \A e \in Engines : (InQueue(e) \cup InSlots(e)) \cap PendingIds = {}
  BY DEF ClaimInv, QueueInv, SlotInv, Pending, PendingIds, InQueue, InSlots
<1>3. ASSUME NEW e \in Engines, NEW f \in Engines, e # f
      PROVE  Held(e) \cap Held(f) = {}
  <2>1. batch[e] = {} \/ batch[f] = {}
    BY <1>3 DEF SoleDaemon, ClaimInv, BatchInv
  <2>2. InQueue(e) \cap InQueue(f) = {} /\ InSlots(e) \cap InSlots(f) = {}
    BY <1>3 DEF ClaimInv, QueueInv, SlotInv, InQueue, InSlots
  <2>3. InQueue(e) \cap InSlots(f) = {} /\ InSlots(e) \cap InQueue(f) = {}
    BY DEF ClaimInv, SlotInv, InQueue, InSlots
  <2>4. QED
    BY <1>1, <1>2, <2>1, <2>2, <2>3 DEF Held
<1>4. ASSUME NEW e \in Engines
      PROVE  /\ InQueue(e) \cap InSlots(e) = {}
             /\ \A i, j \in 1 .. Len(queue[e]) : queue[e][i] = queue[e][j] => i = j
             /\ \A v, w \in Workers :
                   slot[e][v].ev = slot[e][w].ev /\ slot[e][v].ev # 0 => v = w
  BY DEF ClaimInv, QueueInv, SlotInv, InQueue, InSlots
<1>5. QED
  BY <1>1, <1>2, <1>3, <1>4 DEF ClaimedOnce

\* Existing rows keep being pending, or not.
SamePending ==
    \A id \in 1 .. Len(events) : Pending(id)' <=> Pending(id)

\* Processes only let go of events.
LetGo ==
    /\ \A e \in Engines : mode'[e] \in {"daemon", "stopping"} => e \in Daemons
    /\ \A e \in Engines : batch'[e] \subseteq batch[e]
    /\ \A e \in Engines : queue'[e] \in {queue[e], <<>>}
    /\ \A e \in Engines, w \in Workers : slot'[e][w].ev \in {slot[e][w].ev, 0}

LEMMA ClaimShrink ==
    ASSUME TypeOK, ClaimInv, SamePending, LetGo
    PROVE  ClaimInv'
<1>1. BatchInv'
  BY HeldIds DEF ClaimInv, BatchInv, SamePending, LetGo, Pending
<1>2. \A e \in Engines : \A i \in 1 .. Len(queue'[e]) :
          i \in 1 .. Len(queue[e]) /\ queue'[e][i] = queue[e][i]
  BY DEF LetGo
<1>3. QueueInv'
  <2>1. ASSUME NEW e \in Engines, NEW i \in 1 .. Len(queue'[e])
        PROVE  ~Pending(queue[e][i])'
    <3>1. ~Pending(queue[e][i]) /\ queue[e][i] \in 1 .. Len(events)
      BY <1>2, HeldIds DEF ClaimInv, QueueInv
    <3>2. queue'[e][i] = queue[e][i]
      BY <1>2
    <3>3. QED
      BY <3>1, <3>2 DEF SamePending, Pending
  <2>2. ASSUME NEW e \in Engines, NEW f \in Engines,
               NEW i \in 1 .. Len(queue'[e]), NEW j \in 1 .. Len(queue'[f]),
               queue'[e][i] = queue'[f][j]
        PROVE  e = f /\ i = j
    BY <1>2, <2>2 DEF ClaimInv, QueueInv
  <2>3. QED
    BY <2>1, <2>2 DEF QueueInv
<1>4. \A e \in Engines, w \in Workers :
          slot'[e][w].ev # 0 => slot'[e][w].ev = slot[e][w].ev
  BY DEF LetGo
<1>5. \A e \in Engines, w \in Workers : slot'[e][w].ev # 0 => ~Pending(slot[e][w].ev)'
  BY <1>4, HeldIds DEF ClaimInv, SlotInv, SamePending, Pending
<1>6. \A e, f \in Engines, v, w \in Workers :
          slot'[e][v].ev = slot'[f][w].ev /\ slot'[e][v].ev # 0 => e = f /\ v = w
  BY <1>4 DEF ClaimInv, SlotInv
<1>7. ASSUME NEW e \in Engines, NEW f \in Engines, NEW w \in Workers,
             NEW i \in 1 .. Len(queue'[e])
      PROVE  queue'[e][i] # slot'[f][w].ev
  <2>1. queue'[e][i] = queue[e][i] /\ queue[e][i] # slot[f][w].ev /\ queue[e][i] # 0
    BY <1>2, HeldIds DEF ClaimInv, SlotInv
  <2>2. QED
    BY <1>4, <2>1
<1>8. SlotInv'
  BY <1>5, <1>6, <1>7 DEF SlotInv
<1>9. QED
  BY <1>1, <1>3, <1>8 DEF ClaimInv

\* An event that nobody holds is put on the queue of an engine.
LEMMA ClaimAdd ==
    ASSUME TypeOK, ClaimInv, NEW e \in Engines, NEW id \in Nat \ {0},
           id \in 1 .. Len(events) => Pending(id),
           ~Pending(id)',
           \A k \in 1 .. Len(events) : k # id => (Pending(k)' <=> Pending(k)),
           \A f \in Engines : mode'[f] \in {"daemon", "stopping"} => f \in Daemons,
           \A f \in Engines : batch'[f] \subseteq batch[f] \ {id},
           \A f \in Engines : \A i \in 1 .. Len(queue'[f]) :
               \/ f = e /\ i = Len(queue'[e]) /\ queue'[f][i] = id
               \/ i \in 1 .. Len(queue[f]) /\ queue'[f][i] = queue[f][i],
           \A f \in Engines, w \in Workers : slot'[f][w].ev \in {slot[f][w].ev, 0}
    PROVE  ClaimInv'
<1>1. BatchInv'
  <2>1. ASSUME NEW f \in Engines, NEW k \in batch'[f]
        PROVE  Pending(k)'
    <3>1. k \in batch[f] /\ k # id /\ k \in 1 .. Len(events)
      BY HeldIds
    <3>2. QED
      BY <3>1 DEF ClaimInv, BatchInv
  <2>2. \A f \in Engines : batch'[f] # {} => f \in Daemons
    BY DEF ClaimInv, BatchInv
  <2>3. QED
    BY <2>1, <2>2 DEF BatchInv
\* Who held an event before the step did not hold this one.
<1>2. \A f \in Engines : \A i \in 1 .. Len(queue[f]) :
          queue[f][i] # id /\ queue[f][i] \in 1 .. Len(events) /\ ~Pending(queue[f][i])
  BY HeldIds DEF ClaimInv, QueueInv
<1>3. \A f \in Engines, w \in Workers : slot'[f][w].ev # 0 =>
          /\ slot'[f][w].ev = slot[f][w].ev /\ slot[f][w].ev # id
          /\ slot[f][w].ev \in 1 .. Len(events) /\ ~Pending(slot[f][w].ev)
  BY HeldIds DEF ClaimInv, SlotInv
<1>4. QueueInv'
  <2>1. ASSUME NEW f \in Engines, NEW i \in 1 .. Len(queue'[f])
        PROVE  ~Pending(queue[f][i])'
    <3>1. CASE queue'[f][i] = id
      BY <3>1 DEF Pending
    <3>2. CASE i \in 1 .. Len(queue[f]) /\ queue'[f][i] = queue[f][i]
      BY <1>2, <3>2 DEF Pending
    <3>3. QED
      BY <3>1, <3>2
  <2>2. ASSUME NEW f \in Engines, NEW g \in Engines,
               NEW i \in 1 .. Len(queue'[f]), NEW j \in 1 .. Len(queue'[g]),
               queue'[f][i] = queue'[g][j]
        PROVE  f = g /\ i = j
    <3>1. CASE queue'[f][i] = id
      <4>1. \A h \in Engines : \A k \in 1 .. Len(queue'[h]) :
                queue'[h][k] = id => h = e /\ k = Len(queue'[e])
        BY <1>2
      <4>2. f = e /\ i = Len(queue'[e]) /\ g = e /\ j = Len(queue'[e])
        BY <2>2, <3>1, <4>1
      <4>3. QED
        BY <4>2
    <3>2. CASE queue'[f][i] # id
      BY <2>2, <3>2 DEF ClaimInv, QueueInv
    <3>3. QED
      BY <3>1, <3>2
  <2>3. QED
    BY <2>1, <2>2 DEF QueueInv
<1>5. SlotInv'
  <2>1. ASSUME NEW f \in Engines, NEW w \in Workers, slot'[f][w].ev # 0
        PROVE  ~Pending(slot[f][w].ev)'
    BY <1>3, <2>1 DEF Pending
  <2>2. \A f, g \in Engines, v, w \in Workers :
            slot'[f][v].ev = slot'[g][w].ev /\ slot'[f][v].ev # 0 => f = g /\ v = w
    BY <1>3 DEF ClaimInv, SlotInv
  <2>3. ASSUME NEW f \in Engines, NEW g \in Engines, NEW w \in Workers,
               NEW i \in 1 .. Len(queue'[f])
        PROVE  queue'[f][i] # slot'[g][w].ev
    <3>1. CASE queue'[f][i] = id
      BY <1>3, <3>1
    <3>2. CASE i \in 1 .. Len(queue[f]) /\ queue'[f][i] = queue[f][i]
      <4>1. queue[f][i] # slot[g][w].ev /\ queue[f][i] # 0
        BY <1>2, <3>2 DEF ClaimInv, SlotInv
      <4>2. QED
        BY <1>3, <3>2, <4>1
    <3>3. QED
      BY <3>1, <3>2
  <2>4. QED
    BY <2>1, <2>2, <2>3 DEF SlotInv
<1>6. QED
  BY <1>1, <1>4, <1>5 DEF ClaimInv

\* queue.get hands the event at the head to one worker.
LEMMA ClaimDequeue ==
    ASSUME TypeOK, ClaimInv, NEW e \in Engines, NEW w \in Workers, Dequeue(e, w)
    PROVE  ClaimInv'
<1> DEFINE id == queue[e][1]
<1>1. /\ slot[e][w].at = "waiting" /\ queue[e] # <<>>
      /\ UNCHANGED <<events, mode, batch>>
      /\ queue' = [queue EXCEPT ![e] = Tail(queue[e])]
  BY DEF Dequeue
<1>2. queue[e] \in Seq(Nat) /\ Len(queue[e]) \in Nat /\ Len(queue[e]) > 0
  BY <1>1, HeldIds
<1>3. /\ id = Head(queue[e]) /\ id \in 1 .. Len(events)
      /\ 1 \in 1 .. Len(queue[e])
  BY <1>2, HeldIds
<1>4. \A f \in Engines, v \in Workers :
          slot'[f][v].ev = IF f = e /\ v = w THEN id ELSE slot[f][v].ev
  <2>1. \E at : slot' = [slot EXCEPT ![e][w] = [at |-> at, ev |-> id]]
    BY <1>3 DEF Dequeue
  <2>2. PICK at : slot' = [slot EXCEPT ![e][w] = [at |-> at, ev |-> id]]
    BY <2>1
  <2>3. QED
    BY <2>2 DEF TypeOK, MemoryOK
<1> HIDE DEF id
<1>5. \A f \in Engines : \A i \in 1 .. Len(queue'[f]) :
          IF f = e THEN i + 1 \in 1 .. Len(queue[f]) /\ queue'[f][i] = queue[f][i + 1]
          ELSE i \in 1 .. Len(queue[f]) /\ queue'[f][i] = queue[f][i]
  <2>1. \A f \in Engines : queue'[f] = IF f = e THEN Tail(queue[e]) ELSE queue[f]
    BY <1>1 DEF TypeOK, MemoryOK
  <2>2. /\ Len(Tail(queue[e])) = Len(queue[e]) - 1
        /\ \A i \in 1 .. Len(Tail(queue[e])) : Tail(queue[e])[i] = queue[e][i + 1]
    BY <1>2
  <2>3. ASSUME NEW i \in 1 .. Len(Tail(queue[e]))
        PROVE  i + 1 \in 1 .. Len(queue[e])
    BY <1>2, <2>2
  <2>4. QED
    BY <2>1, <2>2, <2>3
<1>6. BatchInv'
  BY <1>1 DEF ClaimInv, BatchInv, Pending
\* What is left in the queues differs from the event taken.
<1>7. ASSUME NEW f \in Engines, NEW i \in 1 .. Len(queue'[f])
      PROVE  \E j \in 1 .. Len(queue[f]) :
                /\ queue'[f][i] = queue[f][j] /\ queue[f][j] # id
                /\ j = IF f = e THEN i + 1 ELSE i
  <2>1. CASE f = e
    <3>1. i + 1 \in 1 .. Len(queue[e]) /\ i + 1 # 1
      BY <1>5, <2>1
    <3>2. queue[e][i + 1] # id
      BY <1>3, <3>1 DEF ClaimInv, QueueInv, id
    <3>3. QED
      BY <1>5, <2>1, <3>1, <3>2
  <2>2. CASE f # e
    BY <1>3, <1>5, <2>2 DEF ClaimInv, QueueInv, id
  <2>3. QED
    BY <2>1, <2>2
<1>8. QueueInv'
  <2>1. ASSUME NEW f \in Engines, NEW i \in 1 .. Len(queue'[f])
        PROVE  ~Pending(queue[f][i])'
    BY <1>1, <1>7 DEF ClaimInv, QueueInv, Pending
  <2>2. ASSUME NEW f \in Engines, NEW g \in Engines,
               NEW i \in 1 .. Len(queue'[f]), NEW j \in 1 .. Len(queue'[g]),
               queue'[f][i] = queue'[g][j]
        PROVE  f = g /\ i = j
    <3>1. PICK k \in 1 .. Len(queue[f]) :
              queue'[f][i] = queue[f][k] /\ k = IF f = e THEN i + 1 ELSE i
      BY <1>7
    <3>2. PICK l \in 1 .. Len(queue[g]) :
              queue'[g][j] = queue[g][l] /\ l = IF g = e THEN j + 1 ELSE j
      BY <1>7
    <3>3. queue[f][k] = queue[g][l]
      BY <2>2, <3>1, <3>2
    <3>4. f = g /\ k = l
      BY <3>3 DEF ClaimInv, QueueInv
    <3>5. i \in Int /\ j \in Int
      OBVIOUS
    <3>6. QED
      BY <3>1, <3>2, <3>4, <3>5
  <2>3. QED
    BY <2>1, <2>2 DEF QueueInv
<1>9. SlotInv'
  <2>1. ~Pending(id) /\ id # 0
    BY <1>3 DEF ClaimInv, QueueInv, id
  <2>2. \A f \in Engines, v \in Workers : slot[f][v].ev # id
    BY <1>3 DEF ClaimInv, SlotInv, id
  <2>3. ASSUME NEW f \in Engines, NEW v \in Workers, slot'[f][v].ev # 0
        PROVE  ~Pending(slot[f][v].ev)'
    BY <1>1, <1>4, <2>1, <2>3 DEF ClaimInv, SlotInv, Pending
  <2>4. \A f, g \in Engines, u, v \in Workers :
            slot'[f][u].ev = slot'[g][v].ev /\ slot'[f][u].ev # 0 => f = g /\ u = v
    BY <1>4, <2>2 DEF ClaimInv, SlotInv
  <2>5. ASSUME NEW f \in Engines, NEW g \in Engines, NEW v \in Workers,
               NEW i \in 1 .. Len(queue'[f])
        PROVE  queue'[f][i] # slot'[g][v].ev
    <3>1. PICK j \in 1 .. Len(queue[f]) : queue'[f][i] = queue[f][j] /\ queue[f][j] # id
      BY <1>7
    <3>2. QED
      BY <1>4, <3>1 DEF ClaimInv, SlotInv
  <2>6. QED
    BY <2>3, <2>4, <2>5 DEF SlotInv
<1>10. QED
  BY <1>6, <1>8, <1>9 DEF ClaimInv

\* The writes of _execute_event do not touch what is still to be claimed.
LEMMA OutcomePending ==
    ASSUME TypeOK, ClaimInv, NEW e \in Engines, NEW w \in Workers,
           slot[e][w].at \notin {"exited", "waiting"},
           \/ \E status \in Statuses \ {"pending"} : MarkEvent(slot[e][w].ev, status)
           \/ \E status \in RunStatuses : RecordRun(slot[e][w].ev, status)
           \/ LET failed == events[slot[e][w].ev]
              IN  CreateEvent(failed.job, "pending", failed.attempt + 1, FALSE, failed.origin)
    PROVE  SamePending
<1> DEFINE failed == events[slot[e][w].ev]
<1>0. TableOK
  BY DEF TypeOK
<1>1. slot[e][w].ev \in 1 .. Len(events) /\ failed \in EventRecord
  BY BusySlot
<1>2. ASSUME NEW status \in Statuses \ {"pending"}, MarkEvent(slot[e][w].ev, status)
      PROVE  SamePending
  <2>1. ~Pending(slot[e][w].ev) /\ status # "pending"
    BY <1>1 DEF ClaimInv, SlotInv
  <2>2. /\ events'[slot[e][w].ev].status = status
        /\ \A k \in 1 .. Len(events) : k # slot[e][w].ev => events'[k] = events[k]
    BY SMTT(60), <1>0, <1>1, <1>2, MarkEventType
  <2>3. QED
    BY <2>1, <2>2 DEF SamePending, Pending
<1>3. CASE \E status \in RunStatuses : RecordRun(slot[e][w].ev, status)
  BY <1>3 DEF RecordRun, SamePending, Pending
<1>4. CASE CreateEvent(failed.job, "pending", failed.attempt + 1, FALSE, failed.origin)
  <2>1. /\ failed.job \in Jobs /\ failed.attempt + 1 \in Nat \ {0}
        /\ failed.origin \in Nat \ {0}
        /\ "pending" \in Statuses /\ FALSE \in BOOLEAN
    BY SMTT(60), <1>1 DEF EventRecord, Statuses
  <2>2. \A k \in 1 .. Len(events) : events'[k] = events[k]
    BY <1>0, <1>4, <2>1, CreateEventType
  <2>3. QED
    BY <2>2 DEF SamePending, Pending
<1>5. QED
  BY <1>2, <1>3, <1>4

\* The worker keeps its event, or lets it go.
LEMMA WorkerLetsGo ==
    ASSUME TypeOK, ClaimInv, NEW e \in Engines, NEW w \in Workers,
           \/ (\E at : Goto(e, w, at)) /\ mode' = mode
           \/ \E at \in {"exited", "waiting"} : Leave(e, w, at),
           batch' = batch, queue' = queue
    PROVE  LetGo
<1>1. \A f \in Engines, v \in Workers : slot'[f][v].ev \in {slot[f][v].ev, 0}
  <2>1. ASSUME NEW at, Goto(e, w, at)
        PROVE  \A f \in Engines, v \in Workers : slot'[f][v].ev \in {slot[f][v].ev, 0}
    <3>1. \A f \in Engines, v \in Workers :
              slot'[f][v] = IF f = e /\ v = w THEN [at |-> at, ev |-> slot[e][w].ev]
                            ELSE slot[f][v]
      BY <2>1, GotoSlots
    <3>2. QED
      BY <3>1
  <2>2. ASSUME NEW at \in {"exited", "waiting"}, Leave(e, w, at)
        PROVE  \A f \in Engines, v \in Workers : slot'[f][v].ev \in {slot[f][v].ev, 0}
    BY <2>2 DEF Leave, Idle, TypeOK, MemoryOK
  <2>3. QED
    BY <2>1, <2>2
<1>2. \A f \in Engines : mode'[f] \in {"daemon", "stopping"} => f \in Daemons
  <2>1. mode' = mode \/ mode' = [mode EXCEPT ![e] = IF @ = "once" THEN "exiting" ELSE @]
    BY DEF Leave
  <2>2. \A f \in Engines : mode'[f] = mode[f] \/ mode'[f] = "exiting"
    BY <2>1 DEF TypeOK, MemoryOK
  <2>3. QED
    BY <2>2 DEF ClaimInv, BatchInv
<1>3. QED
  BY <1>1, <1>2 DEF LetGo

\* Lifecycle steps at most forget what is held, and only daemons start.
LEMMA LifecycleLetsGo ==
    ASSUME TypeOK, ClaimInv, NEW e \in Engines,
           Start(e) \/ Stop(e) \/ Shutdown(e) \/ ProcessExit(e) \/ Crash(e)
    PROVE  LetGo /\ SamePending
<1>1. events' = events
  BY DEF Start, Stop, Shutdown, ProcessExit, Crash, table
<1>2. \A f \in Engines :
          mode'[f] \in {"daemon", "stopping"} => mode[f] \in {"daemon", "stopping"} \/ f \in Daemons
  BY DEF Start, Stop, Shutdown, ProcessExit, Crash, TypeOK, MemoryOK
<1>3. CASE Start(e) \/ Stop(e)
  <2>1. batch' = batch /\ queue' = queue
    BY <1>3 DEF Start, Stop
  <2>2. \A f \in Engines, v \in Workers : slot'[f][v].ev \in {slot[f][v].ev, 0}
    <3>1. slot' = slot \/ slot' = [slot EXCEPT ![e] = [v \in Workers |-> Idle("waiting")]]
      BY <1>3 DEF Start, Stop
    <3>2. \A f \in Engines, v \in Workers :
              slot'[f][v] = slot[f][v] \/ slot'[f][v] = Idle("waiting")
      BY ZenonT(60), <3>1 DEF TypeOK, MemoryOK
    <3>3. QED
      BY <3>2 DEF Idle
  <2>3. QED
    BY <1>1, <1>2, <2>1, <2>2 DEF LetGo, SamePending, Pending, ClaimInv, BatchInv
<1>4. CASE LoseMemory(e)
  <2>1. /\ \A f \in Engines : batch'[f] \subseteq batch[f]
        /\ \A f \in Engines : queue'[f] \in {queue[f], <<>>}
    BY <1>4 DEF LoseMemory, TypeOK, MemoryOK
  <2>2. \A f \in Engines, v \in Workers : slot'[f][v].ev \in {slot[f][v].ev, 0}
    BY <1>4 DEF LoseMemory, Idle, TypeOK, MemoryOK
  <2>3. QED
    BY <1>1, <1>2, <2>1, <2>2 DEF LetGo, SamePending, Pending, ClaimInv, BatchInv
<1>5. QED
  BY <1>3, <1>4 DEF Shutdown, ProcessExit, Crash

LEMMA ClaimWorker ==
    ASSUME TypeOK, ClaimInv, NEW e \in Engines, NEW w \in Workers, WorkerStep(e, w)
    PROVE  ClaimInv'
<1>1. Return(e, w) => \E at \in {"exited", "waiting"} : Leave(e, w, at)
  BY DEF Return
<1>2. CASE Dequeue(e, w)
  BY <1>2, ClaimDequeue
<1>3. CASE IdleTimeout(e, w)
  <2>1. UNCHANGED <<events, mode, batch, queue>>
    BY <1>3 DEF IdleTimeout, table
  <2>2. \A f \in Engines, v \in Workers : slot'[f][v].ev \in {slot[f][v].ev, 0}
    BY <1>3 DEF IdleTimeout, Idle, TypeOK, MemoryOK
  <2>3. LetGo /\ SamePending
    BY <2>1, <2>2 DEF LetGo, SamePending, Pending, ClaimInv, BatchInv
  <2>4. QED
    BY <2>3, ClaimShrink
<1>4. CASE \/ HandlerReturns(e, w) \/ HandlerRaises(e, w) \/ HandlerTimesOut(e, w)
           \/ OutcomeWriteFails(e, w)
  <2>1. /\ \E at : Goto(e, w, at)
        /\ UNCHANGED <<events, mode, batch, queue>>
    BY <1>4 DEF HandlerReturns, HandlerRaises, HandlerTimesOut, OutcomeWriteFails, table
  <2>2. SamePending
    BY <2>1 DEF SamePending, Pending
  <2>3. QED
    BY <2>1, <2>2, WorkerLetsGo, ClaimShrink
<1>5. CASE WorkerFails(e, w)
  <2>1. /\ \E at \in {"exited", "waiting"} : Leave(e, w, at)
        /\ UNCHANGED <<events, batch, queue>>
    BY <1>5 DEF WorkerFails, table
  <2>2. SamePending
    BY <2>1 DEF SamePending, Pending
  <2>3. QED
    BY <2>1, <2>2, WorkerLetsGo, ClaimShrink
<1>6. CASE MarkRejected(e, w)
  <2>1. /\ slot[e][w].at \notin {"exited", "waiting"} /\ Return(e, w)
        /\ \E status \in Statuses \ {"pending"} : MarkEvent(slot[e][w].ev, status)
        /\ UNCHANGED <<batch, queue>>
    BY <1>6 DEF MarkRejected, Statuses, Settled
  <2>2. QED
    BY <1>1, <2>1, OutcomePending, WorkerLetsGo, ClaimShrink
<1>7. CASE MarkOverlap(e, w)
  <2>1. /\ slot[e][w].at \notin {"exited", "waiting"} /\ \E at : Goto(e, w, at)
        /\ \E status \in Statuses \ {"pending"} : MarkEvent(slot[e][w].ev, status)
        /\ UNCHANGED <<mode, batch, queue>>
    BY <1>7 DEF MarkOverlap, Statuses, Settled
  <2>2. QED
    BY <2>1, OutcomePending, WorkerLetsGo, ClaimShrink
<1>8. CASE MarkProcessed(e, w)
  <2>1. /\ slot[e][w].at \notin {"exited", "waiting"} /\ \E at : Goto(e, w, at)
        /\ \E status \in Statuses \ {"pending"} : MarkEvent(slot[e][w].ev, status)
        /\ UNCHANGED <<mode, batch, queue>>
    BY <1>8 DEF MarkProcessed, Statuses, Settled
  <2>2. QED
    BY <2>1, OutcomePending, WorkerLetsGo, ClaimShrink
<1>9. CASE MarkFailed(e, w)
  <2>1. /\ slot[e][w].at \notin {"exited", "waiting"} /\ \E at : Goto(e, w, at)
        /\ \E status \in Statuses \ {"pending"} : MarkEvent(slot[e][w].ev, status)
        /\ UNCHANGED <<mode, batch, queue>>
    BY <1>9 DEF MarkFailed, FinalStatus, Statuses, Settled
  <2>2. QED
    BY <2>1, OutcomePending, WorkerLetsGo, ClaimShrink
<1>10. CASE RecordSkipped(e, w) \/ RecordSuccess(e, w) \/ RecordFailure(e, w)
  <2>1. /\ slot[e][w].at \notin {"exited", "waiting"} /\ Return(e, w)
        /\ \E status \in RunStatuses : RecordRun(slot[e][w].ev, status)
        /\ UNCHANGED <<batch, queue>>
    BY <1>10 DEF RecordSkipped, RecordSuccess, RecordFailure, RunStatuses
  <2>2. QED
    BY <1>1, <2>1, OutcomePending, WorkerLetsGo, ClaimShrink
<1>11. CASE CreateRetry(e, w)
  <2>1. /\ slot[e][w].at \notin {"exited", "waiting"} /\ \E at : Goto(e, w, at)
        /\ LET failed == events[slot[e][w].ev]
           IN  CreateEvent(failed.job, "pending", failed.attempt + 1, FALSE, failed.origin)
        /\ UNCHANGED <<mode, batch, queue>>
    BY <1>11 DEF CreateRetry
  <2>2. QED
    BY <2>1, OutcomePending, WorkerLetsGo, ClaimShrink
<1>12. QED
  BY <1>2, <1>3, <1>4, <1>5, <1>6, <1>7, <1>8, <1>9, <1>10, <1>11 DEF WorkerStep

\* A new event has an id that nobody can hold yet.
LEMMA ClaimSource ==
    ASSUME TypeOK, ClaimInv,
           \/ \E job \in Jobs : Trigger(job)
           \/ \E id \in Ids : BackoffElapses(id)
           \/ \E e \in Engines, job \in Jobs : Enqueue(e, job)
           \/ \E e \in Engines, w \in Workers, job \in Jobs : RunOnce(e, w, job)
    PROVE  ClaimInv'
<1>a. Len(events) \in Nat
  BY HeldIds
<1>b. PICK id \in Nat : id = Len(events) + 1
  BY <1>a
<1>0. /\ TableOK /\ id \in Nat \ {0} /\ id \notin 1 .. Len(events)
      /\ "pending" \in Statuses /\ "queued" \in Statuses
  BY <1>a, <1>b DEF TypeOK, Statuses
<1>1. ASSUME NEW job \in Jobs, Trigger(job)
      PROVE  ClaimInv'
  <2>1. \A k \in 1 .. Len(events) : events'[k] = events[k]
    BY <1>0, <1>1, SubmitEventType DEF Trigger
  <2>2. SamePending /\ LetGo
    BY <1>1, <2>1 DEF Trigger, SamePending, Pending, LetGo, ClaimInv, BatchInv
  <2>3. QED
    BY <2>2, ClaimShrink
<1>2. ASSUME NEW k \in Ids, BackoffElapses(k)
      PROVE  ClaimInv'
  <2>1. k \in 1 .. Len(events) /\ events[k] \in EventRecord
    BY <1>0, ElementOfSeq DEF Ids, TableOK
  <2>2. \A j \in 1 .. Len(events) : events'[j].status = events[j].status
    BY <1>0, <1>2, <2>1 DEF BackoffElapses, EventRecord, TableOK
  <2>3. SamePending /\ LetGo
    BY <1>2, <2>2 DEF BackoffElapses, SamePending, Pending, LetGo, ClaimInv, BatchInv
  <2>4. QED
    BY <2>3, ClaimShrink
<1>3. ASSUME NEW e \in Engines, NEW job \in Jobs, Enqueue(e, job)
      PROVE  ClaimInv'
  <2>1. /\ events'[id].status = "queued"
        /\ \A k \in 1 .. Len(events) : events'[k] = events[k]
    BY <1>0, <1>3, <1>b, SubmitEventType DEF Enqueue
  <2>2. /\ queue' = [queue EXCEPT ![e] = Append(queue[e], id)]
        /\ UNCHANGED <<mode, batch, slot>>
    BY <1>b, <1>3 DEF Enqueue
  <2>3. \A f \in Engines : \A i \in 1 .. Len(queue'[f]) :
            \/ f = e /\ i = Len(queue'[e]) /\ queue'[f][i] = id
            \/ i \in 1 .. Len(queue[f]) /\ queue'[f][i] = queue[f][i]
    BY <1>0, <2>2, HeldIds DEF TypeOK, MemoryOK
  <2>4. \A f \in Engines : batch'[f] \subseteq batch[f] \ {id}
    BY <1>0, <2>2, HeldIds
  <2>5. \A f \in Engines : mode'[f] \in {"daemon", "stopping"} => f \in Daemons
    BY <2>2 DEF ClaimInv, BatchInv
  <2>6. ~Pending(id)' /\ \A k \in 1 .. Len(events) : Pending(k)' <=> Pending(k)
    BY <2>1 DEF Pending
  <2>7. QED
    BY <1>0, <2>1, <2>2, <2>3, <2>4, <2>5, <2>6, ClaimAdd
<1>4. ASSUME NEW e \in Engines, NEW w \in Workers, NEW job \in Jobs, RunOnce(e, w, job)
      PROVE  ClaimInv'
  <2>1. /\ events'[id].status = "queued"
        /\ \A k \in 1 .. Len(events) : events'[k] = events[k]
    BY <1>0, <1>4, <1>b, SubmitEventType DEF RunOnce
  <2>2. /\ queue' = [queue EXCEPT ![e] = <<id>>] /\ batch' = batch
        /\ mode' = [mode EXCEPT ![e] = "once"]
        /\ slot' = [slot EXCEPT ![e][w] = Idle("waiting")]
    BY <1>b, <1>4 DEF RunOnce
  <2>3. \A f \in Engines : \A i \in 1 .. Len(queue'[f]) :
            \/ f = e /\ i = Len(queue'[e]) /\ queue'[f][i] = id
            \/ i \in 1 .. Len(queue[f]) /\ queue'[f][i] = queue[f][i]
    BY <2>2 DEF TypeOK, MemoryOK
  <2>4. \A f \in Engines : batch'[f] \subseteq batch[f] \ {id}
    BY <1>0, <2>2, HeldIds
  <2>5. \A f \in Engines : mode'[f] \in {"daemon", "stopping"} => f \in Daemons
    BY <2>2 DEF ClaimInv, BatchInv, TypeOK, MemoryOK
  <2>6. ~Pending(id)' /\ \A k \in 1 .. Len(events) : Pending(k)' <=> Pending(k)
    BY <2>1 DEF Pending
  <2>7. \A f \in Engines, v \in Workers : slot'[f][v].ev \in {slot[f][v].ev, 0}
    BY <2>2 DEF Idle, TypeOK, MemoryOK
  <2>8. QED
    BY <1>0, <2>3, <2>4, <2>5, <2>6, <2>7, ClaimAdd
<1>5. QED
  BY <1>1, <1>2, <1>3, <1>4

\* The manual loop reads pending rows, and marks and queues one at a time: no
\* other batch holds it, since there is no other daemon.
LEMMA ClaimPoller ==
    ASSUME SoleDaemon, TypeOK, ClaimInv, NEW e \in Engines,
           Poll(e) \/ TakePending(e) \/ PollerFails(e)
    PROVE  ClaimInv'
<1>0. TableOK
  BY DEF TypeOK
<1>1. CASE Poll(e)
  <2>1. /\ mode[e] = "daemon" /\ UNCHANGED <<events, mode, queue, slot>>
        /\ batch' = [batch EXCEPT ![e] = {id \in Window : events[id].ready}]
    BY <1>1 DEF Poll, table
  <2>2. \A f \in Engines : batch'[f] = batch[f] \/ (f = e /\ batch'[f] \subseteq PendingIds)
    BY <2>1 DEF Window, TypeOK, MemoryOK
  <2>3. BatchInv'
    BY <2>1, <2>2 DEF ClaimInv, BatchInv, Pending, PendingIds
  <2>4. QueueInv' /\ SlotInv'
    BY <2>1 DEF ClaimInv, QueueInv, SlotInv, Pending
  <2>5. QED
    BY <2>3, <2>4 DEF ClaimInv
<1>2. CASE TakePending(e)
  <2>1. PICK id \in batch[e] :
            /\ MarkEvent(id, "queued")
            /\ queue' = [queue EXCEPT ![e] = Append(queue[e], id)]
            /\ batch' = [batch EXCEPT ![e] = batch[e] \ {id}]
            /\ UNCHANGED <<mode, slot>>
    BY <1>2 DEF TakePending
  <2>2. id \in 1 .. Len(events) /\ id \in Nat \ {0} /\ Pending(id)
    BY <2>1, HeldIds DEF ClaimInv, BatchInv
  <2>3. "queued" \in Statuses
    BY DEF Statuses
  <2>4. /\ events'[id].status = "queued"
        /\ \A k \in 1 .. Len(events) : k # id => events'[k] = events[k]
    BY <1>0, <2>1, <2>2, <2>3, MarkEventType
  <2>5. ~Pending(id)' /\ \A k \in 1 .. Len(events) : k # id => (Pending(k)' <=> Pending(k))
    BY <2>4 DEF Pending
  <2>6. \A f \in Engines : f # e => batch[f] = {}
    BY <2>1 DEF SoleDaemon, ClaimInv, BatchInv
  <2>7. \A f \in Engines : batch'[f] \subseteq batch[f] \ {id}
    BY <2>1, <2>6 DEF TypeOK, MemoryOK
  <2>8. \A f \in Engines : \A i \in 1 .. Len(queue'[f]) :
            \/ f = e /\ i = Len(queue'[e]) /\ queue'[f][i] = id
            \/ i \in 1 .. Len(queue[f]) /\ queue'[f][i] = queue[f][i]
    BY <2>1, <2>2, HeldIds DEF TypeOK, MemoryOK
  <2>9. \A f \in Engines : mode'[f] \in {"daemon", "stopping"} => f \in Daemons
    BY <2>1 DEF ClaimInv, BatchInv
  <2>10. QED
    BY <2>1, <2>2, <2>5, <2>7, <2>8, <2>9, ClaimAdd
<1>3. CASE PollerFails(e)
  <2>1. UNCHANGED <<events, mode, queue, slot>> /\ batch' = [batch EXCEPT ![e] = {}]
    BY <1>3 DEF PollerFails, table
  <2>2. SamePending /\ LetGo
    BY <2>1 DEF SamePending, Pending, LetGo, ClaimInv, BatchInv, TypeOK, MemoryOK
  <2>3. QED
    BY <2>2, ClaimShrink
<1>4. QED
  BY <1>1, <1>2, <1>3

LEMMA ClaimStep ==
    ASSUME SoleDaemon, TypeOK, ClaimInv, [Next]_vars
    PROVE  ClaimInv'
<1>1. ASSUME NEW job \in Jobs, Trigger(job) PROVE ClaimInv'
  BY <1>1, ClaimSource
<1>2. ASSUME NEW id \in Ids, BackoffElapses(id) PROVE ClaimInv'
  BY <1>2, ClaimSource
<1>3. ASSUME NEW e \in Engines,
             Start(e) \/ Stop(e) \/ Shutdown(e) \/ ProcessExit(e) \/ Crash(e)
      PROVE  ClaimInv'
  BY <1>3, LifecycleLetsGo, ClaimShrink
<1>4. ASSUME NEW e \in Engines, Poll(e) \/ TakePending(e) \/ PollerFails(e)
      PROVE  ClaimInv'
  BY <1>4, ClaimPoller
<1>5. ASSUME NEW e \in Engines, NEW job \in Jobs, Enqueue(e, job) PROVE ClaimInv'
  BY <1>5, ClaimSource
<1>6. ASSUME NEW e \in Engines, NEW id \in threads[e], ThreadEnds(e, id)
      PROVE  ClaimInv'
  <2>1. SamePending /\ LetGo
    BY <1>6 DEF ThreadEnds, table, SamePending, Pending, LetGo, ClaimInv, BatchInv
  <2>2. QED
    BY <2>1, ClaimShrink
<1>7. ASSUME NEW e \in Engines, NEW w \in Workers, NEW job \in Jobs, RunOnce(e, w, job)
      PROVE  ClaimInv'
  BY <1>7, ClaimSource
<1>8. ASSUME NEW e \in Engines, NEW w \in Workers, WorkerStep(e, w) PROVE ClaimInv'
  BY <1>8, ClaimWorker
<1>9. CASE UNCHANGED vars
  BY <1>9 DEF vars, table, ClaimInv, BatchInv, QueueInv, SlotInv, Pending
<1>10. QED
  BY <1>1, <1>2, <1>3, <1>4, <1>5, <1>6, <1>7, <1>8, <1>9 DEF Next

\* With one daemon per root, and any number of run_once processes beside it,
\* an event is never in two hands: the manual loop, the queue and the workers
\* of all processes hold disjoint sets of events, each of them once.
THEOREM ClaimedOnceHolds ==
    ASSUME SoleDaemon
    PROVE  Spec => []ClaimedOnce
<1>1. Init => ClaimInv
  BY ClaimInit
<1>2. TypeOK /\ ClaimInv /\ [Next]_vars => ClaimInv'
  BY ClaimStep
<1>3. TypeOK /\ ClaimInv => ClaimedOnce
  BY ClaimImplies
<1>4. QED
  BY <1>1, <1>2, <1>3, TypeCorrect, PTL DEF Spec
=============================================================================
