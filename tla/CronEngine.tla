------------------------------ MODULE CronEngine ------------------------------
(***************************************************************************)
(* The event path of registers.cron: the fx_cron_events and fx_cron_runs   *)
(* tables that outlive every process, and the CronRuntimeEngine processes  *)
(* that claim events, run job handlers, and write the outcome back.        *)
(*                                                                         *)
(* An engine is one asyncio loop.  Database calls are synchronous and a    *)
(* put on the unbounded queue never yields, so between two awaits only the *)
(* task that runs can step (LoopFree below); other processes, handler      *)
(* threads and a crash can still fall between two of its database writes,  *)
(* which is why every write is an action of its own.                       *)
(***************************************************************************)
EXTENDS Integers, Sequences, FiniteSets

CONSTANTS
    Engines,            \* processes that hold a CronRuntimeEngine on one root
    Daemons,            \* those run as daemons; the others only ever run_once
    Workers,            \* worker tasks of one engine
    Jobs,               \* job names that events may carry
    Registered,         \* names in the engines' CronRegistry
    Enabled,            \* registered jobs with enabled=True
    Threaded,           \* jobs whose handler is a plain function (to_thread)
    Timed,              \* jobs with max_runtime > 0
    MaxAttempts,        \* retry_max_attempts per job, 0 under policy "none"
    PollLimit,          \* limit= of the manual loop's query
    CatchesIdleTimeout, \* asyncio.TimeoutError is TimeoutError (Python >= 3.11)
    MaxExternal,        \* bound: events not created by a retry
    MaxOutages,         \* bound: stops and crashes
    MaxFaults           \* bound: database writes that raise

ASSUME EngineAssumption ==
    /\ Daemons \subseteq Engines
    /\ Enabled \subseteq Registered /\ Registered \subseteq Jobs
    /\ MaxAttempts \in [Jobs -> Nat]
    /\ PollLimit \in Nat \ {0}
    /\ CatchesIdleTimeout \in BOOLEAN
    /\ MaxExternal \in Nat /\ MaxOutages \in Nat /\ MaxFaults \in Nat

VARIABLES
    events,    \* fx_cron_events: row i is the event with id i
    runs,      \* fx_cron_runs: per event id, its run statuses in insertion order
    starts,    \* handler invocations per event id (effects outside the program)
    mode,      \* lifecycle of each process
    queue,     \* CronRuntimeEngine._queue
    running,   \* CronRuntimeEngine._running_jobs
    poller,    \* whether the _manual_event_loop task is alive
    batch,     \* rows the manual loop has read and not yet handled
    slot,      \* what each worker task is doing, and for which event
    threads,   \* events whose handler thread outlived its worker's await
    outages, faults

table == <<events, runs, starts>>
vars == <<events, runs, starts, mode, queue, running, poller, batch, slot,
          threads, outages, faults>>

Settled == {"processed", "failed", "skipped", "dead_letter"}
Statuses == {"pending", "queued"} \cup Settled
RunStatuses == {"success", "failure", "skipped"}
Modes == {"down", "daemon", "once", "stopping", "exiting"}

\* Points of _execute_event: InFlight lies between _running_jobs.add and its
\* discard; Writing points are about to make one database call.
InFlight == {"handler", "mark_processed", "record_success", "create_retry",
             "mark_failed", "record_failure"}
Writing == (InFlight \ {"handler"}) \cup
           {"mark_rejected", "mark_overlap", "record_skipped"}
Points == {"exited", "waiting"} \cup InFlight \cup Writing

EventRecord == [job : Jobs, status : Statuses, attempt : Nat \ {0},
                ready : BOOLEAN, origin : Nat \ {0}]

TableOK ==
    /\ events \in Seq(EventRecord)
    /\ runs \in Seq(Seq(RunStatuses)) /\ Len(runs) = Len(events)
    /\ starts \in Seq(Nat) /\ Len(starts) = Len(events)

MemoryOK ==
    /\ mode \in [Engines -> Modes]
    /\ queue \in [Engines -> Seq(Nat)]
    /\ running \in [Engines -> SUBSET Jobs]
    /\ poller \in [Engines -> BOOLEAN]
    /\ batch \in [Engines -> SUBSET Nat]
    /\ slot \in [Engines -> [Workers -> [at : Points, ev : Nat]]]
    /\ threads \in [Engines -> SUBSET Nat]
    /\ outages \in 0 .. MaxOutages /\ faults \in 0 .. MaxFaults

\* Whatever a process holds is a row of the table, and a worker holds one
\* exactly while it executes it.
HeldOK ==
    \A e \in Engines :
        /\ batch[e] \subseteq 1 .. Len(events)
        /\ threads[e] \subseteq 1 .. Len(events)
        /\ \A i \in 1 .. Len(queue[e]) : queue[e][i] \in 1 .. Len(events)
        /\ \A w \in Workers :
              IF slot[e][w].at \in {"exited", "waiting"}
                THEN slot[e][w].ev = 0 ELSE slot[e][w].ev \in 1 .. Len(events)

TypeOK == TableOK /\ MemoryOK /\ HeldOK

Idle(at) == [at |-> at, ev |-> 0]

Init ==
    /\ events = <<>> /\ runs = <<>> /\ starts = <<>>
    /\ mode = [e \in Engines |-> "down"]
    /\ queue = [e \in Engines |-> <<>>]
    /\ running = [e \in Engines |-> {}]
    /\ poller = [e \in Engines |-> FALSE]
    /\ batch = [e \in Engines |-> {}]
    /\ slot = [e \in Engines |-> [w \in Workers |-> Idle("exited")]]
    /\ threads = [e \in Engines |-> {}]
    /\ outages = 0 /\ faults = 0

-----------------------------------------------------------------------------
(* The event store and the retry decision.                                 *)

Ids == DOMAIN events

CreateEvent(job, status, attempt, ready, origin) ==
    /\ events' = Append(events, [job |-> job, status |-> status,
                                 attempt |-> attempt, ready |-> ready,
                                 origin |-> origin])
    /\ runs' = Append(runs, <<>>)
    /\ starts' = Append(starts, 0)

\* A first event carries a payload of its own: its id stands for the payload.
SubmitEvent(job, status) ==
    /\ Cardinality({id \in Ids : events[id].origin = id}) < MaxExternal
    /\ CreateEvent(job, status, 1, TRUE, Len(events) + 1)

MarkEvent(id, status) ==
    /\ events' = [events EXCEPT ![id].status = status]
    /\ UNCHANGED <<runs, starts>>

RecordRun(id, status) ==
    /\ runs' = [runs EXCEPT ![id] = Append(@, status)]
    /\ UNCHANGED <<events, starts>>

RetryEnabled(job) == MaxAttempts[job] > 0

\* Sensitivity: off by one, below and above the permitted attempts.
CanRetryShort(id) == events[id].attempt + 1 < MaxAttempts[events[id].job]
CanRetryLong(id) == events[id].attempt <= MaxAttempts[events[id].job]

CanRetry(id) == events[id].attempt < MaxAttempts[events[id].job]

\* Sensitivity: the failed event is put back besides its retry.
FinalStatusPutBack(id) ==
    IF CanRetry(id) THEN "pending"
    ELSE IF RetryEnabled(events[id].job) THEN "dead_letter" ELSE "failed"

FinalStatus(id) ==
    IF RetryEnabled(events[id].job) /\ ~CanRetry(id) THEN "dead_letter" ELSE "failed"

\* First write of _handle_execution_failure.
FailurePoint(id) == IF CanRetry(id) THEN "create_retry" ELSE "mark_failed"

-----------------------------------------------------------------------------
(* Processes: start, stop, crash, run_once.                                *)

\* Between two awaits of the engine's loop no task is inside a section.
LoopFree(e) ==
    /\ batch[e] = {}
    /\ \A w \in Workers : slot[e][w].at \notin Writing

LoseMemory(e) ==
    /\ queue' = [queue EXCEPT ![e] = <<>>]
    /\ running' = [running EXCEPT ![e] = {}]
    /\ poller' = [poller EXCEPT ![e] = FALSE]
    /\ batch' = [batch EXCEPT ![e] = {}]
    /\ slot' = [slot EXCEPT ![e] = [w \in Workers |-> Idle("exited")]]

Start(e) ==
    /\ e \in Daemons /\ mode[e] = "down"
    /\ mode' = [mode EXCEPT ![e] = "daemon"]
    /\ poller' = [poller EXCEPT ![e] = TRUE]
    /\ slot' = [slot EXCEPT ![e] = [w \in Workers |-> Idle("waiting")]]
    /\ UNCHANGED <<table, queue, running, batch, threads, outages, faults>>

\* A fresh engine executes one event that no daemon will ever poll.
RunOnce(e, w, job) ==
    /\ e \notin Daemons /\ mode[e] = "down"
    /\ SubmitEvent(job, "queued")
    /\ mode' = [mode EXCEPT ![e] = "once"]
    /\ queue' = [queue EXCEPT ![e] = <<Len(events) + 1>>]
    /\ slot' = [slot EXCEPT ![e][w] = Idle("waiting")]
    /\ UNCHANGED <<running, poller, batch, threads, outages, faults>>

\* SIGINT or SIGTERM: the handler runs as a callback of the loop.
Stop(e) ==
    /\ mode[e] = "daemon" /\ LoopFree(e) /\ outages < MaxOutages
    /\ mode' = [mode EXCEPT ![e] = "stopping"]
    /\ outages' = outages + 1
    /\ UNCHANGED <<table, queue, running, poller, batch, slot, threads, faults>>

AtHandler(e) == {slot[e][w].ev : w \in {x \in Workers : slot[e][x].at = "handler"}}

\* run_forever's finally clause cancels every task; a cancelled worker writes
\* nothing, and a plain function keeps running in its thread.
Shutdown(e) ==
    /\ mode[e] = "stopping" /\ LoopFree(e)
    /\ mode' = [mode EXCEPT ![e] = "exiting"]
    /\ threads' = [threads EXCEPT ![e] =
                     @ \cup {id \in AtHandler(e) : events[id].job \in Threaded}]
    /\ LoseMemory(e)
    /\ UNCHANGED <<table, outages, faults>>

\* asyncio.run joins the handler threads before the process ends.
ProcessExit(e) ==
    /\ mode[e] = "exiting" /\ threads[e] = {}
    /\ mode' = [mode EXCEPT ![e] = "down"]
    /\ LoseMemory(e)
    /\ UNCHANGED <<table, threads, outages, faults>>

Crash(e) ==
    /\ mode[e] # "down" /\ outages < MaxOutages
    /\ mode' = [mode EXCEPT ![e] = "down"]
    /\ threads' = [threads EXCEPT ![e] = {}]
    /\ LoseMemory(e)
    /\ outages' = outages + 1
    /\ UNCHANGED <<table, faults>>

-----------------------------------------------------------------------------
(* Sources of events.                                                      *)

\* `cron trigger`, a registered workflow, a retry's due time.
Trigger(job) ==
    /\ SubmitEvent(job, "pending")
    /\ UNCHANGED <<mode, queue, running, poller, batch, slot, threads, outages, faults>>

BackoffElapses(id) ==
    /\ events[id].status = "pending" /\ ~events[id].ready
    /\ events' = [events EXCEPT ![id].ready = TRUE]
    /\ UNCHANGED <<runs, starts, mode, queue, running, poller, batch, slot,
                   threads, outages, faults>>

\* The schedule loop, a file change or a webhook of a running daemon.
Enqueue(e, job) ==
    /\ mode[e] \in {"daemon", "stopping"} /\ LoopFree(e)
    /\ job \in Enabled
    /\ SubmitEvent(job, "queued")
    /\ queue' = [queue EXCEPT ![e] = Append(@, Len(events) + 1)]
    /\ UNCHANGED <<mode, running, poller, batch, slot, threads, outages, faults>>

PendingIds == {id \in Ids : events[id].status = "pending"}

\* Sensitivity: the query forgets that a queued event is somebody's already.
WindowUnfiltered ==
    {id \in Ids : /\ events[id].status \in {"pending", "queued"}
                 /\ Cardinality({k \in PendingIds : k < id}) < PollLimit}

Window == {id \in PendingIds :
             Cardinality({k \in PendingIds : k < id}) < PollLimit}

\* The query of the manual loop; the rows it skips as not due are left out.
Poll(e) ==
    /\ mode[e] = "daemon" /\ poller[e] /\ LoopFree(e)
    /\ batch' = [batch EXCEPT ![e] = {id \in Window : events[id].ready}]
    /\ batch'[e] # {}
    /\ UNCHANGED <<table, mode, queue, running, poller, slot, threads, outages, faults>>

\* Sensitivity: marked, but not put on the queue.
TakePendingNoPut(e) ==
    \E id \in batch[e] :
        /\ \A k \in batch[e] : id <= k
        /\ MarkEvent(id, "queued")
        /\ batch' = [batch EXCEPT ![e] = @ \ {id}]
        /\ UNCHANGED <<mode, queue, running, poller, slot, threads, outages, faults>>

\* mark_event writes over whatever status the row has by now.
TakePending(e) ==
    \E id \in batch[e] :
        /\ \A k \in batch[e] : id <= k
        /\ MarkEvent(id, "queued")
        /\ queue' = [queue EXCEPT ![e] = Append(@, id)]
        /\ batch' = [batch EXCEPT ![e] = @ \ {id}]
        /\ UNCHANGED <<mode, running, poller, slot, threads, outages, faults>>

\* A database error leaves the manual loop's task, which nobody awaits.
PollerFails(e) ==
    /\ mode[e] = "daemon" /\ poller[e] /\ faults < MaxFaults
    /\ \A w \in Workers : slot[e][w].at \notin Writing
    /\ poller' = [poller EXCEPT ![e] = FALSE]
    /\ batch' = [batch EXCEPT ![e] = {}]
    /\ faults' = faults + 1
    /\ UNCHANGED <<table, mode, queue, running, slot, threads, outages>>

-----------------------------------------------------------------------------
(* Workers.                                                                *)

Goto(e, w, at) == slot' = [slot EXCEPT ![e][w].at = at]

\* Sensitivity: the worker waits again with its event still in hand.
LeaveHolding(e, w, at) ==
    /\ slot' = [slot EXCEPT ![e][w].at = at]
    /\ mode' = [mode EXCEPT ![e] = IF @ = "once" THEN "exiting" ELSE @]

\* The worker task, or the run_once call, is done with its event.
Leave(e, w, at) ==
    /\ slot' = [slot EXCEPT ![e][w] = Idle(at)]
    /\ mode' = [mode EXCEPT ![e] = IF @ = "once" THEN "exiting" ELSE @]

Return(e, w) == Leave(e, w, IF mode[e] = "daemon" THEN "waiting" ELSE "exited")

JobOf(e, w) == events[slot[e][w].ev].job
Discard(e, w) == running' = [running EXCEPT ![e] = @ \ {JobOf(e, w)}]

\* Sensitivity: an expired wait ends the worker.
IdleTimeoutEnds(e, w) ==
    /\ mode[e] \in {"daemon", "stopping"} /\ LoopFree(e)
    /\ slot[e][w].at = "waiting" /\ queue[e] = <<>>
    /\ slot' = [slot EXCEPT ![e][w] = Idle("exited")]
    /\ UNCHANGED <<table, mode, queue, running, poller, batch, threads, outages, faults>>

\* wait_for(queue.get(), 0.5) expires on an empty queue.
IdleTimeout(e, w) ==
    /\ mode[e] \in {"daemon", "stopping"} /\ LoopFree(e)
    /\ slot[e][w].at = "waiting" /\ queue[e] = <<>>
    /\ slot' = IF CatchesIdleTimeout /\ mode[e] = "daemon"
                 THEN slot
                 ELSE [slot EXCEPT ![e][w] = Idle("exited")]
    /\ UNCHANGED <<table, mode, queue, running, poller, batch, threads, outages, faults>>

\* Sensitivity: no look at _running_jobs.
AdmissionAlways(e, job) ==
    IF job \notin Enabled THEN "mark_rejected" ELSE "handler"

\* The branch _execute_event takes for a job before its first await.
Admission(e, job) ==
    IF job \notin Enabled THEN "mark_rejected"
    ELSE IF job \in running[e] THEN "mark_overlap" ELSE "handler"

Dequeue(e, w) ==
    /\ LoopFree(e) /\ slot[e][w].at = "waiting" /\ queue[e] # <<>>
    /\ LET id == Head(queue[e])
           at == Admission(e, events[id].job)
       IN  /\ slot' = [slot EXCEPT ![e][w] = [at |-> at, ev |-> id]]
           /\ running' = [running EXCEPT ![e] =
                            IF at = "handler" THEN @ \cup {events[id].job} ELSE @]
           /\ starts' = [starts EXCEPT ![id] = IF at = "handler" THEN @ + 1 ELSE @]
    /\ queue' = [queue EXCEPT ![e] = Tail(@)]
    /\ UNCHANGED <<events, runs, mode, poller, batch, threads, outages, faults>>

AwaitEnds(e, w) == LoopFree(e) /\ slot[e][w].at = "handler"

HandlerReturns(e, w) ==
    /\ AwaitEnds(e, w)
    /\ Goto(e, w, "mark_processed")
    /\ UNCHANGED <<table, mode, queue, running, poller, batch, threads, outages, faults>>

HandlerRaises(e, w) ==
    /\ AwaitEnds(e, w)
    /\ Goto(e, w, FailurePoint(slot[e][w].ev))
    /\ UNCHANGED <<table, mode, queue, running, poller, batch, threads, outages, faults>>

\* wait_for cancels a coroutine; a thread cannot be cancelled and goes on.
HandlerTimesOut(e, w) ==
    /\ AwaitEnds(e, w) /\ JobOf(e, w) \in Timed
    /\ Goto(e, w, FailurePoint(slot[e][w].ev))
    /\ threads' = [threads EXCEPT ![e] =
                     IF JobOf(e, w) \in Threaded THEN @ \cup {slot[e][w].ev} ELSE @]
    /\ UNCHANGED <<table, mode, queue, running, poller, batch, outages, faults>>

ThreadEnds(e, id) ==
    /\ threads' = [threads EXCEPT ![e] = @ \ {id}]
    /\ UNCHANGED <<table, mode, queue, running, poller, batch, slot, outages, faults>>

MarkRejected(e, w) ==
    /\ slot[e][w].at = "mark_rejected"
    /\ MarkEvent(slot[e][w].ev,
                 IF JobOf(e, w) \in Registered THEN "skipped" ELSE "failed")
    /\ Return(e, w)
    /\ UNCHANGED <<queue, running, poller, batch, threads, outages, faults>>

\* Sensitivity: a skipped event leaves no run behind.
MarkOverlapOnly(e, w) ==
    /\ slot[e][w].at = "mark_overlap"
    /\ MarkEvent(slot[e][w].ev, "skipped")
    /\ Return(e, w)
    /\ UNCHANGED <<queue, running, poller, batch, threads, outages, faults>>

MarkOverlap(e, w) ==
    /\ slot[e][w].at = "mark_overlap"
    /\ MarkEvent(slot[e][w].ev, "skipped")
    /\ Goto(e, w, "record_skipped")
    /\ UNCHANGED <<mode, queue, running, poller, batch, threads, outages, faults>>

RecordSkipped(e, w) ==
    /\ slot[e][w].at = "record_skipped"
    /\ RecordRun(slot[e][w].ev, "skipped")
    /\ Return(e, w)
    /\ UNCHANGED <<queue, running, poller, batch, threads, outages, faults>>

MarkProcessed(e, w) ==
    /\ slot[e][w].at = "mark_processed"
    /\ MarkEvent(slot[e][w].ev, "processed")
    /\ Goto(e, w, "record_success")
    /\ UNCHANGED <<mode, queue, running, poller, batch, threads, outages, faults>>

RecordSuccess(e, w) ==
    /\ slot[e][w].at = "record_success"
    /\ RecordRun(slot[e][w].ev, "success")
    /\ Discard(e, w) /\ Return(e, w)
    /\ UNCHANGED <<queue, poller, batch, threads, outages, faults>>

CreateRetry(e, w) ==
    /\ slot[e][w].at = "create_retry"
    /\ LET failed == events[slot[e][w].ev]
       IN  CreateEvent(failed.job, "pending", failed.attempt + 1, FALSE, failed.origin)
    /\ Goto(e, w, "mark_failed")
    /\ UNCHANGED <<mode, queue, running, poller, batch, threads, outages, faults>>

MarkFailed(e, w) ==
    /\ slot[e][w].at = "mark_failed"
    /\ MarkEvent(slot[e][w].ev, FinalStatus(slot[e][w].ev))
    /\ Goto(e, w, "record_failure")
    /\ UNCHANGED <<mode, queue, running, poller, batch, threads, outages, faults>>

RecordFailure(e, w) ==
    /\ slot[e][w].at = "record_failure"
    /\ RecordRun(slot[e][w].ev, "failure")
    /\ Discard(e, w) /\ Return(e, w)
    /\ UNCHANGED <<queue, poller, batch, threads, outages, faults>>

\* A write that raises after the handler returned is taken for a job failure.
OutcomeWriteFails(e, w) ==
    /\ slot[e][w].at \in {"mark_processed", "record_success"}
    /\ faults < MaxFaults
    /\ Goto(e, w, FailurePoint(slot[e][w].ev))
    /\ faults' = faults + 1
    /\ UNCHANGED <<table, mode, queue, running, poller, batch, threads, outages>>

\* Anywhere else it leaves _execute_event, and with it the worker task.
WorkerFails(e, w) ==
    /\ slot[e][w].at \in Writing \ {"mark_processed", "record_success"}
    /\ faults < MaxFaults
    /\ running' = [running EXCEPT ![e] =
                     IF slot[e][w].at \in InFlight THEN @ \ {JobOf(e, w)} ELSE @]
    /\ Leave(e, w, "exited")
    /\ faults' = faults + 1
    /\ UNCHANGED <<table, queue, poller, batch, threads, outages>>

-----------------------------------------------------------------------------

WorkerStep(e, w) ==
    \/ Dequeue(e, w) \/ IdleTimeout(e, w)
    \/ HandlerReturns(e, w) \/ HandlerRaises(e, w) \/ HandlerTimesOut(e, w)
    \/ MarkRejected(e, w) \/ MarkOverlap(e, w) \/ RecordSkipped(e, w)
    \/ MarkProcessed(e, w) \/ RecordSuccess(e, w)
    \/ CreateRetry(e, w) \/ MarkFailed(e, w) \/ RecordFailure(e, w)
    \/ OutcomeWriteFails(e, w) \/ WorkerFails(e, w)

Next ==
    \/ \E job \in Jobs : Trigger(job)
    \/ \E id \in Ids : BackoffElapses(id)
    \/ \E e \in Engines :
        \/ Start(e) \/ Stop(e) \/ Shutdown(e) \/ ProcessExit(e) \/ Crash(e)
        \/ Poll(e) \/ TakePending(e) \/ PollerFails(e)
        \/ \E job \in Jobs : Enqueue(e, job)
        \/ \E id \in threads[e] : ThreadEnds(e, id)
        \/ \E w \in Workers, job \in Jobs : RunOnce(e, w, job)
        \/ \E w \in Workers : WorkerStep(e, w)

Spec == Init /\ [][Next]_vars
=============================================================================
