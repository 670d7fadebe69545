--------------------------- MODULE CronEngineProps ----------------------------
(***************************************************************************)
(* What CronEngine must guarantee, and the fairness its scheduling gives.  *)
(***************************************************************************)
EXTENDS CronEngine

-----------------------------------------------------------------------------
(* Safety.                                                                 *)

InQueue(e) == {queue[e][i] : i \in 1 .. Len(queue[e])}
InSlots(e) == {slot[e][w].ev : w \in Workers} \ {0}
Held(e) == batch[e] \cup InQueue(e) \cup InSlots(e)

\* An event that was read from the table is in one place only: one engine, and
\* there either among the rows the manual loop still has to queue, or once in
\* the queue, or with one worker; and only rows still to be queued are pending.
\* _manual_event_loop and _worker_loop hand events over with no other claim.
ClaimedOnce ==
    /\ \A e, f \in Engines : e # f => Held(e) \cap Held(f) = {}
    /\ \A e \in Engines :
        /\ batch[e] \subseteq PendingIds
        /\ (InQueue(e) \cup InSlots(e)) \cap PendingIds = {}
        /\ InQueue(e) \cap InSlots(e) = {}
        /\ \A i, j \in 1 .. Len(queue[e]) : queue[e][i] = queue[e][j] => i = j
        /\ \A v, w \in Workers :
              slot[e][v].ev = slot[e][w].ev /\ slot[e][v].ev # 0 => v = w

\* overlap_policy "skip": an engine never has two workers between
\* _running_jobs.add and discard for the same job, and _running_jobs is exactly
\* the set of jobs so held.
NoOverlap ==
    \A e \in Engines :
        /\ running[e] = {JobOf(e, w) : w \in {x \in Workers : slot[e][x].at \in InFlight}}
        /\ \A v, w \in Workers :
              slot[e][v].at \in InFlight /\ slot[e][w].at \in InFlight
              /\ JobOf(e, v) = JobOf(e, w) => v = w

\* The run a settled event must have left behind.
ExpectedRun(id) ==
    CASE events[id].status = "processed" -> <<"success">>
      [] events[id].status \in {"failed", "dead_letter"} /\ events[id].job \in Registered
           -> <<"failure">>
      [] events[id].status = "skipped" /\ events[id].job \in Enabled -> <<"skipped">>
      [] OTHER -> <<>>

\* Once its worker has let go of an event, event row and run history tell the
\* same story: never a second run, never a run of another outcome; and only an
\* outage or a failed write between the two may have cost the run record.
RunsAgree ==
    \A id \in Ids :
        \/ \E e \in Engines : id \in InSlots(e)
        \/ runs[id] = ExpectedRun(id)
        \/ outages + faults > 0 /\ runs[id] = <<>>

\* As long as no process stopped or crashed and no write failed, an event
\* marked "queued" is held in memory by the engine that marked it: mark_event
\* and the put on _queue, like _queue.get and the outcome, lose nothing.
QueuedIsHeld ==
    outages + faults = 0 =>
        \A id \in Ids : events[id].status = "queued" =>
                          \E e \in Engines : id \in InQueue(e) \cup InSlots(e)

AboutToSettle(id) ==
    \E e \in Engines, w \in Workers :
        slot[e][w] = [at |-> "mark_failed", ev |-> id]

\* The attempts of one payload follow each other: two of them are never both
\* still to run, except that the retry is created before the failed attempt is
\* marked (_handle_execution_failure), a window an outage or a failed write can
\* freeze but that never lets the earlier attempt start again.
OneAttemptAtATime ==
    \A a, b \in Ids :
        /\ events[a].origin = events[b].origin /\ a < b
        /\ events[a].status \in {"pending", "queued"}
        => starts[a] = 1 /\ (AboutToSettle(a) \/ outages + faults > 0)

Chain(id) == {k \in Ids : events[k].origin = events[id].origin}

\* A dead letter says that every permitted attempt was made: the chain of the
\* event holds retry_max_attempts events, numbered without gaps, and each of
\* them started its handler exactly once.
DeadLetterIsExhausted ==
    \A id \in Ids : events[id].status = "dead_letter" =>
        /\ {events[k].attempt : k \in Chain(id)} = 1 .. MaxAttempts[events[id].job]
        /\ Cardinality(Chain(id)) = MaxAttempts[events[id].job]
        /\ \A k \in Chain(id) : starts[k] = 1

\* The engine implements the lifecycle the store promises (EventLifecycle),
\* which has no processes: rows forget when a retry is due.
Lifecycle == INSTANCE EventLifecycle WITH
    rows <- [id \in Ids |-> [job |-> events[id].job, status |-> events[id].status,
                             attempt |-> events[id].attempt,
                             origin |-> events[id].origin]]

RefinesLifecycle == Lifecycle!Spec

-----------------------------------------------------------------------------
(* Liveness.  An asyncio loop resumes every ready task, handlers end, time  *)
(* passes.  Nobody is obliged to submit, start, stop or crash.              *)

EngineStep(e) ==
    \/ Poll(e) \/ TakePending(e)
    \/ \E w \in Workers : WorkerStep(e, w)

Fairness ==
    /\ \A e \in Engines : WF_vars(EngineStep(e)) /\ WF_vars(Shutdown(e))
    /\ WF_vars(\E id \in Ids : BackoffElapses(id))

FairSpec == Spec /\ Fairness

\* Ids that the temporal properties range over: enough for every event.
LongestChain ==
    CHOOSE n \in {MaxAttempts[j] : j \in Jobs} \cup {1} :
        \A m \in {MaxAttempts[j] : j \in Jobs} \cup {1} : m <= n
EventIds == 1 .. MaxExternal * LongestChain

IsSettled(id) == id \in Ids /\ events[id].status \in Settled

\* "daemon processes event and records run outcome": once the outages are
\* over, whatever is pending or held by a running daemon is settled in the end.
ClaimedSettles ==
    \A id \in EventIds : \A d \in Daemons :
        (/\ outages = MaxOutages /\ mode[d] = "daemon" /\ id \in Ids
         /\ id \in PendingIds \cup Held(d))
        ~> (IsSettled(id) \/ faults > 0)

\* The same for an event in the table that no process remembers.
QueuedSettles ==
    \A id \in EventIds : \A d \in Daemons :
        (/\ outages = MaxOutages /\ mode[d] = "daemon" /\ id \in Ids
         /\ events[id].status = "queued")
        ~> (IsSettled(id) \/ faults > 0)

\* overlap_policy "skip" as an operator sees it: at no time do two handlers of
\* one job run in the same process.
NoHandlerOverlap ==
    \A e \in Engines : \A a, b \in AtHandler(e) \cup threads[e] :
        events[a].job = events[b].job => a = b
=============================================================================
