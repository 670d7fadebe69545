---------------------------- MODULE EventLifecycle ----------------------------
(***************************************************************************)
(* What the event store promises whoever submits an event, with no queue,  *)
(* worker or process in sight: an event is claimed once, its handler       *)
(* starts at most once, it is settled by the rules of the job's retry      *)
(* policy, and a failed attempt has exactly one successor until the policy *)
(* is exhausted.  CronEngine is shown to implement it.                     *)
(***************************************************************************)
EXTENDS Integers, Sequences

CONSTANTS Jobs, Registered, Enabled, MaxAttempts

VARIABLES
    rows,    \* per event id: job, status, attempt, origin (the chain's first id)
    starts   \* per event id: how often its handler was started

vars == <<rows, starts>>

Init == rows = <<>> /\ starts = <<>>

Extend(row) ==
    /\ rows' = Append(rows, row)
    /\ starts' = Append(starts, 0)

Submit(job, status) ==
    Extend([job |-> job, status |-> status, attempt |-> 1, origin |-> Len(rows) + 1])

SetStatus(id, status) ==
    /\ rows' = [rows EXCEPT ![id].status = status]
    /\ UNCHANGED starts

Claim(id) == rows[id].status = "pending" /\ SetStatus(id, "queued")

Begin(id) ==
    /\ rows[id].status = "queued" /\ rows[id].job \in Enabled
    /\ starts[id] = 0
    /\ starts' = [starts EXCEPT ![id] = 1]
    /\ UNCHANGED rows

HasSuccessor(id) ==
    \E k \in DOMAIN rows : /\ rows[k].origin = rows[id].origin
                           /\ rows[k].attempt = rows[id].attempt + 1

Last(id) == rows[id].attempt = MaxAttempts[rows[id].job]

\* A started attempt that fails: retried, given up on, or never to be retried.
FailedAs(id) ==
    IF MaxAttempts[rows[id].job] = 0 THEN "failed"
    ELSE IF Last(id) THEN "dead_letter" ELSE "failed"

Succeed(id) ==
    /\ rows[id].status = "queued" /\ starts[id] = 1
    /\ SetStatus(id, "processed")

\* The event that fails may already be marked processed: a write that raises
\* after the handler's success counts as a failure of the job.
Fail(id) ==
    /\ rows[id].status \in {"queued", "processed"} /\ starts[id] = 1
    /\ HasSuccessor(id) \/ Last(id) \/ MaxAttempts[rows[id].job] = 0
    /\ SetStatus(id, FailedAs(id))

\* Never started: the job is unknown, disabled or already running.
Decline(id) ==
    /\ rows[id].status = "queued" /\ starts[id] = 0
    /\ SetStatus(id, IF rows[id].job \in Registered THEN "skipped" ELSE "failed")

Retry(id) ==
    /\ rows[id].status \in {"queued", "processed"} /\ starts[id] = 1
    /\ rows[id].attempt < MaxAttempts[rows[id].job]
    /\ ~HasSuccessor(id)
    /\ Extend([rows[id] EXCEPT !.status = "pending", !.attempt = @ + 1])

Next ==
    \/ \E job \in Jobs, status \in {"pending", "queued"} : Submit(job, status)
    \/ \E id \in DOMAIN rows :
        \/ Claim(id) \/ Begin(id) \/ Succeed(id)
        \/ Fail(id) \/ Decline(id) \/ Retry(id)

Spec == Init /\ [][Next]_vars
=============================================================================
