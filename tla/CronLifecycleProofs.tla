------------------------- MODULE CronLifecycleProofs -------------------------
(***************************************************************************)
(* That the engine implements EventLifecycle: every step of its processes  *)
(* is a step of the lifecycle of one event, or invisible in the rows, for  *)
(* every set of engines, workers and jobs, every retry policy and every    *)
(* bound, with one daemon per root.                                        *)
(***************************************************************************)
EXTENDS CronHistoryProofs, SequenceTheorems

-----------------------------------------------------------------------------
(* The rows of the lifecycle.                                              *)

RowRecord == [job : Jobs, status : Statuses, attempt : Nat \ {0}, origin : Nat \ {0}]

RowOf(id) == [job |-> events[id].job, status |-> events[id].status,
              attempt |-> events[id].attempt, origin |-> events[id].origin]

Rows == [id \in Ids |-> RowOf(id)]

RowsOK ==
    /\ Rows \in Seq(RowRecord) /\ Len(Rows) = Len(events)
    /\ Ids = 1 .. Len(events) /\ DOMAIN Rows = 1 .. Len(events)
    /\ \A id \in 1 .. Len(events) : Rows[id] = RowOf(id)

LEMMA RowsShape == TypeOK => RowsOK
<1> SUFFICES ASSUME TypeOK PROVE RowsOK
  OBVIOUS
<1>1. Ids = 1 .. Len(events) /\ Len(events) \in Nat
  BY DEF TypeOK, TableOK, Ids
<1>2. Rows \in [1 .. Len(events) -> RowRecord]
  <2>1. \A id \in 1 .. Len(events) : RowOf(id) \in RowRecord
    BY RowTypes DEF RowOf, RowRecord
  <2>2. QED
    BY <1>1, <2>1 DEF Rows
<1>3. Rows \in Seq(RowRecord)
  BY <1>1, <1>2, SeqDef
<1>4. Len(Rows) = Len(events)
  BY <1>1, <1>2, <1>3, LenProperties
<1>5. QED
  BY <1>1, <1>2, <1>3, <1>4 DEF Rows, RowsOK

LEMMA RowsShapeNext == TypeOK' => RowsOK'
BY RowsShape, PTL

\* create_event adds a row.
LEMMA RowsExtend ==
    ASSUME TypeOK, TypeOK', NEW job, NEW status, NEW attempt, NEW ready, NEW origin,
           CreateEvent(job, status, attempt, ready, origin), NEW row,
           row = [job |-> job, status |-> status, attempt |-> attempt, origin |-> origin]
    PROVE  Rows' = Append(Rows, row) /\ starts' = Append(starts, 0)
<1>1. PICK n : n = Len(events)
  OBVIOUS
<1>2. /\ n \in Nat /\ Len(events') = n + 1
      /\ \A id \in 1 .. n : events'[id] = events[id]
      /\ events'[n + 1].job = job /\ events'[n + 1].status = status
      /\ events'[n + 1].attempt = attempt /\ events'[n + 1].origin = origin
  BY <1>1, NewRow
<1>3. /\ Rows \in Seq(RowRecord) /\ Len(Rows) = n /\ Rows' \in Seq(RowRecord) /\ Len(Rows') = n + 1
      /\ \A id \in 1 .. n : Rows[id] = RowOf(id)
      /\ \A id \in 1 .. n + 1 : Rows'[id] = RowOf(id)'
  BY <1>1, <1>2, RowsShape, RowsShapeNext DEF RowsOK, RowRecord
<1>4. \A id \in 1 .. n : Rows'[id] = Rows[id]
  BY <1>2, <1>3 DEF RowOf
<1>5. Rows'[n + 1] = row /\ row \in RowRecord
  <2>1. Rows'[n + 1] = row
    BY <1>2, <1>3 DEF RowOf
  <2>2. QED
    BY <1>2, <1>3, <2>1, ElementOfSeq
<1>6. /\ Append(Rows, row) \in Seq(RowRecord) /\ Len(Append(Rows, row)) = n + 1
      /\ \A id \in 1 .. n : Append(Rows, row)[id] = Rows[id]
      /\ Append(Rows, row)[n + 1] = row
  BY <1>2, <1>3, <1>5, AppendProperties
<1>7. \A id \in 1 .. n + 1 : Rows'[id] = Append(Rows, row)[id]
  BY <1>2, <1>4, <1>5, <1>6
<1>8. Rows' = Append(Rows, row)
  BY <1>3, <1>6, <1>7, SeqEqual
<1>9. QED
  BY <1>8 DEF CreateEvent

\* Equal rows, one by one.
LEMMA RowsEqual ==
    ASSUME TypeOK, TypeOK', Len(events') = Len(events), NEW t \in Seq(RowRecord),
           Len(t) = Len(events), \A id \in 1 .. Len(events) : t[id] = RowOf(id)'
    PROVE  Rows' = t
<1>1. /\ Rows' \in Seq(RowRecord) /\ Len(Rows') = Len(events)
      /\ \A id \in 1 .. Len(events) : Rows'[id] = RowOf(id)'
  BY RowsShapeNext DEF RowsOK, RowRecord
<1>2. QED
  BY <1>1, SeqEqual

\* mark_event changes the status of a row.
LEMMA RowsMark ==
    ASSUME TypeOK, TypeOK', NEW x \in 1 .. Len(events), NEW status \in Statuses,
           MarkEvent(x, status)
    PROVE  Rows' = [Rows EXCEPT ![x].status = status] /\ starts' = starts
<1>1. /\ KeepsRows /\ Len(events') = Len(events)
      /\ \A id \in 1 .. Len(events) : id # x => events'[id] = events[id]
      /\ events'[x].status = status
  BY MarkRow
<1>2. /\ Rows \in Seq(RowRecord) /\ Len(Rows) = Len(events)
      /\ \A id \in 1 .. Len(events) : Rows[id] = RowOf(id)
  BY RowsShape DEF RowsOK
<1>3. PICK row : row = [Rows[x] EXCEPT !.status = status]
  OBVIOUS
<1>4. row = RowOf(x)' /\ row \in RowRecord
  <2>1. /\ events'[x].job = events[x].job /\ events'[x].attempt = events[x].attempt
        /\ events'[x].origin = events[x].origin
    BY <1>1 DEF KeepsRows
  <2>2. row = RowOf(x)'
    <3>1. row = [RowOf(x) EXCEPT !.status = status]
      BY <1>2, <1>3
    <3>2. row = [job |-> events[x].job, status |-> status,
                 attempt |-> events[x].attempt, origin |-> events[x].origin]
      BY <3>1 DEF RowOf
    <3>3. QED
      BY <1>1, <2>1, <3>2 DEF RowOf
  <2>3. Rows[x] \in RowRecord
    BY <1>2, ElementOfSeq
  <2>4. QED
    BY <1>3, <2>2, <2>3 DEF RowRecord
<1>5. PICK t : t = [Rows EXCEPT ![x] = row]
  OBVIOUS
<1>6. /\ t \in Seq(RowRecord) /\ Len(t) = Len(events)
      /\ \A id \in 1 .. Len(events) : t[id] = IF id = x THEN row ELSE Rows[id]
  BY <1>2, <1>4, <1>5, ExceptSeq
<1>7. \A id \in 1 .. Len(events) : id # x => RowOf(id)' = RowOf(id)
  BY <1>1 DEF RowOf
<1>8. \A id \in 1 .. Len(events) : t[id] = RowOf(id)'
  BY <1>2, <1>4, <1>6, <1>7
<1>9. Rows' = t
  BY <1>1, <1>6, <1>8, RowsEqual
<1>10. QED
  BY <1>3, <1>5, <1>9 DEF MarkEvent

LEMMA RowsSame ==
    ASSUME TypeOK, TypeOK', KeepsRows, Len(events') = Len(events),
           \A id \in 1 .. Len(events) : events'[id].status = events[id].status
    PROVE  Rows' = Rows
<1>1. \A id \in 1 .. Len(events) : RowOf(id)' = RowOf(id)
  BY DEF KeepsRows, RowOf
<1>2. /\ Rows \in Seq(RowRecord) /\ Len(Rows) = Len(events)
      /\ \A id \in 1 .. Len(events) : Rows[id] = RowOf(id)
  BY RowsShape DEF RowsOK
<1>3. QED
  BY <1>1, <1>2, RowsEqual

-----------------------------------------------------------------------------
(* The lifecycle, read over these rows.                                    *)

LEMMA LifecycleActions ==
    /\ Lifecycle!Init <=> Rows = <<>> /\ starts = <<>>
    /\ Rows' = Rows /\ starts' = starts => UNCHANGED Lifecycle!vars
    /\ \A row : Rows' = Append(Rows, row) /\ starts' = Append(starts, 0) => Lifecycle!Extend(row)
    /\ \A id, status :
          Rows' = [Rows EXCEPT ![id].status = status] /\ starts' = starts
          => Lifecycle!SetStatus(id, status)
BY DEF Lifecycle!Init, Lifecycle!vars, Lifecycle!Extend, Lifecycle!SetStatus, Rows, RowOf

LEMMA LifecycleGuards ==
    ASSUME TypeOK, NEW x \in 1 .. Len(events)
    PROVE  /\ events[x].status = "pending" /\ Lifecycle!SetStatus(x, "queued")
              => Lifecycle!Claim(x)
           /\ /\ events[x].status = "queued" /\ events[x].job \in Enabled /\ starts[x] = 0
              /\ Rows' = Rows /\ starts' = [starts EXCEPT ![x] = 1]
              => Lifecycle!Begin(x)
           /\ /\ events[x].status = "queued" /\ starts[x] = 1
              /\ Lifecycle!SetStatus(x, "processed")
              => Lifecycle!Succeed(x)
           /\ /\ events[x].status = "queued" /\ starts[x] = 0
              /\ Lifecycle!SetStatus(x, IF events[x].job \in Registered THEN "skipped" ELSE "failed")
              => Lifecycle!Decline(x)
           /\ Lifecycle!HasSuccessor(x) <=> Followed(x)
<1>1. Ids = 1 .. Len(events)
  BY RowsShape DEF RowsOK
<1>2. events[x].status = "pending" /\ Lifecycle!SetStatus(x, "queued") => Lifecycle!Claim(x)
  BY <1>1 DEF Lifecycle!Claim
<1>3. /\ events[x].status = "queued" /\ events[x].job \in Enabled /\ starts[x] = 0
      /\ Rows' = Rows /\ starts' = [starts EXCEPT ![x] = 1]
      => Lifecycle!Begin(x)
  BY <1>1 DEF Lifecycle!Begin, Rows, RowOf
<1>4. /\ events[x].status = "queued" /\ starts[x] = 1 /\ Lifecycle!SetStatus(x, "processed")
      => Lifecycle!Succeed(x)
  BY <1>1 DEF Lifecycle!Succeed
<1>5. /\ events[x].status = "queued" /\ starts[x] = 0
      /\ Lifecycle!SetStatus(x, IF events[x].job \in Registered THEN "skipped" ELSE "failed")
      => Lifecycle!Decline(x)
  <2>1. CASE events[x].job \in Registered
    BY <1>1, <2>1 DEF Lifecycle!Decline, Lifecycle!SetStatus
  <2>2. CASE events[x].job \notin Registered
    BY <1>1, <2>2 DEF Lifecycle!Decline, Lifecycle!SetStatus
  <2>3. QED
    BY <2>1, <2>2
<1>6. Lifecycle!HasSuccessor(x) <=> Followed(x)
  BY <1>1 DEF Lifecycle!HasSuccessor, Followed
<1>7. QED
  BY <1>2, <1>3, <1>4, <1>5, <1>6

LEMMA LifecycleFail ==
    ASSUME TypeOK, NEW x \in 1 .. Len(events), starts[x] = 1,
           events[x].status \in {"queued", "processed"},
           events[x].attempt = 1 \/ events[x].attempt <= MaxAttempts[events[x].job],
           CanRetry(x) => Followed(x),
           Rows' = [Rows EXCEPT ![x].status = FinalStatus(x)], starts' = starts
    PROVE  Lifecycle!Fail(x)
<1>1. Ids = 1 .. Len(events) /\ (Lifecycle!HasSuccessor(x) <=> Followed(x))
  BY RowsShape, LifecycleGuards DEF RowsOK
<1>2. PICK m, n : m = MaxAttempts[events[x].job] /\ n = events[x].attempt
  OBVIOUS
<1>3. m \in Nat /\ n \in Nat \ {0}
  BY <1>2, RowTypes
<1>4. (Lifecycle!Last(x) <=> n = m) /\ (CanRetry(x) <=> n < m) /\ (RetryEnabled(events[x].job) <=> m > 0)
  BY <1>1, <1>2 DEF Lifecycle!Last, CanRetry, RetryEnabled
<1>5. n < m \/ n = m \/ m = 0
  BY <1>2, <1>3
<1>6. Lifecycle!FailedAs(x) = FinalStatus(x)
  <2>1. Lifecycle!FailedAs(x) = IF m = 0 THEN "failed" ELSE IF n = m THEN "dead_letter" ELSE "failed"
    BY <1>1, <1>2, <1>4 DEF Lifecycle!FailedAs
  <2>2. FinalStatus(x) = IF m > 0 /\ ~(n < m) THEN "dead_letter" ELSE "failed"
    BY <1>4 DEF FinalStatus
  <2>3. QED
    BY <1>3, <1>5, <2>1, <2>2
<1>7. Lifecycle!HasSuccessor(x) \/ Lifecycle!Last(x) \/ m = 0
  BY <1>1, <1>4, <1>5
<1>8. Lifecycle!SetStatus(x, Lifecycle!FailedAs(x))
  BY <1>6 DEF Lifecycle!SetStatus, Rows, RowOf
<1>9. QED
  BY <1>1, <1>2, <1>7, <1>8 DEF Lifecycle!Fail

LEMMA LifecycleRetry ==
    ASSUME TypeOK, NEW x \in 1 .. Len(events), starts[x] = 1,
           events[x].status \in {"queued", "processed"}, CanRetry(x), ~Followed(x),
           Lifecycle!Extend([job |-> events[x].job, status |-> "pending",
                             attempt |-> events[x].attempt + 1, origin |-> events[x].origin])
    PROVE  Lifecycle!Retry(x)
<1>1. Ids = 1 .. Len(events) /\ ~Lifecycle!HasSuccessor(x)
  BY RowsShape, LifecycleGuards DEF RowsOK
<1>2. [RowOf(x) EXCEPT !.status = "pending", !.attempt = @ + 1]
         = [job |-> events[x].job, status |-> "pending",
            attempt |-> events[x].attempt + 1, origin |-> events[x].origin]
  <2> DEFINE r == RowOf(x)
             s == [r EXCEPT !.status = "pending"]
  <2>1. r = [job |-> events[x].job, status |-> events[x].status,
             attempt |-> events[x].attempt, origin |-> events[x].origin]
    BY DEF RowOf
  <2> HIDE DEF r
  <2>2. s = [job |-> events[x].job, status |-> "pending",
             attempt |-> events[x].attempt, origin |-> events[x].origin]
    BY <2>1
  <2> HIDE DEF s
  <2>3. [s EXCEPT !.attempt = s.attempt + 1]
           = [job |-> events[x].job, status |-> "pending",
              attempt |-> events[x].attempt + 1, origin |-> events[x].origin]
    BY <2>2
  <2>4. QED
    BY <2>3 DEF s, r
<1>3. Lifecycle!Extend([RowOf(x) EXCEPT !.status = "pending", !.attempt = @ + 1])
  BY <1>2 DEF Lifecycle!Extend
<1>4. QED
  BY <1>1, <1>3 DEF Lifecycle!Retry, Lifecycle!Extend, CanRetry, RowOf

-----------------------------------------------------------------------------
(* What each step of a process is to the lifecycle.                        *)

Stutters == Rows' = Rows /\ starts' = starts

LEMMA SubmitMaps ==
    ASSUME TypeOK, TypeOK', NEW job \in Jobs, NEW status \in {"pending", "queued"},
           SubmitEvent(job, status)
    PROVE  Lifecycle!Next
<1>1. PICK new : new = Len(events) + 1
  OBVIOUS
<1>2. CreateEvent(job, status, 1, TRUE, new)
  BY <1>1 DEF SubmitEvent
<1>3. PICK row : row = [job |-> job, status |-> status, attempt |-> 1, origin |-> new]
  OBVIOUS
<1>4. Rows' = Append(Rows, row) /\ starts' = Append(starts, 0)
  BY <1>2, <1>3, RowsExtend
<1>5. Lifecycle!Extend(row)
  BY <1>4, LifecycleActions
<1>6. Len(Rows) + 1 = new
  BY <1>1, RowsShape DEF RowsOK
<1>7. Lifecycle!Submit(job, status)
  BY <1>3, <1>5, <1>6 DEF Lifecycle!Submit, Lifecycle!Extend, Rows, RowOf
<1>8. QED
  BY <1>7 DEF Lifecycle!Next

LEMMA NextOf ==
    ASSUME TypeOK, NEW x \in 1 .. Len(events),
           \/ Lifecycle!Claim(x) \/ Lifecycle!Begin(x) \/ Lifecycle!Succeed(x)
           \/ Lifecycle!Fail(x) \/ Lifecycle!Decline(x) \/ Lifecycle!Retry(x)
    PROVE  Lifecycle!Next
<1>1. x \in Ids /\ DOMAIN Rows = Ids
  BY RowsShape DEF RowsOK
<1>2. QED
  BY <1>1 DEF Lifecycle!Next, Rows, RowOf

LEMMA TakeMaps ==
    ASSUME TypeOK, TypeOK', ClaimInv, NEW e \in Engines, TakePending(e)
    PROVE  Lifecycle!Next
<1>1. PICK x \in batch[e] : MarkEvent(x, "queued")
  BY DEF TakePending
<1>2. x \in 1 .. Len(events) /\ "queued" \in Statuses
  BY HeldIds DEF Statuses
<1>3. events[x].status = "pending"
  BY DEF ClaimInv, BatchInv, Pending
<1>4. Lifecycle!SetStatus(x, "queued")
  BY <1>1, <1>2, RowsMark, LifecycleActions
<1>5. QED
  BY <1>2, <1>3, <1>4, LifecycleGuards, NextOf

LEMMA DequeueMaps ==
    ASSUME TypeOK, TypeOK', ClaimInv, StoryInv, NEW e \in Engines, NEW w \in Workers,
           Dequeue(e, w)
    PROVE  Lifecycle!Next \/ Stutters
<1>1. PICK x, at :
          /\ x = Head(queue[e]) /\ queue[e] # <<>> /\ at = Admission(e, events[x].job)
          /\ starts' = [starts EXCEPT ![x] = IF at = "handler" THEN @ + 1 ELSE @]
          /\ events' = events
  BY DEF Dequeue
<1>2. x = queue[e][1] /\ 1 \in 1 .. Len(queue[e]) /\ x \in 1 .. Len(events)
  <2>1. queue[e] \in Seq(Nat)
    BY HeldIds
  <2>2. x = queue[e][1] /\ 1 \in 1 .. Len(queue[e])
    BY <1>1, <2>1
  <2>3. QED
    BY <2>2, HeldIds
<1>3. events[x].status = "queued" /\ starts[x] = 0
  <2>1. At(x, "queue")
    BY <1>2 DEF At, Waits
  <2>2. Tells(x, "queue")
    BY <1>2, <2>1 DEF StoryInv, Places
  <2>3. QED
    BY <2>2 DEF Tells
<1>4. Rows' = Rows
  <2>1. KeepsRows
    BY <1>1 DEF KeepsRows, TypeOK, TableOK
  <2>2. QED
    BY <1>1, <2>1, RowsSame
<1>5. starts \in Seq(Nat) /\ Len(starts) = Len(events)
  BY DEF TypeOK, TableOK
<1>6. CASE at = "handler"
  <2>1. events[x].job \in Enabled
    BY <1>1, <1>6 DEF Admission
  <2>2. starts' = [starts EXCEPT ![x] = 1]
    BY <1>1, <1>3, <1>6
  <2>3. QED
    BY <1>2, <1>3, <1>4, <2>1, <2>2, LifecycleGuards, NextOf
<1>7. CASE at # "handler"
  <2>1. starts' = starts
    BY <1>1, <1>2, <1>5, <1>7
  <2>2. QED
    BY <1>4, <2>1 DEF Stutters
<1>8. QED
  BY <1>6, <1>7

LEMMA MarkMaps ==
    ASSUME TypeOK, TypeOK', ChainInv, StoryInv, NEW e \in Engines, NEW w \in Workers,
           MarkRejected(e, w) \/ MarkOverlap(e, w) \/ MarkProcessed(e, w) \/ MarkFailed(e, w)
    PROVE  Lifecycle!Next
<1>1. PICK x, from : x = slot[e][w].ev /\ from = slot[e][w].at
  OBVIOUS
<1>2. from \in {"mark_rejected", "mark_overlap", "mark_processed", "mark_failed"} /\ Busy(e, w)
  BY <1>1 DEF MarkRejected, MarkOverlap, MarkProcessed, MarkFailed, Busy
<1>3. x \in 1 .. Len(events) /\ Tells(x, from)
  BY <1>1, <1>2, WorkerTells
<1>4. CASE from \in {"mark_rejected", "mark_overlap"}
  <2>1. PICK status : status = IF events[x].job \in Registered THEN "skipped" ELSE "failed"
    OBVIOUS
  <2>2. MarkEvent(x, status)
    <3>1. CASE MarkRejected(e, w)
      BY <1>1, <2>1, <3>1 DEF MarkRejected, JobOf
    <3>2. CASE MarkOverlap(e, w)
      <4>1. events[x].job \in Registered
        BY <1>1, <1>3, <3>2, EngineAssumption DEF MarkOverlap, Tells
      <4>2. QED
        BY <1>1, <2>1, <3>2, <4>1 DEF MarkOverlap
    <3>3. QED
      BY <1>1, <1>4, <3>1, <3>2 DEF MarkProcessed, MarkFailed
  <2>3. status \in Statuses
    BY <2>1 DEF Statuses, Settled
  <2>4. Lifecycle!SetStatus(x, status)
    BY <1>3, <2>2, <2>3, RowsMark, LifecycleActions
  <2>5. events[x].status = "queued" /\ starts[x] = 0
    BY <1>3, <1>4 DEF Tells
  <2>6. Lifecycle!SetStatus(x, IF events[x].job \in Registered THEN "skipped" ELSE "failed")
    BY <2>1, <2>4 DEF Lifecycle!SetStatus
  <2>7. QED
    BY <1>3, <2>5, <2>6, LifecycleGuards, NextOf
<1>5. CASE from = "mark_processed"
  <2>1. MarkEvent(x, "processed") /\ "processed" \in Statuses
    BY <1>1, <1>5 DEF MarkRejected, MarkOverlap, MarkProcessed, MarkFailed, Statuses, Settled
  <2>2. Lifecycle!SetStatus(x, "processed")
    BY <1>3, <2>1, RowsMark, LifecycleActions
  <2>3. events[x].status = "queued" /\ starts[x] = 1
    BY <1>3, <1>5 DEF Tells, InFlight
  <2>4. QED
    BY <1>3, <2>2, <2>3, LifecycleGuards, NextOf
<1>6. CASE from = "mark_failed"
  <2>1. MarkEvent(x, FinalStatus(x)) /\ FinalStatus(x) \in Statuses
    BY <1>1, <1>6 DEF MarkRejected, MarkOverlap, MarkProcessed, MarkFailed, FinalStatus,
                      Statuses, Settled
  <2>2. PICK status \in Statuses : status = FinalStatus(x)
    BY <2>1
  <2>3. Rows' = [Rows EXCEPT ![x].status = status] /\ starts' = starts
    BY <1>3, <2>1, <2>2, RowsMark
  <2>4. /\ events[x].status \in {"queued", "processed"} /\ starts[x] = 1
        /\ CanRetry(x) => Followed(x)
    BY <1>3, <1>6 DEF Tells, InFlight
  <2>5. events[x].attempt = 1 \/ events[x].attempt <= MaxAttempts[events[x].job]
    BY <1>3 DEF ChainInv
  <2>6. Lifecycle!Fail(x)
    BY <1>3, <2>2, <2>3, <2>4, <2>5, LifecycleFail
  <2>7. QED
    BY <1>3, <2>6, NextOf
<1>7. QED
  BY <1>2, <1>4, <1>5, <1>6

LEMMA RetryMaps ==
    ASSUME TypeOK, TypeOK', StoryInv, NEW e \in Engines, NEW w \in Workers, CreateRetry(e, w)
    PROVE  Lifecycle!Next
<1>1. PICK x : x = slot[e][w].ev
  OBVIOUS
<1>2. slot[e][w].at = "create_retry" /\ Busy(e, w)
  BY DEF CreateRetry, Busy
<1>3. x \in 1 .. Len(events) /\ Tells(x, "create_retry")
  BY <1>1, <1>2, WorkerTells
<1>4. /\ events[x].status \in {"queued", "processed"} /\ starts[x] = 1
      /\ CanRetry(x) /\ ~Followed(x)
  BY <1>3 DEF Tells, InFlight
<1>5. PICK row : row = [job |-> events[x].job, status |-> "pending",
                        attempt |-> events[x].attempt + 1, origin |-> events[x].origin]
  OBVIOUS
<1>6. CreateEvent(events[x].job, "pending", events[x].attempt + 1, FALSE, events[x].origin)
  BY <1>1 DEF CreateRetry
<1>7. Rows' = Append(Rows, row) /\ starts' = Append(starts, 0)
  BY <1>5, <1>6, RowsExtend
<1>8. Lifecycle!Extend(row)
  BY <1>7, LifecycleActions
<1>9. Lifecycle!Extend([job |-> events[x].job, status |-> "pending",
                        attempt |-> events[x].attempt + 1, origin |-> events[x].origin])
  BY <1>5, <1>8 DEF Lifecycle!Extend
<1>10. QED
  BY <1>3, <1>4, <1>9, LifecycleRetry, NextOf

\* Steps that start no handler and write no status.
LEMMA OtherMaps ==
    ASSUME TypeOK, TypeOK',
           \/ \E id \in Ids : BackoffElapses(id)
           \/ \E e \in Engines :
                 \/ Start(e) \/ Stop(e) \/ Shutdown(e) \/ ProcessExit(e) \/ Crash(e)
                 \/ Poll(e) \/ PollerFails(e)
                 \/ \E id \in threads[e] : ThreadEnds(e, id)
                 \/ \E w \in Workers :
                       \/ IdleTimeout(e, w)
                       \/ HandlerReturns(e, w) \/ HandlerRaises(e, w) \/ HandlerTimesOut(e, w)
                       \/ RecordSkipped(e, w) \/ RecordSuccess(e, w) \/ RecordFailure(e, w)
                       \/ OutcomeWriteFails(e, w) \/ WorkerFails(e, w)
           \/ UNCHANGED vars
    PROVE  Stutters
<1>1. ASSUME NEW id \in Ids, BackoffElapses(id)
      PROVE  starts' = starts /\ events' = [events EXCEPT ![id].ready = TRUE]
  BY <1>1 DEF BackoffElapses
<1>2. ASSUME NEW e \in Engines,
             \/ Start(e) \/ Stop(e) \/ Shutdown(e) \/ ProcessExit(e) \/ Crash(e)
             \/ Poll(e) \/ PollerFails(e)
      PROVE  starts' = starts /\ events' = events
  BY <1>2 DEF Start, Stop, Shutdown, ProcessExit, Crash, Poll, PollerFails, table
<1>3. ASSUME NEW e \in Engines, NEW id \in threads[e], ThreadEnds(e, id)
      PROVE  starts' = starts /\ events' = events
  BY SMTT(60), <1>3 DEF ThreadEnds, table
<1>4. ASSUME NEW e \in Engines, NEW w \in Workers,
             \/ IdleTimeout(e, w)
             \/ HandlerReturns(e, w) \/ HandlerRaises(e, w) \/ HandlerTimesOut(e, w)
             \/ RecordSkipped(e, w) \/ RecordSuccess(e, w) \/ RecordFailure(e, w)
             \/ OutcomeWriteFails(e, w) \/ WorkerFails(e, w)
      PROVE  starts' = starts /\ events' = events
  BY ZenonT(60), <1>4 DEF IdleTimeout, HandlerReturns, HandlerRaises, HandlerTimesOut, RecordSkipped,
              RecordSuccess, RecordFailure, OutcomeWriteFails, WorkerFails, RecordRun, table
<1>5. ASSUME UNCHANGED vars
      PROVE  starts' = starts /\ events' = events
  BY <1>5 DEF vars
<1>6. /\ starts' = starts
      /\ events' = events \/ \E id \in Ids : events' = [events EXCEPT ![id].ready = TRUE]
  BY <1>1, <1>2, <1>3, <1>4, <1>5
<1>7. events \in Seq(EventRecord) /\ Ids = 1 .. Len(events) /\ Len(events) \in Nat
  BY DEF TypeOK, TableOK, Ids
<1>8. /\ KeepsRows /\ Len(events') = Len(events)
      /\ \A id \in 1 .. Len(events) : events'[id].status = events[id].status
  <2>1. CASE events' = events
    BY <1>7, <2>1 DEF KeepsRows
  <2>2. ASSUME NEW id \in Ids, events' = [events EXCEPT ![id].ready = TRUE]
        PROVE  /\ KeepsRows /\ Len(events') = Len(events)
               /\ \A k \in 1 .. Len(events) : events'[k].status = events[k].status
    <3>1. /\ Len(events') = Len(events)
          /\ \A k \in 1 .. Len(events) :
                events'[k] = IF k = id THEN [events[id] EXCEPT !.ready = TRUE] ELSE events[k]
      BY <1>7, <2>2
    <3>2. events[id] \in EventRecord
      BY <1>7
    <3>3. QED
      BY <3>1, <3>2 DEF KeepsRows, EventRecord
  <2>3. QED
    BY <1>6, <2>1, <2>2
<1>9. Rows' = Rows
  BY <1>8, RowsSame
<1>10. QED
  BY <1>6, <1>9 DEF Stutters

LEMMA LifecycleStep ==
    ASSUME HistoryInv, HistoryInv', [Next]_vars
    PROVE  [Lifecycle!Next]_(Lifecycle!vars)
<1>1. /\ TypeOK /\ ClaimInv /\ ChainInv /\ StoryInv /\ TypeOK'
  BY DEF HistoryInv
<1>2. Lifecycle!Next \/ Stutters
  <2>1. CASE \/ \E id \in Ids : BackoffElapses(id)
             \/ \E e \in Engines :
                   \/ Start(e) \/ Stop(e) \/ Shutdown(e) \/ ProcessExit(e) \/ Crash(e)
                   \/ Poll(e) \/ PollerFails(e)
                   \/ \E id \in threads[e] : ThreadEnds(e, id)
                   \/ \E w \in Workers :
                         \/ IdleTimeout(e, w)
                         \/ HandlerReturns(e, w) \/ HandlerRaises(e, w) \/ HandlerTimesOut(e, w)
                         \/ RecordSkipped(e, w) \/ RecordSuccess(e, w) \/ RecordFailure(e, w)
                         \/ OutcomeWriteFails(e, w) \/ WorkerFails(e, w)
             \/ UNCHANGED vars
    BY <1>1, <2>1, OtherMaps
  <2>2. ASSUME NEW job \in Jobs, Trigger(job) PROVE Lifecycle!Next
    BY <1>1, <2>2, SubmitMaps DEF Trigger
  <2>3. ASSUME NEW e \in Engines, NEW job \in Jobs, Enqueue(e, job) PROVE Lifecycle!Next
    BY <1>1, <2>3, SubmitMaps DEF Enqueue
  <2>4. ASSUME NEW e \in Engines, NEW w \in Workers, NEW job \in Jobs, RunOnce(e, w, job)
        PROVE  Lifecycle!Next
    BY <1>1, <2>4, SubmitMaps DEF RunOnce
  <2>5. ASSUME NEW e \in Engines, TakePending(e) PROVE Lifecycle!Next
    BY <1>1, <2>5, TakeMaps
  <2>6. ASSUME NEW e \in Engines, NEW w \in Workers, Dequeue(e, w)
        PROVE  Lifecycle!Next \/ Stutters
    BY <1>1, <2>6, DequeueMaps
  <2>7. ASSUME NEW e \in Engines, NEW w \in Workers,
               MarkRejected(e, w) \/ MarkOverlap(e, w) \/ MarkProcessed(e, w) \/ MarkFailed(e, w)
        PROVE  Lifecycle!Next
    BY <1>1, <2>7, MarkMaps
  <2>8. ASSUME NEW e \in Engines, NEW w \in Workers, CreateRetry(e, w) PROVE Lifecycle!Next
    BY <1>1, <2>8, RetryMaps
  <2>9. QED
    BY <2>1, <2>2, <2>3, <2>4, <2>5, <2>6, <2>7, <2>8 DEF Next, WorkerStep
<1>3. QED
  BY <1>2, LifecycleActions DEF Stutters

\* With one daemon per root, the tables change as EventLifecycle says, whatever
\* the processes do: events are claimed, begun, settled and retried one step at
\* a time, each start once, each failed attempt with one successor until the
\* policy is exhausted, and no stop, crash or raising write adds a step.
THEOREM LifecycleRefined ==
    ASSUME SoleDaemon
    PROVE  Spec => RefinesLifecycle
<1>1. Init => Lifecycle!Init
  <2>1. Init => Ids = {} /\ starts = <<>>
    BY DEF Init, Ids
  <2>2. Ids = {} => Rows = <<>>
    BY DEF Rows
  <2>3. QED
    BY <2>1, <2>2, LifecycleActions
<1>2. HistoryInv /\ HistoryInv' /\ [Next]_vars => [Lifecycle!Next]_(Lifecycle!vars)
  BY LifecycleStep
<1>3. QED
  BY <1>1, <1>2, HistoryInductive, PTL DEF Spec, RefinesLifecycle, Lifecycle!Spec
=============================================================================
