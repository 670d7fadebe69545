-------------------------- MODULE CronHistoryProofs --------------------------
(***************************************************************************)
(* What event rows, run history and retry chains say of each other, and    *)
(* that the engine implements EventLifecycle, for every set of engines,    *)
(* workers and jobs, every retry policy and every bound, with one daemon   *)
(* per root.                                                               *)
(***************************************************************************)
EXTENDS CronEngineProofs, FiniteSetTheorems

-----------------------------------------------------------------------------
(* The inductive invariant.                                                *)

\* A process that is down or about to be has no memory; run_once has one event
\* and one worker; only a daemon that is told to stop loses what it holds.
ModeOK(e) ==
    /\ mode[e] \in {"down", "exiting"} =>
          queue[e] = <<>> /\ \A w \in Workers : slot[e][w].at = "exited"
    /\ mode[e] # "daemon" => batch[e] = {}
    /\ mode[e] = "once" =>
          \E w \in Workers :
              /\ \A v \in Workers : v # w => slot[e][v].at = "exited"
              /\ \/ slot[e][w].at = "waiting" /\ Len(queue[e]) = 1
                 \/ slot[e][w].at \notin {"exited", "waiting"} /\ queue[e] = <<>>
    /\ mode[e] = "stopping" => outages > 0

ModeInv == \A e \in Engines : ModeOK(e)

\* A retry of the event has been created.
Followed(id) ==
    \E k \in 1 .. Len(events) :
        /\ events[k].origin = events[id].origin
        /\ events[k].attempt = events[id].attempt + 1

\* The attempts of one payload: same job, numbered in the order of their ids
\* without gaps, none twice, and no more than the policy permits.
ChainInv ==
    \A a \in 1 .. Len(events) :
        /\ events[a].origin <= a
        /\ events[a].attempt = 1 \/ events[a].attempt <= MaxAttempts[events[a].job]
        /\ \A n \in 1 .. events[a].attempt :
              \E k \in 1 .. Len(events) :
                  events[k].origin = events[a].origin /\ events[k].attempt = n
        /\ \A b \in 1 .. Len(events) : events[b].origin = events[a].origin =>
              /\ events[b].job = events[a].job
              /\ events[b].attempt = events[a].attempt => b = a
              /\ a < b => Followed(a)

\* Where an event is: with a worker at one of its points, in a queue, or held
\* by no process.
InSlot(id) == \E e \in Engines, w \in Workers : slot[e][w].ev = id
Waits(id) == \E e \in Engines : \E i \in 1 .. Len(queue[e]) : queue[e][i] = id

At(id, p) ==
    \/ \E e \in Engines, w \in Workers : slot[e][w].ev = id /\ slot[e][w].at = p
    \/ p = "queue" /\ Waits(id)
    \/ p = "free" /\ ~InSlot(id) /\ ~Waits(id)

Disturbed == outages + faults > 0

\* What row, run history and starts of an event say, by where it is.
Tells(id, p) ==
    /\ p \in {"queue", "mark_rejected", "mark_overlap"} =>
          events[id].status = "queued" /\ starts[id] = 0
    /\ p = "mark_rejected" => events[id].job \notin Enabled
    /\ p \in {"mark_overlap", "record_skipped"} \cup InFlight => events[id].job \in Enabled
    /\ p = "record_skipped" => events[id].status = "skipped" /\ starts[id] = 0
    /\ p \in InFlight => starts[id] = 1
    /\ p \in {"handler", "mark_processed"} => events[id].status = "queued"
    /\ p = "record_success" => events[id].status = "processed"
    /\ p \in {"create_retry", "mark_failed"} => events[id].status \in {"queued", "processed"}
    /\ p = "create_retry" => CanRetry(id)
    /\ p = "mark_failed" /\ CanRetry(id) => Followed(id)
    /\ p = "record_failure" => events[id].status = FinalStatus(id)
    /\ p # "free" => runs[id] = <<>>
    /\ p = "free" =>
          \/ events[id].status = "pending" /\ starts[id] = 0 /\ runs[id] = <<>>
          \/ events[id].status = "queued" /\ runs[id] = <<>> /\ Disturbed
          \/ events[id].status \in Settled /\ runs[id] = ExpectedRun(id)
          \/ events[id].status \in Settled /\ runs[id] = <<>> /\ Disturbed
    /\ Followed(id) => starts[id] = 1 /\ p \in {"mark_failed", "record_failure", "free"}
    /\ events[id].status = "dead_letter" =>
          starts[id] = 1 /\ RetryEnabled(events[id].job) /\ ~CanRetry(id)

Places == Points \cup {"queue", "free"}

StoryInv == \A id \in 1 .. Len(events), p \in Places : At(id, p) => Tells(id, p)

HistoryInv == TypeOK /\ ClaimInv /\ ModeInv /\ ChainInv /\ StoryInv

-----------------------------------------------------------------------------
(* Facts about rows and places.                                            *)

LEMMA RowTypes ==
    ASSUME TypeOK, NEW id \in 1 .. Len(events)
    PROVE  /\ id \in Nat \ {0} /\ Len(events) \in Nat
           /\ events[id] \in EventRecord
           /\ events[id].job \in Jobs /\ events[id].status \in Statuses
           /\ events[id].attempt \in Nat \ {0} /\ events[id].origin \in Nat \ {0}
           /\ MaxAttempts[events[id].job] \in Nat
           /\ starts[id] \in Nat
<1>1. events \in Seq(EventRecord) /\ starts \in Seq(Nat) /\ Len(starts) = Len(events)
  BY DEF TypeOK, TableOK
<1>2. events[id] \in EventRecord /\ starts[id] \in Nat /\ id \in Nat \ {0} /\ Len(events) \in Nat
  BY <1>1
<1>3. QED
  BY <1>2, EngineAssumption DEF EventRecord

LEMMA SomePlace ==
    ASSUME TypeOK, NEW id \in 1 .. Len(events)
    PROVE  \E p \in Places : At(id, p)
<1>1. CASE InSlot(id)
  <2>1. PICK e \in Engines, w \in Workers : slot[e][w].ev = id
    BY <1>1 DEF InSlot
  <2>2. slot[e][w].at \in Points
    BY DEF TypeOK, MemoryOK
  <2>3. QED
    BY <2>1, <2>2 DEF At, Places
<1>2. CASE Waits(id)
  BY <1>2 DEF At, Places
<1>3. CASE ~InSlot(id) /\ ~Waits(id)
  BY <1>3 DEF At, Places
<1>4. QED
  BY <1>1, <1>2, <1>3

\* An event a worker holds is in no other place.
LEMMA SlotPlace ==
    ClaimInv => \A e \in Engines, w \in Workers : \A p :
        slot[e][w].ev # 0 /\ At(slot[e][w].ev, p) => p = slot[e][w].at
<1> SUFFICES ASSUME ClaimInv, NEW e \in Engines, NEW w \in Workers, NEW p,
                    slot[e][w].ev # 0, At(slot[e][w].ev, p)
             PROVE  p = slot[e][w].at
  OBVIOUS
<1>1. InSlot(slot[e][w].ev)
  BY DEF InSlot
<1>2. ~Waits(slot[e][w].ev)
  BY DEF Waits, ClaimInv, SlotInv
<1>3. QED
  BY <1>1, <1>2 DEF At, ClaimInv, SlotInv

LEMMA QueuePlace ==
    ClaimInv => \A id, p : Waits(id) /\ At(id, p) => p = "queue"
<1> SUFFICES ASSUME ClaimInv, NEW id, NEW p, Waits(id), At(id, p)
             PROVE  p = "queue"
  OBVIOUS
<1>1. ~InSlot(id)
  BY DEF Waits, InSlot, ClaimInv, SlotInv
<1>2. QED
  BY <1>1 DEF At, InSlot

\* A step that leaves row, starts and run history of an event.
SameRow(id) ==
    /\ events'[id].status = events[id].status
    /\ starts'[id] = starts[id] /\ runs'[id] = runs[id]

LEMMA TellsKept ==
    ASSUME KeepsRows, NEW id \in 1 .. Len(events), SameRow(id), NEW p,
           Followed(id)' <=> Followed(id), Disturbed => Disturbed', Tells(id, p)
    PROVE  Tells(id, p)'
<1>1. /\ events'[id].job = events[id].job /\ events'[id].attempt = events[id].attempt
      /\ events'[id].status = events[id].status
      /\ starts'[id] = starts[id] /\ runs'[id] = runs[id]
  BY DEF KeepsRows, SameRow
<1>2. /\ CanRetry(id)' <=> CanRetry(id)
      /\ FinalStatus(id)' = FinalStatus(id)
      /\ ExpectedRun(id)' = ExpectedRun(id)
  BY <1>1 DEF CanRetry, FinalStatus, ExpectedRun, RetryEnabled
<1>3. QED
  BY <1>1, <1>2 DEF Tells, RetryEnabled

\* A process that goes down, or a write that raises, may let go of any event.
LEMMA TellsDropped ==
    ASSUME TypeOK, KeepsRows, NEW id \in 1 .. Len(events), SameRow(id), NEW p \in Places,
           Followed(id)' <=> Followed(id), Disturbed', Tells(id, p),
           p \notin {"exited", "waiting"}
    PROVE  Tells(id, "free")'
<1>1. /\ events'[id].job = events[id].job /\ events'[id].attempt = events[id].attempt
      /\ events'[id].status = events[id].status
      /\ starts'[id] = starts[id] /\ runs'[id] = runs[id]
  BY DEF KeepsRows, SameRow
<1>2. /\ CanRetry(id)' <=> CanRetry(id)
      /\ ExpectedRun(id)' = ExpectedRun(id)
  BY <1>1 DEF CanRetry, ExpectedRun
<1>3. CASE p = "free"
  BY <1>1, <1>2, <1>3 DEF Tells, RetryEnabled
<1>4. CASE p # "free"
  <2>1. p \in {"queue", "mark_rejected", "mark_overlap", "record_skipped", "handler",
              "mark_processed", "record_success", "create_retry", "mark_failed", "record_failure"}
    BY <1>4 DEF Places, Points, InFlight, Writing
  <2>2. FinalStatus(id) \in Settled
    BY DEF FinalStatus, Settled
  <2>3. runs[id] = <<>> /\ events[id].status \in {"queued"} \cup Settled
    BY <1>4, <2>1, <2>2 DEF Tells, Settled
  <2>4. QED
    BY <1>1, <1>2, <2>3 DEF Tells, RetryEnabled, InFlight, Writing, Points
<1>5. QED
  BY <1>3, <1>4

\* An event that a process holds is not at an idle worker.
LEMMA NoIdlePlace ==
    ASSUME TypeOK, NEW id \in 1 .. Len(events), NEW p, At(id, p)
    PROVE  p \notin {"exited", "waiting"}
<1>1. id # 0
  BY RowTypes
<1>2. \A e \in Engines, w \in Workers :
          slot[e][w].at \in {"exited", "waiting"} => slot[e][w].ev = 0
  BY DEF TypeOK, HeldOK
<1>3. QED
  BY <1>1, <1>2 DEF At

\* What every step has to show: the events it touches, and that all others stay
\* where they are or are let go by an outage or a write that raises.
LEMMA StoryStep ==
    ASSUME TypeOK, StoryInv, KeepsRows, Disturbed => Disturbed', NEW X,
           ASSUME NEW id \in 1 .. Len(events'), id \notin X
           PROVE  /\ id \in 1 .. Len(events) /\ SameRow(id)
                  /\ Followed(id)' <=> Followed(id)
                  /\ \A p \in Places : At(id, p)' => At(id, p) \/ (p = "free" /\ Disturbed'),
           ASSUME NEW id \in X, id \in 1 .. Len(events'), NEW p \in Places, At(id, p)'
           PROVE  Tells(id, p)'
    PROVE  StoryInv'
<1>1. ASSUME NEW id \in 1 .. Len(events'), id \notin X, NEW p \in Places, At(id, p)'
      PROVE  Tells(id, p)'
  <2>1. id \in 1 .. Len(events) /\ SameRow(id) /\ (Followed(id)' <=> Followed(id))
    BY <1>1
  <2>2. CASE At(id, p)
    BY <2>1, <2>2, TellsKept DEF StoryInv
  <2>3. CASE p = "free" /\ Disturbed'
    <3>1. PICK q \in Places : At(id, q)
      BY <2>1, SomePlace
    <3>2. Tells(id, q) /\ q \notin {"exited", "waiting"}
      BY <2>1, <3>1, NoIdlePlace DEF StoryInv
    <3>3. QED
      BY <2>1, <2>3, <3>2, TellsDropped
  <2>4. QED
    BY <1>1, <2>2, <2>3
<1>2. QED
  BY <1>1 DEF StoryInv, Places

\* Steps that write no row leave who is followed.
LEMMA FollowedKept ==
    ASSUME TypeOK, KeepsRows, Len(events') = Len(events)
    PROVE  \A id \in 1 .. Len(events) : Followed(id)' <=> Followed(id)
<1>1. Len(events) \in Nat
  BY DEF TypeOK, TableOK
<1>2. QED
  BY <1>1 DEF KeepsRows, Followed

-----------------------------------------------------------------------------
(* New rows and retry chains.                                              *)

LEMMA NewRow ==
    ASSUME TypeOK, NEW job, NEW status, NEW attempt, NEW ready, NEW origin,
           CreateEvent(job, status, attempt, ready, origin)
    PROVE  /\ Len(events) \in Nat /\ Len(events') = Len(events) + 1
           /\ \A id \in 1 .. Len(events) : events'[id] = events[id] /\ SameRow(id)
           /\ events'[Len(events) + 1].job = job
           /\ events'[Len(events) + 1].status = status
           /\ events'[Len(events) + 1].attempt = attempt
           /\ events'[Len(events) + 1].origin = origin
           /\ starts'[Len(events) + 1] = 0 /\ runs'[Len(events) + 1] = <<>>
<1>1. /\ events \in Seq(EventRecord)
      /\ runs \in Seq(Seq(RunStatuses)) /\ Len(runs) = Len(events)
      /\ starts \in Seq(Nat) /\ Len(starts) = Len(events)
  BY DEF TypeOK, TableOK
<1> DEFINE row == [job |-> job, status |-> status, attempt |-> attempt,
                   ready |-> ready, origin |-> origin]
<1>2. /\ events' = Append(events, row)
      /\ runs' = Append(runs, <<>>) /\ starts' = Append(starts, 0)
  BY DEF CreateEvent
<1>3. row.job = job /\ row.status = status /\ row.attempt = attempt /\ row.origin = origin
  OBVIOUS
<1> HIDE DEF row
<1>4. /\ Len(events') = Len(events) + 1 /\ events'[Len(events) + 1] = row
      /\ \A id \in 1 .. Len(events) : events'[id] = events[id]
  BY <1>1, <1>2
<1>5. /\ starts'[Len(events) + 1] = 0
      /\ \A id \in 1 .. Len(events) : starts'[id] = starts[id]
  BY <1>1, <1>2
<1>6. /\ runs'[Len(events) + 1] = <<>>
      /\ \A id \in 1 .. Len(events) : runs'[id] = runs[id]
  BY <1>1, <1>2
<1>7. QED
  BY <1>1, <1>3, <1>4, <1>5, <1>6 DEF SameRow

LEMMA ChainKept ==
    ASSUME TypeOK, KeepsRows, Len(events') = Len(events), ChainInv
    PROVE  ChainInv'
<1>1. 1 .. Len(events') = 1 .. Len(events)
  OBVIOUS
<1>2. \A a \in 1 .. Len(events) :
          /\ events'[a].job = events[a].job /\ events'[a].attempt = events[a].attempt
          /\ events'[a].origin = events[a].origin
          /\ Followed(a)' <=> Followed(a)
  BY FollowedKept DEF KeepsRows
<1>3. ASSUME NEW a \in 1 .. Len(events)
      PROVE  /\ events'[a].origin <= a
             /\ events'[a].attempt = 1 \/ events'[a].attempt <= MaxAttempts[events'[a].job]
             /\ \A n \in 1 .. events'[a].attempt :
                   \E k \in 1 .. Len(events) :
                       events'[k].origin = events'[a].origin /\ events'[k].attempt = n
             /\ \A b \in 1 .. Len(events) : events'[b].origin = events'[a].origin =>
                   /\ events'[b].job = events'[a].job
                   /\ events'[b].attempt = events'[a].attempt => b = a
                   /\ a < b => Followed(a)'
  <2>1. /\ events[a].origin <= a
        /\ events[a].attempt = 1 \/ events[a].attempt <= MaxAttempts[events[a].job]
        /\ \A n \in 1 .. events[a].attempt :
              \E k \in 1 .. Len(events) :
                  events[k].origin = events[a].origin /\ events[k].attempt = n
        /\ \A b \in 1 .. Len(events) : events[b].origin = events[a].origin =>
              /\ events[b].job = events[a].job
              /\ events[b].attempt = events[a].attempt => b = a
              /\ a < b => Followed(a)
    BY DEF ChainInv
  <2>2. QED
    BY <1>2, <2>1
<1>4. QED
  BY <1>1, <1>3 DEF ChainInv

\* A submitted event starts a chain of its own.
LEMMA ChainSubmit ==
    ASSUME TypeOK, ChainInv, NEW job, NEW status, NEW new, new = Len(events) + 1,
           CreateEvent(job, status, 1, TRUE, new)
    PROVE  /\ ChainInv'
           /\ \A id \in 1 .. Len(events) : Followed(id)' <=> Followed(id)
           /\ ~Followed(new)'
<1> DEFINE n == Len(events)
<1>1. /\ n \in Nat /\ new = n + 1 /\ Len(events') = new
      /\ \A id \in 1 .. n : events'[id] = events[id]
      /\ events'[new].attempt = 1 /\ events'[new].origin = new
  BY NewRow
<1>2. \A id \in 1 .. n : events[id].origin \in Nat /\ events[id].attempt \in Nat
  BY RowTypes
<1>3. \A id \in 1 .. n : events[id].origin <= id
  BY DEF ChainInv
<1>4. \A id \in 1 .. n : Followed(id) <=>
          \E k \in 1 .. n : /\ events[k].origin = events[id].origin
                            /\ events[k].attempt = events[id].attempt + 1
  BY DEF Followed
<1>5. \A id \in 1 .. new : Followed(id)' <=>
          \E k \in 1 .. new : /\ events'[k].origin = events'[id].origin
                                /\ events'[k].attempt = events'[id].attempt + 1
  BY <1>1 DEF Followed
<1> HIDE DEF n
<1>6. \A id \in 1 .. n : events'[id].origin # new /\ id # new /\ id \in 1 .. new
  BY <1>1, <1>2, <1>3
<1>7. \A id \in 1 .. new : id \in 1 .. n \/ id = new
  BY <1>1
<1>8. \A id \in 1 .. n : Followed(id)' <=> Followed(id)
  BY <1>1, <1>4, <1>5, <1>6, <1>7
<1>9. ~Followed(new)'
  <2>1. new \in 1 .. new
    BY <1>1
  <2>2. ASSUME NEW k \in 1 .. new
        PROVE  ~(events'[k].origin = events'[new].origin
                 /\ events'[k].attempt = events'[new].attempt + 1)
    <3>1. CASE k \in 1 .. n
      BY <3>1, <1>1, <1>6
    <3>2. CASE k = new
      BY <3>2, <1>1
    <3>3. QED
      BY <3>1, <3>2, <1>7
  <2>3. QED
    BY <2>1, <2>2, <1>5
<1>10. ChainInv'
  <2>1. ASSUME NEW a \in 1 .. n
        PROVE  /\ events'[a].origin <= a
               /\ events'[a].attempt = 1 \/ events'[a].attempt <= MaxAttempts[events'[a].job]
               /\ \A m \in 1 .. events'[a].attempt :
                     \E k \in 1 .. new :
                         events'[k].origin = events'[a].origin /\ events'[k].attempt = m
               /\ \A b \in 1 .. new : events'[b].origin = events'[a].origin =>
                     /\ events'[b].job = events'[a].job
                     /\ events'[b].attempt = events'[a].attempt => b = a
                     /\ a < b => Followed(a)'
    <3>1. /\ events[a].origin <= a
          /\ events[a].attempt = 1 \/ events[a].attempt <= MaxAttempts[events[a].job]
          /\ \A m \in 1 .. events[a].attempt :
                \E k \in 1 .. n :
                    events[k].origin = events[a].origin /\ events[k].attempt = m
          /\ \A b \in 1 .. n : events[b].origin = events[a].origin =>
                /\ events[b].job = events[a].job
                /\ events[b].attempt = events[a].attempt => b = a
                /\ a < b => Followed(a)
      BY DEF ChainInv, n
    <3>2. /\ events'[a] = events[a] /\ (Followed(a)' <=> Followed(a))
          /\ \A k \in 1 .. n : events'[k] = events[k] /\ k \in 1 .. new
      BY <1>1, <1>6, <1>8
    <3>3. ASSUME NEW b \in 1 .. new, events'[b].origin = events'[a].origin
          PROVE  b \in 1 .. n
      BY <1>1, <1>6, <1>7, <3>3
    <3>4. \A b \in 1 .. new : events'[b].origin = events'[a].origin =>
              /\ events'[b].job = events'[a].job
              /\ events'[b].attempt = events'[a].attempt => b = a
              /\ a < b => Followed(a)'
      BY <3>1, <3>2, <3>3
    <3>5. \A m \in 1 .. events'[a].attempt :
              \E k \in 1 .. new :
                  events'[k].origin = events'[a].origin /\ events'[k].attempt = m
      BY <3>1, <3>2
    <3>6. QED
      BY <3>1, <3>2, <3>4, <3>5
  <2>2. /\ events'[new].origin <= new
        /\ \A m \in 1 .. events'[new].attempt :
              events'[new].attempt = m
        /\ \A b \in 1 .. new : events'[b].origin = events'[new].origin => b = new
    BY <1>1, <1>6, <1>7
  <2>3. \A a \in 1 .. new : a \in 1 .. n \/ a = new
    BY <1>1
  <2>4. ~(new < new) /\ new \in 1 .. new
    BY <1>1
  <2>5. QED
    BY <1>1, <2>1, <2>2, <2>3, <2>4 DEF ChainInv
<1>11. QED
  BY <1>8, <1>9, <1>10 DEF n

\* A retry is the next and last of its chain.
LEMMA ChainRetry ==
    ASSUME TypeOK, ChainInv, NEW x \in 1 .. Len(events), CanRetry(x), ~Followed(x),
           NEW new, new = Len(events) + 1,
           CreateEvent(events[x].job, "pending", events[x].attempt + 1, FALSE, events[x].origin)
    PROVE  /\ ChainInv'
           /\ \A id \in 1 .. Len(events) : id # x => (Followed(id)' <=> Followed(id))
           /\ Followed(x)' /\ ~Followed(new)'
<1> DEFINE n == Len(events)
<1>1. /\ n \in Nat /\ new = n + 1 /\ Len(events') = new
      /\ \A id \in 1 .. n : events'[id] = events[id]
      /\ events'[new].job = events[x].job
      /\ events'[new].attempt = events[x].attempt + 1
      /\ events'[new].origin = events[x].origin
  BY ZenonT(60), NewRow
<1>2. \A id \in 1 .. n : events[id].origin \in Nat /\ events[id].attempt \in Nat \ {0} /\ id \in Nat
  BY RowTypes
<1>3. events[x].attempt < MaxAttempts[events[x].job] /\ MaxAttempts[events[x].job] \in Nat
  BY RowTypes DEF CanRetry
<1>4. \A a \in 1 .. n :
          /\ events[a].origin <= a
          /\ events[a].attempt = 1 \/ events[a].attempt <= MaxAttempts[events[a].job]
          /\ \A m \in 1 .. events[a].attempt :
                \E k \in 1 .. n :
                    events[k].origin = events[a].origin /\ events[k].attempt = m
          /\ \A b \in 1 .. n : events[b].origin = events[a].origin =>
                /\ events[b].job = events[a].job
                /\ events[b].attempt = events[a].attempt => b = a
                /\ a < b => Followed(a)
  BY DEF ChainInv
<1>5. \A id \in 1 .. n : Followed(id) <=>
          \E k \in 1 .. n : /\ events[k].origin = events[id].origin
                            /\ events[k].attempt = events[id].attempt + 1
  BY DEF Followed
<1>6. \A id \in 1 .. new : Followed(id)' <=>
          \E k \in 1 .. new : /\ events'[k].origin = events'[id].origin
                              /\ events'[k].attempt = events'[id].attempt + 1
  BY <1>1 DEF Followed
<1> HIDE DEF n
<1>7. /\ \A id \in 1 .. new : id \in 1 .. n \/ id = new
      /\ \A id \in 1 .. n : id \in 1 .. new /\ id < new /\ id # new
      /\ new \in 1 .. new /\ x \in 1 .. n
  BY <1>1 DEF n
\* No attempt of the chain lies beyond the one that failed.
<1>8. ASSUME NEW k \in 1 .. n, events[k].origin = events[x].origin
      PROVE  /\ events[k].attempt <= events[x].attempt
             /\ k <= x
  <2>1. CASE events[k].attempt > events[x].attempt
    <3>1. events[x].attempt + 1 \in 1 .. events[k].attempt
      BY <1>2, <1>7, <2>1
    <3>2. QED
      BY SMTT(60), <1>4, <1>5, <1>7, <1>8, <3>1
  <2>2. CASE k > x
    BY <1>4, <1>7, <1>8, <2>2
  <2>3. QED
    BY <1>2, <1>7, <2>1, <2>2
<1>9. Followed(x)'
  BY <1>1, <1>6, <1>7
<1>10. ~Followed(new)'
  <2>1. ASSUME NEW k \in 1 .. new
        PROVE  ~(events'[k].origin = events'[new].origin
                 /\ events'[k].attempt = events'[new].attempt + 1)
    <3>1. CASE k = new
      BY <3>1, <1>1, <1>2, <1>7
    <3>2. CASE k \in 1 .. n
      BY SMTT(60), <3>2, <1>1, <1>2, <1>7, <1>8
    <3>3. QED
      BY <3>1, <3>2, <1>7
  <2>2. QED
    BY <2>1, <1>6, <1>7
<1>11. ASSUME NEW id \in 1 .. n, id # x
       PROVE  Followed(id)' <=> Followed(id)
  <2>1. Followed(id) => Followed(id)'
    BY <1>1, <1>5, <1>6, <1>7
  <2>2. ASSUME events'[new].origin = events'[id].origin,
               events'[new].attempt = events'[id].attempt + 1
        PROVE  FALSE
    <3>1. events[x].origin = events[id].origin /\ events[x].attempt = events[id].attempt
      BY <1>1, <1>2, <1>7, <2>2
    <3>2. QED
      BY <1>4, <1>7, <1>11, <3>1
  <2>3. Followed(id)' => Followed(id)
    <3>1. ASSUME Followed(id)' PROVE Followed(id)
      <4>1. PICK k \in 1 .. new : /\ events'[k].origin = events'[id].origin
                                  /\ events'[k].attempt = events'[id].attempt + 1
        BY <1>6, <1>7, <3>1
      <4>2. k \in 1 .. n
        BY <1>7, <2>2, <4>1
      <4>3. QED
        BY <1>1, <1>5, <4>1, <4>2
    <3>2. QED
      BY <3>1
  <2>4. QED
    BY <2>1, <2>3
<1>12. ASSUME NEW a \in 1 .. new
       PROVE  /\ events'[a].origin <= a
              /\ events'[a].attempt = 1 \/ events'[a].attempt <= MaxAttempts[events'[a].job]
              /\ \A m \in 1 .. events'[a].attempt :
                    \E k \in 1 .. new :
                        events'[k].origin = events'[a].origin /\ events'[k].attempt = m
              /\ \A b \in 1 .. new : events'[b].origin = events'[a].origin =>
                    /\ events'[b].job = events'[a].job
                    /\ events'[b].attempt = events'[a].attempt => b = a
                    /\ a < b => Followed(a)'
  <2>1. \A k \in 1 .. n : events'[k] = events[k]
    BY <1>1
  <2>2. CASE a \in 1 .. n
    <3>1. events'[a].origin <= a
          /\ (events'[a].attempt = 1 \/ events'[a].attempt <= MaxAttempts[events'[a].job])
      BY <1>4, <2>1, <2>2
    <3>2. ASSUME NEW m \in 1 .. events'[a].attempt
          PROVE  \E k \in 1 .. new :
                     events'[k].origin = events'[a].origin /\ events'[k].attempt = m
      <4>1. PICK k \in 1 .. n : events[k].origin = events[a].origin /\ events[k].attempt = m
        BY <1>4, <2>1, <2>2
      <4>2. QED
        BY <1>7, <2>1, <2>2, <4>1
    <3>3. Followed(a) => Followed(a)'
      BY <1>9, <1>11, <2>2
    <3>4. ASSUME NEW b \in 1 .. new, events'[b].origin = events'[a].origin
          PROVE  /\ events'[b].job = events'[a].job
                 /\ events'[b].attempt = events'[a].attempt => b = a
                 /\ a < b => Followed(a)'
      <4>1. CASE b \in 1 .. n
        BY <1>4, <2>1, <2>2, <3>3, <3>4, <4>1
      <4>2. CASE b = new
        <5>1. events[a].origin = events[x].origin
          BY <1>1, <2>1, <2>2, <3>4, <4>2
        <5>2. events[a].job = events[x].job /\ events[a].attempt <= events[x].attempt /\ a <= x
          BY <1>4, <1>7, <1>8, <2>2, <5>1
        <5>3. a # x => a < x /\ Followed(a)
          BY <1>2, <1>4, <1>7, <2>2, <5>1, <5>2
        <5>4. Followed(a)'
          BY <1>9, <3>3, <5>3
        <5>5. events'[b].attempt # events'[a].attempt
          BY SMTT(60), <1>1, <1>2, <1>7, <2>1, <2>2, <4>2, <5>2
        <5>6. QED
          BY <1>1, <2>1, <2>2, <4>2, <5>2, <5>4, <5>5
      <4>3. QED
        BY <1>7, <4>1, <4>2
    <3>5. QED
      BY <3>1, <3>2, <3>4
  <2>3. CASE a = new
    <3>1. events[x].origin <= x /\ x < new
      BY <1>4, <1>7
    <3>2. events'[a].origin <= a
      BY <1>1, <1>2, <1>7, <2>3, <3>1
    <3>3. events'[a].attempt <= MaxAttempts[events'[a].job]
      BY SMTT(60), <1>1, <1>2, <1>3, <1>7, <2>3
    <3>4. ASSUME NEW m \in 1 .. events'[a].attempt
          PROVE  \E k \in 1 .. new :
                     events'[k].origin = events'[a].origin /\ events'[k].attempt = m
      <4>1. m \in 1 .. events[x].attempt \/ m = events'[new].attempt
        BY <1>1, <1>2, <1>7, <2>3
      <4>2. QED
        BY SMTT(60), <1>1, <1>4, <1>7, <2>1, <2>3, <4>1
    <3>5. ASSUME NEW b \in 1 .. new, events'[b].origin = events'[a].origin
          PROVE  /\ events'[b].job = events'[a].job
                 /\ events'[b].attempt = events'[a].attempt => b = a
                 /\ ~(a < b)
      <4>1. CASE b \in 1 .. n
        <5>1. events[b].origin = events[x].origin
          BY <1>1, <2>1, <2>3, <3>5, <4>1
        <5>2. events[b].job = events[x].job /\ events[b].attempt <= events[x].attempt
          BY <1>4, <1>7, <1>8, <4>1, <5>1
        <5>3. QED
          BY SMTT(60), <1>1, <1>2, <1>7, <2>1, <2>3, <4>1, <5>2
      <4>2. CASE b = new
        BY <1>1, <2>3, <4>2
      <4>3. QED
        BY <1>7, <4>1, <4>2
    <3>6. QED
      BY <3>2, <3>3, <3>4, <3>5
  <2>4. QED
    BY <1>7, <2>2, <2>3
<1>13. ChainInv'
  <2>1. 1 .. Len(events') = 1 .. new
    BY <1>1
  <2>2. QED
    BY <1>12, <2>1 DEF ChainInv
<1>14. QED
  BY <1>9, <1>10, <1>11, <1>13 DEF n

-----------------------------------------------------------------------------
(* The life of a process.                                                  *)

LEMMA ModeFrame ==
    ASSUME TypeOK, NEW f \in Engines, ModeOK(f),
           mode'[f] = mode[f], queue'[f] = queue[f], batch'[f] = batch[f],
           slot'[f] = slot[f], outages' >= outages, outages' \in Nat
    PROVE  ModeOK(f)'
<1>1. outages \in Nat
  BY EngineAssumption DEF TypeOK, MemoryOK
<1>2. QED
  BY <1>1 DEF ModeOK

LEMMA Counters ==
    TypeOK => outages \in Nat /\ faults \in Nat
BY EngineAssumption DEF TypeOK, MemoryOK

\* What a worker does with its event: it goes on, or it lets go of it.
Busy(e, w) == slot[e][w].at \notin {"exited", "waiting"}

GoesOn(e, w) ==
    /\ Busy(e, w) /\ mode' = mode
    /\ \E at \in InFlight \cup Writing : Goto(e, w, at)

LetsGo(e, w) ==
    /\ Busy(e, w)
    /\ \E at \in {"exited", "waiting"} :
          Leave(e, w, at) /\ (mode[e] # "daemon" => at = "exited")

LEMMA ReturnLetsGo ==
    ASSUME NEW e, NEW w, Busy(e, w), Return(e, w)
    PROVE  LetsGo(e, w)
BY DEF Return, LetsGo

LEMMA WorkerKinds ==
    ASSUME NEW e, NEW w, WorkerStep(e, w)
    PROVE  \/ Dequeue(e, w) \/ IdleTimeout(e, w)
           \/ /\ GoesOn(e, w) \/ LetsGo(e, w)
              /\ UNCHANGED <<queue, batch, outages>>
<1>1. CASE HandlerReturns(e, w) \/ HandlerRaises(e, w) \/ HandlerTimesOut(e, w)
  <2>1. FailurePoint(slot[e][w].ev) \in InFlight
    BY DEF FailurePoint, InFlight
  <2>2. \E at \in InFlight : Goto(e, w, at)
    BY <1>1, <2>1 DEF HandlerReturns, HandlerRaises, HandlerTimesOut, InFlight
  <2>3. QED
    BY <1>1, <2>2 DEF HandlerReturns, HandlerRaises, HandlerTimesOut, AwaitEnds, GoesOn, Busy
<1>2. CASE MarkOverlap(e, w) \/ MarkProcessed(e, w) \/ CreateRetry(e, w) \/ MarkFailed(e, w)
  BY <1>2 DEF MarkOverlap, MarkProcessed, CreateRetry, MarkFailed, GoesOn, Busy, InFlight, Writing
<1>3. CASE OutcomeWriteFails(e, w)
  <2>1. FailurePoint(slot[e][w].ev) \in InFlight
    BY DEF FailurePoint, InFlight
  <2>2. QED
    BY <1>3, <2>1 DEF OutcomeWriteFails, GoesOn, Busy
<1>4. CASE MarkRejected(e, w) \/ RecordSkipped(e, w) \/ RecordSuccess(e, w) \/ RecordFailure(e, w)
  BY <1>4, ReturnLetsGo DEF MarkRejected, RecordSkipped, RecordSuccess, RecordFailure, Busy
<1>5. CASE WorkerFails(e, w)
  BY <1>5 DEF WorkerFails, LetsGo, Busy, Writing, InFlight
<1>6. QED
  BY <1>1, <1>2, <1>3, <1>4, <1>5 DEF WorkerStep

LEMMA ModeWorker ==
    ASSUME TypeOK, ModeInv, NEW e \in Engines, NEW w \in Workers, WorkerStep(e, w)
    PROVE  ModeInv'
<1>0. /\ outages \in Nat /\ queue \in [Engines -> Seq(Nat)] /\ mode \in [Engines -> Modes]
      /\ slot \in [Engines -> [Workers -> [at : Points, ev : Nat]]]
      /\ ModeOK(e)
  BY Counters DEF TypeOK, MemoryOK, ModeInv
<1>1. ASSUME \A f \in Engines : f # e => /\ mode'[f] = mode[f] /\ queue'[f] = queue[f]
                                         /\ batch'[f] = batch[f] /\ slot'[f] = slot[f],
             outages' = outages, ModeOK(e)'
      PROVE  ModeInv'
  <2>1. outages' >= outages /\ outages' \in Nat
    BY <1>0, <1>1
  <2>2. QED
    BY <1>1, <2>1, ModeFrame DEF ModeInv
<1>2. CASE Dequeue(e, w)
  <2>1. /\ slot[e][w].at = "waiting" /\ queue[e] # <<>>
        /\ UNCHANGED <<mode, batch, outages>>
        /\ queue' = [queue EXCEPT ![e] = Tail(@)]
        /\ \E id : slot' = [slot EXCEPT ![e][w] = [at |-> Admission(e, events[id].job), ev |-> id]]
    BY <1>2 DEF Dequeue
  <2>2. PICK id : slot' = [slot EXCEPT ![e][w] = [at |-> Admission(e, events[id].job), ev |-> id]]
    BY <2>1
  <2>3. Admission(e, events[id].job) \notin {"exited", "waiting"}
    BY DEF Admission
  <2>4. /\ slot'[e][w].at = Admission(e, events[id].job)
        /\ \A v \in Workers : v # w => slot'[e][v] = slot[e][v]
        /\ \A f \in Engines : f # e => slot'[f] = slot[f]
    BY <1>0, <2>2
  <2>5. queue'[e] = Tail(queue[e]) /\ \A f \in Engines : f # e => queue'[f] = queue[f]
    BY <1>0, <2>1
  <2>6. Len(queue[e]) = 1 => Tail(queue[e]) = <<>>
    <3>1. queue[e] \in Seq(Nat) /\ queue[e] # <<>>
      BY <1>0, <2>1
    <3>2. Tail(queue[e]) \in Seq(Nat) /\ Len(Tail(queue[e])) = Len(queue[e]) - 1
      BY <3>1
    <3>3. Len(queue[e]) = 1 => Len(Tail(queue[e])) = 0
      BY <3>2
    <3>4. Tail(queue[e]) # <<>> => Len(Tail(queue[e])) # 0
      BY <3>2, EmptySeq
    <3>5. QED
      BY <3>3, <3>4
  <2>7. ModeOK(e)'
    <3>1. mode[e] \notin {"down", "exiting"}
      BY <1>0, <2>1 DEF ModeOK
    <3>2. CASE mode[e] = "once"
      <4>1. /\ \A v \in Workers : v # w => slot[e][v].at = "exited"
            /\ Len(queue[e]) = 1 /\ batch[e] = {}
        BY <1>0, <2>1, <3>2 DEF ModeOK
      <4>2. /\ \A v \in Workers : v # w => slot'[e][v].at = "exited"
            /\ queue'[e] = <<>> /\ slot'[e][w].at \notin {"exited", "waiting"}
        BY <2>3, <2>4, <2>5, <2>6, <4>1
      <4>3. QED
        BY <2>1, <3>2, <4>1, <4>2 DEF ModeOK
    <3>3. CASE mode[e] # "once"
      BY <1>0, <2>1, <3>1, <3>3 DEF ModeOK
    <3>4. QED
      BY <3>2, <3>3
  <2>8. QED
    BY <1>1, <2>1, <2>4, <2>5, <2>7
<1>3. CASE IdleTimeout(e, w)
  <2>1. /\ mode[e] \in {"daemon", "stopping"} /\ UNCHANGED <<mode, queue, batch, outages>>
        /\ slot' = slot \/ slot' = [slot EXCEPT ![e][w] = Idle("exited")]
    BY <1>3 DEF IdleTimeout
  <2>2. \A f \in Engines : f # e => slot'[f] = slot[f]
    BY <1>0, <2>1
  <2>3. ModeOK(e)'
    BY <1>0, <2>1 DEF ModeOK
  <2>4. QED
    BY <1>1, <2>1, <2>2, <2>3
<1>4. CASE GoesOn(e, w) /\ UNCHANGED <<queue, batch, outages>>
  <2>1. PICK at \in InFlight \cup Writing : Goto(e, w, at)
    BY <1>4 DEF GoesOn
  <2>2. at \notin {"exited", "waiting"} /\ slot[e][w].at \notin {"exited", "waiting"} /\ mode' = mode
    BY <1>4, <2>1 DEF GoesOn, Busy, InFlight, Writing
  <2>3. /\ slot'[e][w].at = at
        /\ \A v \in Workers : v # w => slot'[e][v] = slot[e][v]
        /\ \A f \in Engines : f # e => slot'[f] = slot[f]
    BY <1>0, <2>1 DEF Goto
  <2>4. \A v \in Workers :
            /\ slot[e][v].at = "exited" => slot'[e][v].at = "exited"
            /\ slot[e][v].at \notin {"exited", "waiting"} <=> slot'[e][v].at \notin {"exited", "waiting"}
            /\ slot[e][v].at = "waiting" => slot'[e][v].at = "waiting"
    BY <2>2, <2>3
  <2>5. ModeOK(e)'
    BY <1>0, <1>4, <2>2, <2>4 DEF ModeOK
  <2>6. QED
    BY <1>1, <1>4, <2>2, <2>3, <2>5
<1>5. CASE LetsGo(e, w) /\ UNCHANGED <<queue, batch, outages>>
  <2>1. PICK at \in {"exited", "waiting"} :
            Leave(e, w, at) /\ (mode[e] # "daemon" => at = "exited")
    BY <1>5 DEF LetsGo
  <2>2. slot[e][w].at \notin {"exited", "waiting"}
    BY <1>5 DEF LetsGo, Busy
  <2>3. /\ slot'[e][w].at = at
        /\ \A v \in Workers : v # w => slot'[e][v] = slot[e][v]
        /\ \A f \in Engines : f # e => slot'[f] = slot[f]
        /\ mode'[e] = IF mode[e] = "once" THEN "exiting" ELSE mode[e]
        /\ \A f \in Engines : f # e => mode'[f] = mode[f]
    BY <1>0, <2>1 DEF Leave, Idle
  <2>4. ModeOK(e)'
    <3>1. mode[e] \notin {"down", "exiting"}
      BY <1>0, <2>2 DEF ModeOK
    <3>2. CASE mode[e] = "once"
      <4>1. queue[e] = <<>> /\ (\A v \in Workers : v # w => slot[e][v].at = "exited") /\ batch[e] = {}
        BY <1>0, <2>2, <3>2 DEF ModeOK
      <4>2. QED
        BY <1>5, <2>1, <2>3, <3>2, <4>1 DEF ModeOK
    <3>3. CASE mode[e] # "once"
      BY <1>0, <1>5, <2>3, <3>1, <3>3 DEF ModeOK
    <3>4. QED
      BY <3>2, <3>3
  <2>5. QED
    BY <1>1, <1>5, <2>3, <2>4
<1>6. QED
  BY <1>2, <1>3, <1>4, <1>5, WorkerKinds

LEMMA ModeStep ==
    ASSUME TypeOK, ClaimInv, ModeInv, [Next]_vars
    PROVE  ModeInv'
<1>0. /\ outages \in Nat /\ mode \in [Engines -> Modes] /\ batch \in [Engines -> SUBSET Nat]
      /\ slot \in [Engines -> [Workers -> [at : Points, ev : Nat]]]
      /\ queue \in [Engines -> Seq(Nat)]
  BY Counters DEF TypeOK, MemoryOK
<1>1. ASSUME NEW e \in Engines,
             \A f \in Engines : f # e => /\ mode'[f] = mode[f] /\ queue'[f] = queue[f]
                                         /\ batch'[f] = batch[f] /\ slot'[f] = slot[f],
             outages' \in {outages, outages + 1}, ModeOK(e)'
      PROVE  ModeInv'
  <2>1. outages' >= outages /\ outages' \in Nat
    BY <1>0, <1>1
  <2>2. QED
    BY <1>1, <2>1, ModeFrame DEF ModeInv
<1>2. ASSUME UNCHANGED <<mode, queue, batch, slot, outages>>
      PROVE  ModeInv'
  BY <1>2 DEF ModeInv, ModeOK
<1>3. CASE UNCHANGED vars
  BY <1>2, <1>3 DEF vars
<1>4. ASSUME NEW job \in Jobs, Trigger(job) PROVE ModeInv'
  BY <1>2, <1>4 DEF Trigger
<1>5. ASSUME NEW id \in Ids, BackoffElapses(id) PROVE ModeInv'
  BY <1>2, <1>5 DEF BackoffElapses
<1>6. ASSUME NEW e \in Engines, Start(e) PROVE ModeInv'
  <2>1. ModeOK(e) /\ mode[e] = "down"
    BY <1>6 DEF ModeInv, Start
  <2>2. /\ UNCHANGED <<queue, batch, outages>> /\ mode'[e] = "daemon"
        /\ \A f \in Engines : f # e => mode'[f] = mode[f] /\ slot'[f] = slot[f]
    BY <1>0, <1>6 DEF Start
  <2>3. ModeOK(e)'
    BY <2>2 DEF ModeOK
  <2>4. QED
    BY <1>1, <2>2, <2>3
<1>7. ASSUME NEW e \in Engines, Stop(e) PROVE ModeInv'
  <2>1. /\ UNCHANGED <<queue, batch, slot>> /\ mode'[e] = "stopping" /\ batch[e] = {}
        /\ outages' = outages + 1 /\ \A f \in Engines : f # e => mode'[f] = mode[f]
    BY <1>0, <1>7 DEF Stop, LoopFree
  <2>2. outages' > 0
    BY <1>0, <2>1
  <2>3. ModeOK(e)'
    BY <2>1, <2>2 DEF ModeOK
  <2>4. QED
    BY <1>1, <2>1, <2>3
<1>8. ASSUME NEW e \in Engines, Shutdown(e) \/ ProcessExit(e) \/ Crash(e) PROVE ModeInv'
  <2>1. /\ LoseMemory(e) /\ mode'[e] \in {"down", "exiting"}
        /\ outages' \in {outages, outages + 1} /\ \A f \in Engines : f # e => mode'[f] = mode[f]
    BY <1>0, <1>8 DEF Shutdown, ProcessExit, Crash
  <2>2. /\ queue'[e] = <<>> /\ batch'[e] = {}
        /\ \A w \in Workers : slot'[e][w] = Idle("exited")
        /\ \A f \in Engines : f # e => /\ queue'[f] = queue[f] /\ batch'[f] = batch[f]
                                       /\ slot'[f] = slot[f]
    BY <1>0, <2>1 DEF LoseMemory
  <2>3. Idle("exited").at = "exited"
    BY DEF Idle
  <2>4. ModeOK(e)'
    BY <2>1, <2>2, <2>3 DEF ModeOK
  <2>5. QED
    BY <1>1, <2>1, <2>2, <2>4
<1>9. ASSUME NEW e \in Engines, Poll(e) \/ PollerFails(e) PROVE ModeInv'
  <2>1. /\ UNCHANGED <<queue, slot, mode, outages>> /\ mode[e] = "daemon"
        /\ \A f \in Engines : f # e => batch'[f] = batch[f]
    BY <1>0, <1>9 DEF Poll, PollerFails
  <2>2. ModeOK(e)'
    BY <2>1 DEF ModeOK
  <2>3. QED
    BY <1>1, <2>1, <2>2
<1>10. ASSUME NEW e \in Engines, TakePending(e) PROVE ModeInv'
  <2>1. /\ UNCHANGED <<slot, mode, outages>> /\ batch[e] # {}
        /\ \A f \in Engines : f # e => batch'[f] = batch[f] /\ queue'[f] = queue[f]
    BY <1>0, <1>10 DEF TakePending
  <2>2. mode[e] = "daemon"
    BY <2>1 DEF ModeInv, ModeOK
  <2>3. ModeOK(e)'
    BY <2>1, <2>2 DEF ModeOK
  <2>4. QED
    BY <1>1, <2>1, <2>3
<1>11. ASSUME NEW e \in Engines, NEW job \in Jobs, Enqueue(e, job) PROVE ModeInv'
  <2>1. /\ UNCHANGED <<slot, mode, batch, outages>> /\ mode[e] \in {"daemon", "stopping"}
        /\ \A f \in Engines : f # e => queue'[f] = queue[f]
    BY <1>0, <1>11 DEF Enqueue
  <2>2. ModeOK(e) /\ ModeOK(e)'
    BY <2>1 DEF ModeInv, ModeOK
  <2>3. QED
    BY <1>1, <2>1, <2>2
<1>12. ASSUME NEW e \in Engines, NEW id \in threads[e], ThreadEnds(e, id) PROVE ModeInv'
  BY <1>2, <1>12 DEF ThreadEnds
<1>13. ASSUME NEW e \in Engines, NEW w \in Workers, NEW job \in Jobs, RunOnce(e, w, job)
       PROVE  ModeInv'
  <2>1. /\ ModeOK(e) /\ mode[e] = "down" /\ UNCHANGED <<batch, outages>>
        /\ mode'[e] = "once" /\ queue'[e] = <<Len(events) + 1>>
        /\ \A f \in Engines : f # e => mode'[f] = mode[f] /\ queue'[f] = queue[f]
        /\ slot' = [slot EXCEPT ![e][w] = Idle("waiting")]
    BY <1>0, <1>13 DEF RunOnce, ModeInv
  <2>2. /\ slot'[e][w].at = "waiting"
        /\ \A v \in Workers : v # w => slot'[e][v] = slot[e][v]
        /\ \A f \in Engines : f # e => slot'[f] = slot[f]
    BY <1>0, <2>1 DEF Idle
  <2>3. ModeOK(e)'
    BY <2>1, <2>2 DEF ModeOK
  <2>4. QED
    BY <1>1, <2>1, <2>2, <2>3
<1>14. ASSUME NEW e \in Engines, NEW w \in Workers, WorkerStep(e, w) PROVE ModeInv'
  BY <1>14, ModeWorker
<1>15. QED
  BY <1>3, <1>4, <1>5, <1>6, <1>7, <1>8, <1>9, <1>10, <1>11, <1>12, <1>13, <1>14 DEF Next

-----------------------------------------------------------------------------
(* What the writes of a worker do to its event.                            *)

LEMMA MarkRow ==
    ASSUME TypeOK, NEW x \in 1 .. Len(events), NEW status \in Statuses, MarkEvent(x, status)
    PROVE  /\ KeepsRows /\ Len(events') = Len(events)
           /\ \A id \in 1 .. Len(events) : id # x => events'[id] = events[id] /\ SameRow(id)
           /\ events'[x].status = status /\ starts'[x] = starts[x] /\ runs'[x] = runs[x]
<1>1. TableOK
  BY DEF TypeOK
<1>2. /\ KeepsRows /\ Len(events') = Len(events) /\ events'[x].status = status
      /\ \A id \in 1 .. Len(events) : id # x => events'[id] = events[id]
  BY <1>1, MarkEventType
<1>3. starts' = starts /\ runs' = runs
  BY DEF MarkEvent
<1>4. QED
  BY <1>2, <1>3 DEF SameRow

LEMMA RecordRow ==
    ASSUME TypeOK, NEW x \in 1 .. Len(events), NEW status, RecordRun(x, status), runs[x] = <<>>
    PROVE  /\ KeepsRows /\ events' = events /\ starts' = starts
           /\ \A id \in 1 .. Len(events) : id # x => SameRow(id)
           /\ runs'[x] = <<status>>
<1>1. events' = events /\ starts' = starts /\ runs' = [runs EXCEPT ![x] = Append(runs[x], status)]
  BY DEF RecordRun
<1>2. runs \in Seq(Seq(RunStatuses)) /\ Len(runs) = Len(events) /\ Len(events) \in Nat
  BY DEF TypeOK, TableOK
<1>3. runs'[x] = Append(<<>>, status)
  BY <1>1, <1>2
<1>4. Append(<<>>, status) = <<status>>
  OBVIOUS
<1>5. KeepsRows
  BY <1>1, <1>2 DEF KeepsRows
<1>6. QED
  BY <1>1, <1>2, <1>3, <1>4, <1>5 DEF SameRow

LEMMA QuietRow ==
    ASSUME TypeOK, UNCHANGED table
    PROVE  /\ KeepsRows /\ events' = events
           /\ \A id \in 1 .. Len(events) : SameRow(id)
           /\ \A id : Followed(id)' <=> Followed(id)
<1>1. events' = events /\ starts' = starts /\ runs' = runs /\ Len(events) \in Nat
  BY DEF table, TypeOK, TableOK
<1>2. QED
  BY <1>1 DEF KeepsRows, SameRow, Followed

\* The retry policy sees what no step changes.
LEMMA PolicyKept ==
    ASSUME KeepsRows, NEW x \in 1 .. Len(events)
    PROVE  /\ events'[x].job = events[x].job /\ events'[x].attempt = events[x].attempt
           /\ CanRetry(x)' <=> CanRetry(x)
           /\ FinalStatus(x)' = FinalStatus(x)
           /\ FailurePoint(x)' = FailurePoint(x)
           /\ RetryEnabled(events[x].job)' <=> RetryEnabled(events[x].job)
<1>1. events'[x].job = events[x].job /\ events'[x].attempt = events[x].attempt
  BY DEF KeepsRows
<1>2. QED
  BY <1>1 DEF CanRetry, FinalStatus, FailurePoint, RetryEnabled

LEMMA WorkerTells ==
    ASSUME TypeOK, StoryInv, NEW e \in Engines, NEW w \in Workers, Busy(e, w),
           NEW x, x = slot[e][w].ev
    PROVE  /\ x \in 1 .. Len(events) /\ x # 0
           /\ At(x, slot[e][w].at) /\ Tells(x, slot[e][w].at)
<1>1. x \in 1 .. Len(events)
  BY BusySlot DEF Busy
<1>2. x # 0
  BY <1>1, RowTypes
<1>3. At(x, slot[e][w].at) /\ slot[e][w].at \in Places
  BY DEF At, Places, TypeOK, MemoryOK
<1>4. QED
  BY <1>1, <1>2, <1>3 DEF StoryInv

LEMMA PlaceKept ==
    ASSUME NEW id,
           \A f \in Engines, v \in Workers :
               /\ slot'[f][v].ev = id <=> slot[f][v].ev = id
               /\ slot[f][v].ev = id => slot'[f][v].at = slot[f][v].at,
           Waits(id)' <=> Waits(id)
    PROVE  \A p : At(id, p)' <=> At(id, p)
<1>1. InSlot(id)' <=> InSlot(id)
  BY DEF InSlot
<1>2. QED
  BY <1>1 DEF At

LEMMA SameQueueWaits ==
    ASSUME queue' = queue, NEW id
    PROVE  Waits(id)' <=> Waits(id)
BY DEF Waits

\* Of the events that are not in X, the step writes nothing.
Untouched(X) ==
    \A id \in 1 .. Len(events') : id \notin X =>
        /\ id \in 1 .. Len(events) /\ SameRow(id)
        /\ Followed(id)' <=> Followed(id)

\* The other events in X are as they should be afterwards.
Settles(x, X) ==
    \A id \in 1 .. Len(events'), p \in Places :
        id \in X /\ id # x /\ At(id, p)' => Tells(id, p)'

\* The worker puts its event at the place to.
Moves(e, w, to) ==
    /\ to \notin {"exited", "waiting"}
    /\ \/ to # "free" /\ Goto(e, w, to)
       \/ to = "free" /\ LetsGo(e, w)

\* A worker goes on with its event, or lets it go.
LEMMA StoryWorker ==
    ASSUME TypeOK, TypeOK', KeepsRows, ClaimInv, ClaimInv', StoryInv, Disturbed => Disturbed',
           NEW e \in Engines, NEW w \in Workers, Busy(e, w), NEW x, x = slot[e][w].ev,
           NEW to, Moves(e, w, to), queue' = queue,
           NEW X, x \in X, Untouched(X), Settles(x, X),
           Tells(x, to)'
    PROVE  StoryInv'
<1>1. x # 0 /\ slot \in [Engines -> [Workers -> [at : Points, ev : Nat]]]
  BY WorkerTells DEF TypeOK, MemoryOK
<1>2. \A f \in Engines, v \in Workers : f # e \/ v # w =>
          slot'[f][v] = slot[f][v] /\ slot[f][v].ev # x
  <2>1. \A f \in Engines, v \in Workers : f # e \/ v # w => slot[f][v].ev # x
    BY <1>1 DEF ClaimInv, SlotInv
  <2>2. QED
    BY <1>1, <2>1 DEF Moves, Goto, LetsGo, Leave
<1>3. IF to = "free" THEN slot'[e][w].ev = 0
      ELSE slot'[e][w].ev = x /\ slot'[e][w].at = to
  <2>1. CASE to = "free"
    <3>1. PICK at : slot' = [slot EXCEPT ![e][w] = Idle(at)]
      BY <2>1 DEF Moves, LetsGo, Leave
    <3>2. slot'[e][w] = Idle(at)
      BY <1>1, <3>1
    <3>3. QED
      BY <2>1, <3>2 DEF Idle
  <2>2. CASE to # "free"
    <3>1. slot' = [slot EXCEPT ![e][w].at = to]
      BY <2>2 DEF Moves, Goto
    <3>2. slot'[e][w] = [slot[e][w] EXCEPT !.at = to]
      BY <1>1, <3>1
    <3>3. slot[e][w] \in [at : Points, ev : Nat]
      BY <1>1
    <3>4. QED
      BY <2>2, <3>2, <3>3
  <2>3. QED
    BY <2>1, <2>2
<1>4. ASSUME NEW id \in 1 .. Len(events'), id # x, id # 0, NEW p, At(id, p)'
      PROVE  At(id, p)
  <2>1. Waits(id)' <=> Waits(id)
    BY SameQueueWaits
  <2>2. \A f \in Engines, v \in Workers :
            /\ slot'[f][v].ev = id <=> slot[f][v].ev = id
            /\ slot[f][v].ev = id => slot'[f][v].at = slot[f][v].at
    BY <1>2, <1>3, <1>4
  <2>3. QED
    BY <1>4, <2>1, <2>2, PlaceKept
<1>5. ASSUME NEW p, At(x, p)'
      PROVE  p = to
  <2>1. ~Waits(x)'
    BY DEF Waits, ClaimInv, SlotInv
  <2>2. CASE to = "free"
    <3>1. ~InSlot(x)'
      BY <1>1, <1>2, <1>3, <2>2 DEF InSlot
    <3>2. QED
      BY <1>5, <2>1, <2>2, <3>1 DEF At, InSlot
  <2>3. CASE to # "free"
    <3>1. InSlot(x)'
      BY <1>3, <2>3 DEF InSlot
    <3>2. \A f \in Engines, v \in Workers : slot'[f][v].ev = x => f = e /\ v = w
      BY <1>2
    <3>3. QED
      BY <1>3, <1>5, <2>1, <2>3, <3>1, <3>2 DEF At
  <2>4. QED
    BY <2>2, <2>3
<1>6. ASSUME NEW id \in 1 .. Len(events'), id \notin X
      PROVE  /\ id \in 1 .. Len(events) /\ SameRow(id)
             /\ Followed(id)' <=> Followed(id)
             /\ \A p \in Places : At(id, p)' => At(id, p) \/ (p = "free" /\ Disturbed')
  <2>1. /\ id \in 1 .. Len(events) /\ SameRow(id) /\ id # x
        /\ Followed(id)' <=> Followed(id)
    BY <1>6 DEF Untouched
  <2>2. id # 0
    BY <2>1, RowTypes
  <2>3. QED
    BY <1>4, <1>6, <2>1, <2>2
<1>7. ASSUME NEW id \in X, id \in 1 .. Len(events'), NEW p \in Places, At(id, p)'
      PROVE  Tells(id, p)'
  <2>1. CASE id = x
    BY <1>5, <1>7, <2>1
  <2>2. CASE id # x
    BY <1>7, <2>2 DEF Settles
  <2>3. QED
    BY <2>1, <2>2
<1>8. QED
  BY <1>6, <1>7, StoryStep

\* The await of the handler ends, or a write after it raises.
LEMMA StoryAwait ==
    ASSUME TypeOK, TypeOK', ClaimInv, ClaimInv', StoryInv, NEW e \in Engines, NEW w \in Workers,
           \/ HandlerReturns(e, w) \/ HandlerRaises(e, w) \/ HandlerTimesOut(e, w)
           \/ OutcomeWriteFails(e, w)
    PROVE  StoryInv'
<1> DEFINE from == slot[e][w].at
<1>1. PICK x : x = slot[e][w].ev
  OBVIOUS
<1>2. /\ from \in {"handler", "mark_processed", "record_success"}
      /\ UNCHANGED table /\ queue' = queue /\ outages' = outages
      /\ faults' \in {faults, faults + 1}
      /\ \/ from = "handler" /\ Goto(e, w, "mark_processed")
         \/ Goto(e, w, FailurePoint(x))
  BY <1>1 DEF HandlerReturns, HandlerRaises, HandlerTimesOut, OutcomeWriteFails, AwaitEnds
<1>3. Busy(e, w)
  BY <1>2 DEF Busy
<1>4. x \in 1 .. Len(events) /\ Tells(x, from)
  BY <1>1, <1>3, WorkerTells
<1>5. /\ KeepsRows /\ events' = events
      /\ \A id \in 1 .. Len(events) : SameRow(id)
      /\ \A id : Followed(id)' <=> Followed(id)
  BY <1>2, QuietRow
<1>6. Disturbed => Disturbed'
  BY <1>2, Counters DEF Disturbed
<1>7. /\ events[x].status \in {"queued", "processed"} /\ starts[x] = 1 /\ runs[x] = <<>>
      /\ events[x].job \in Enabled /\ ~Followed(x)
      /\ from = "handler" => events[x].status = "queued"
  BY <1>2, <1>4 DEF Tells, InFlight
<1>8. PICK to : /\ Goto(e, w, to)
                /\ to = FailurePoint(x) \/ (to = "mark_processed" /\ from = "handler")
  BY <1>2
<1>9. to \in {"create_retry", "mark_failed", "mark_processed"}
  BY <1>8 DEF FailurePoint
<1>10. Tells(x, to)'
  <2>1. /\ SameRow(x) /\ events' = events /\ (Followed(x)' <=> Followed(x))
        /\ CanRetry(x)' <=> CanRetry(x)
    BY <1>4, <1>5, PolicyKept
  <2>2. CASE to = "mark_processed"
    BY <1>7, <1>8, <2>1, <2>2 DEF Tells, InFlight, SameRow, FailurePoint
  <2>3. CASE to = "create_retry"
    BY <1>7, <1>8, <2>1, <2>3 DEF Tells, InFlight, SameRow, FailurePoint
  <2>4. CASE to = "mark_failed"
    BY <1>7, <1>8, <2>1, <2>4 DEF Tells, InFlight, SameRow, FailurePoint
  <2>5. QED
    BY <1>9, <2>2, <2>3, <2>4
<1>11. Untouched({x})
  BY <1>5 DEF Untouched
<1>12. Moves(e, w, to)
  BY <1>8, <1>9 DEF Moves
<1>13. x \in {x} /\ Settles(x, {x})
  BY DEF Settles
<1> HIDE DEF from
<1>14. QED
  BY <1>1, <1>2, <1>3, <1>5, <1>6, <1>8, <1>10, <1>11, <1>12, <1>13, StoryWorker

\* mark_event of an outcome.
LEMMA StoryMark ==
    ASSUME TypeOK, TypeOK', ClaimInv, ClaimInv', StoryInv, NEW e \in Engines, NEW w \in Workers,
           MarkRejected(e, w) \/ MarkOverlap(e, w) \/ MarkProcessed(e, w) \/ MarkFailed(e, w)
    PROVE  StoryInv'
<1> DEFINE from == slot[e][w].at
<1>1. PICK x : x = slot[e][w].ev
  OBVIOUS
<1>2. PICK status, to :
          /\ MarkEvent(x, status) /\ queue' = queue /\ outages' = outages /\ faults' = faults
          /\ \/ /\ from = "mark_rejected" /\ to = "free" /\ Return(e, w)
                /\ status = IF events[x].job \in Registered THEN "skipped" ELSE "failed"
             \/ /\ from = "mark_overlap" /\ to = "record_skipped" /\ Goto(e, w, to)
                /\ status = "skipped"
             \/ /\ from = "mark_processed" /\ to = "record_success" /\ Goto(e, w, to)
                /\ status = "processed"
             \/ /\ from = "mark_failed" /\ to = "record_failure" /\ Goto(e, w, to)
                /\ status = FinalStatus(x)
  <2>1. CASE MarkRejected(e, w)
    BY <1>1, <2>1 DEF MarkRejected, JobOf
  <2>2. CASE MarkOverlap(e, w)
    BY <1>1, <2>2 DEF MarkOverlap
  <2>3. CASE MarkProcessed(e, w)
    BY <1>1, <2>3 DEF MarkProcessed
  <2>4. CASE MarkFailed(e, w)
    BY <1>1, <2>4 DEF MarkFailed
  <2>5. QED
    BY <2>1, <2>2, <2>3, <2>4
<1>3. Busy(e, w)
  BY <1>2 DEF Busy
<1>4. x \in 1 .. Len(events) /\ Tells(x, from)
  BY <1>1, <1>3, WorkerTells
<1>5. status \in {"skipped", "failed", "processed", "dead_letter"} /\ status \in Statuses
  BY <1>2 DEF FinalStatus, Statuses, Settled
<1>6. /\ KeepsRows /\ Len(events') = Len(events)
      /\ \A id \in 1 .. Len(events) : id # x => events'[id] = events[id] /\ SameRow(id)
      /\ events'[x].status = status /\ starts'[x] = starts[x] /\ runs'[x] = runs[x]
  BY <1>2, <1>4, <1>5, MarkRow
<1>7. \A id \in 1 .. Len(events) : Followed(id)' <=> Followed(id)
  BY <1>6, FollowedKept
<1>8. Disturbed => Disturbed'
  BY <1>2 DEF Disturbed
<1>9. /\ events'[x].job = events[x].job /\ (CanRetry(x)' <=> CanRetry(x))
      /\ FinalStatus(x)' = FinalStatus(x)
  BY <1>4, <1>6, PolicyKept
<1>10. Tells(x, to)'
  <2>1. CASE from = "mark_rejected"
    <3>1. /\ starts[x] = 0 /\ runs[x] = <<>> /\ events[x].job \notin Enabled /\ ~Followed(x)
      BY <1>4, <2>1 DEF Tells
    <3>2. ExpectedRun(x)' = <<>>
      BY <1>2, <1>6, <1>9, <2>1, <3>1 DEF ExpectedRun
    <3>3. /\ to = "free" /\ status \in Settled \ {"dead_letter"}
      BY <1>2, <2>1 DEF Settled
    <3>4. QED
      BY <1>4, <1>6, <1>7, <1>9, <3>1, <3>2, <3>3 DEF Tells, InFlight, Settled
  <2>2. CASE from = "mark_overlap"
    <3>1. /\ starts[x] = 0 /\ runs[x] = <<>> /\ events[x].job \in Enabled /\ ~Followed(x)
      BY <1>4, <2>2 DEF Tells
    <3>2. to = "record_skipped" /\ status = "skipped"
      BY <1>2, <2>2
    <3>3. QED
      BY <1>4, <1>6, <1>7, <1>9, <3>1, <3>2 DEF Tells, InFlight
  <2>3. CASE from = "mark_processed"
    <3>1. /\ starts[x] = 1 /\ runs[x] = <<>> /\ events[x].job \in Enabled /\ ~Followed(x)
      BY <1>4, <2>3 DEF Tells, InFlight
    <3>2. to = "record_success" /\ status = "processed"
      BY <1>2, <2>3
    <3>3. QED
      BY <1>4, <1>6, <1>7, <1>9, <3>1, <3>2 DEF Tells, InFlight
  <2>4. CASE from = "mark_failed"
    <3>1. /\ starts[x] = 1 /\ runs[x] = <<>> /\ events[x].job \in Enabled
          /\ CanRetry(x) => Followed(x)
      BY <1>4, <2>4 DEF Tells, InFlight
    <3>2. to = "record_failure" /\ status = FinalStatus(x)
      BY <1>2, <2>4
    <3>3. events'[x].status = "dead_letter" => RetryEnabled(events'[x].job) /\ ~CanRetry(x)'
      BY <1>6, <1>9, <3>2 DEF FinalStatus
    <3>4. QED
      BY <1>4, <1>6, <1>7, <1>9, <3>1, <3>2, <3>3 DEF Tells, InFlight, RetryEnabled
  <2>5. QED
    BY <1>2, <2>1, <2>2, <2>3, <2>4
<1>11. Untouched({x})
  BY <1>6, <1>7 DEF Untouched
<1>12. Moves(e, w, to)
  BY <1>2, <1>3, ReturnLetsGo DEF Moves
<1>13. x \in {x} /\ Settles(x, {x})
  BY DEF Settles
<1> HIDE DEF from
<1>14. QED
  BY <1>1, <1>2, <1>3, <1>6, <1>8, <1>10, <1>11, <1>12, <1>13, StoryWorker

\* create_run of an outcome, after which the worker lets go of the event.
LEMMA StoryRecord ==
    ASSUME TypeOK, TypeOK', ClaimInv, ClaimInv', StoryInv, NEW e \in Engines, NEW w \in Workers,
           RecordSkipped(e, w) \/ RecordSuccess(e, w) \/ RecordFailure(e, w)
    PROVE  StoryInv'
<1> DEFINE from == slot[e][w].at
<1>1. PICK x : x = slot[e][w].ev
  OBVIOUS
<1>2. PICK status :
          /\ RecordRun(x, status) /\ Return(e, w)
          /\ queue' = queue /\ outages' = outages /\ faults' = faults
          /\ \/ from = "record_skipped" /\ status = "skipped"
             \/ from = "record_success" /\ status = "success"
             \/ from = "record_failure" /\ status = "failure"
  <2>1. CASE RecordSkipped(e, w)
    BY <1>1, <2>1 DEF RecordSkipped
  <2>2. CASE RecordSuccess(e, w)
    BY <1>1, <2>2 DEF RecordSuccess
  <2>3. CASE RecordFailure(e, w)
    BY <1>1, <2>3 DEF RecordFailure
  <2>4. QED
    BY <2>1, <2>2, <2>3
<1>3. Busy(e, w)
  BY <1>2 DEF Busy
<1>4. x \in 1 .. Len(events) /\ Tells(x, from)
  BY <1>1, <1>3, WorkerTells
<1>5. runs[x] = <<>> /\ events[x].job \in Enabled /\ events[x].job \in Registered
  BY <1>2, <1>4, EngineAssumption DEF Tells, InFlight
<1>6. /\ KeepsRows /\ events' = events /\ starts' = starts
      /\ \A id \in 1 .. Len(events) : id # x => SameRow(id)
      /\ runs'[x] = <<status>>
  BY <1>2, <1>4, <1>5, RecordRow
<1>7. \A id \in 1 .. Len(events) : Followed(id)' <=> Followed(id)
  BY <1>6, FollowedKept
<1>8. Disturbed => Disturbed'
  BY <1>2 DEF Disturbed
<1>9. CanRetry(x)' <=> CanRetry(x)
  BY <1>4, <1>6, PolicyKept
<1>10. Tells(x, "free")'
  <2>1. /\ from = "record_skipped" => events[x].status = "skipped"
        /\ from = "record_success" => events[x].status = "processed"
        /\ from = "record_failure" => events[x].status \in {"failed", "dead_letter"}
    BY <1>4 DEF Tells, FinalStatus
  <2>2. events[x].status \in Settled /\ runs'[x] = ExpectedRun(x)'
    BY <1>2, <1>5, <1>6, <2>1 DEF Settled, ExpectedRun
  <2>3. /\ Followed(x) => starts[x] = 1
        /\ events[x].status = "dead_letter" =>
              starts[x] = 1 /\ RetryEnabled(events[x].job) /\ ~CanRetry(x)
    BY <1>4 DEF Tells
  <2>4. QED
    BY <1>4, <1>6, <1>7, <1>9, <2>2, <2>3 DEF Tells, InFlight, RetryEnabled
<1>11. Untouched({x})
  BY <1>6, <1>7 DEF Untouched
<1>12. Moves(e, w, "free")
  BY <1>2, <1>3, ReturnLetsGo DEF Moves
<1>13. x \in {x} /\ Settles(x, {x})
  BY DEF Settles
<1> HIDE DEF from
<1>14. QED
  BY <1>1, <1>2, <1>3, <1>6, <1>8, <1>10, <1>11, <1>12, <1>13, StoryWorker

\* A write that raises and ends the worker.
LEMMA StoryWorkerFails ==
    ASSUME TypeOK, TypeOK', ClaimInv, ClaimInv', StoryInv, NEW e \in Engines, NEW w \in Workers,
           WorkerFails(e, w)
    PROVE  StoryInv'
<1>1. PICK x : x = slot[e][w].ev
  OBVIOUS
<1>2. /\ UNCHANGED <<table, queue, outages>> /\ faults' = faults + 1
      /\ Busy(e, w) /\ LetsGo(e, w)
  BY DEF WorkerFails, LetsGo, Busy, Writing, InFlight
<1>3. x \in 1 .. Len(events) /\ Tells(x, slot[e][w].at)
  BY <1>1, <1>2, WorkerTells
<1>4. /\ KeepsRows /\ events' = events
      /\ \A id \in 1 .. Len(events) : SameRow(id)
      /\ \A id : Followed(id)' <=> Followed(id)
  BY <1>2, QuietRow
<1>5. Disturbed'
  BY <1>2, Counters DEF Disturbed
<1>6. slot[e][w].at \in Places /\ slot[e][w].at \notin {"exited", "waiting"}
  BY <1>2 DEF Busy, Places, TypeOK, MemoryOK
<1>7. Tells(x, "free")'
  BY <1>3, <1>4, <1>5, <1>6, TellsDropped
<1>8. Untouched({x}) /\ Settles(x, {x}) /\ x \in {x}
  BY <1>4 DEF Untouched, Settles
<1>9. Moves(e, w, "free")
  BY <1>2 DEF Moves
<1>10. QED
  BY <1>1, <1>2, <1>4, <1>5, <1>7, <1>8, <1>9, StoryWorker

\* The retry is created: the failed event is followed, and the retry is pending.
LEMMA StoryRetry ==
    ASSUME TypeOK, TypeOK', KeepsRows, ClaimInv, ClaimInv', ChainInv, StoryInv,
           NEW e \in Engines, NEW w \in Workers, CreateRetry(e, w)
    PROVE  StoryInv' /\ ChainInv'
<1>1. PICK x, new : x = slot[e][w].ev /\ new = Len(events) + 1
  OBVIOUS
<1>2. /\ slot[e][w].at = "create_retry" /\ Busy(e, w) /\ Goto(e, w, "mark_failed")
      /\ UNCHANGED <<queue, outages, faults>>
      /\ CreateEvent(events[x].job, "pending", events[x].attempt + 1, FALSE, events[x].origin)
  BY <1>1 DEF CreateRetry, Busy
<1>3. x \in 1 .. Len(events) /\ Tells(x, "create_retry")
  BY <1>1, <1>2, WorkerTells
<1>4. /\ CanRetry(x) /\ ~Followed(x) /\ starts[x] = 1 /\ runs[x] = <<>>
      /\ events[x].job \in Enabled /\ events[x].status \in {"queued", "processed"}
  BY <1>3 DEF Tells, InFlight
<1>5. /\ ChainInv'
      /\ \A id \in 1 .. Len(events) : id # x => (Followed(id)' <=> Followed(id))
      /\ Followed(x)' /\ ~Followed(new)'
  BY <1>1, <1>2, <1>3, <1>4, ChainRetry
<1>6. /\ Len(events) \in Nat /\ Len(events') = new
      /\ \A id \in 1 .. Len(events) : events'[id] = events[id] /\ SameRow(id)
      /\ events'[new].status = "pending" /\ starts'[new] = 0 /\ runs'[new] = <<>>
  BY <1>1, <1>2, NewRow
<1>7. CanRetry(x)' <=> CanRetry(x)
  BY <1>3, PolicyKept
<1>8. Tells(x, "mark_failed")'
  <2>1. events'[x] = events[x] /\ SameRow(x)
    BY <1>3, <1>6
  <2>2. QED
    BY <1>4, <1>5, <1>7, <2>1 DEF Tells, InFlight, SameRow
<1>9. Untouched({x, new})
  BY <1>1, <1>5, <1>6 DEF Untouched
<1>10. ASSUME NEW p, At(new, p)'
       PROVE  p = "free"
  <2>1. \A f \in Engines, v \in Workers : slot'[f][v].ev # new
    <3>1. \A f \in Engines, v \in Workers : slot'[f][v].ev = slot[f][v].ev
      BY <1>2 DEF Goto, TypeOK, MemoryOK
    <3>2. new # 0 /\ new \notin 1 .. Len(events)
      BY <1>1, <1>6
    <3>3. QED
      BY <3>1, <3>2, HeldIds
  <2>2. ~Waits(new)'
    <3>1. queue' = queue /\ new \notin 1 .. Len(events)
      BY <1>1, <1>2, <1>6
    <3>2. QED
      BY <3>1, HeldIds DEF Waits
  <2>3. QED
    BY <1>10, <2>1, <2>2 DEF At
<1>11. Tells(new, "free")'
  BY <1>5, <1>6 DEF Tells, InFlight
<1>12. Settles(x, {x, new}) /\ x \in {x, new}
  BY <1>10, <1>11 DEF Settles
<1>13. Moves(e, w, "mark_failed")
  BY <1>2 DEF Moves
<1>14. Disturbed => Disturbed'
  BY <1>2 DEF Disturbed
<1>15. StoryInv'
  BY <1>1, <1>2, <1>8, <1>9, <1>12, <1>13, <1>14, StoryWorker
<1>16. QED
  BY <1>5, <1>15

\* queue.get: the branch for the job is taken before the first await.
LEMMA StoryDequeue ==
    ASSUME TypeOK, TypeOK', ClaimInv, ClaimInv', StoryInv, NEW e \in Engines, NEW w \in Workers,
           Dequeue(e, w)
    PROVE  StoryInv'
<1>1. PICK x, at : x = Head(queue[e]) /\ at = Admission(e, events[Head(queue[e])].job)
  OBVIOUS
<1>2. /\ slot[e][w].at = "waiting" /\ queue[e] # <<>>
      /\ slot' = [slot EXCEPT ![e][w] = [at |-> at, ev |-> x]]
      /\ starts' = [starts EXCEPT ![x] = IF at = "handler" THEN @ + 1 ELSE @]
      /\ queue' = [queue EXCEPT ![e] = Tail(@)]
      /\ UNCHANGED <<events, runs, outages, faults>>
  BY <1>1 DEF Dequeue
<1>3. /\ queue \in [Engines -> Seq(Nat)] /\ Len(queue[e]) \in Nat /\ Len(queue[e]) > 0
      /\ slot \in [Engines -> [Workers -> [at : Points, ev : Nat]]]
      /\ Len(events) \in Nat
  BY <1>2, HeldIds DEF TypeOK, MemoryOK
<1>4. 1 \in 1 .. Len(queue[e]) /\ x = queue[e][1] /\ x \in 1 .. Len(events) /\ x # 0
  <2>1. 1 \in 1 .. Len(queue[e]) /\ queue[e] \in Seq(Nat)
    BY <1>3
  <2>2. x = queue[e][1]
    BY <1>1, <1>2, <2>1
  <2>3. queue[e][1] \in 1 .. Len(events)
    BY <2>1, HeldIds
  <2>4. QED
    BY <1>3, <2>1, <2>2, <2>3
<1>5. Waits(x) /\ At(x, "queue") /\ Tells(x, "queue")
  BY <1>4 DEF Waits, At, StoryInv, Places
<1>6. /\ events[x].status = "queued" /\ starts[x] = 0 /\ runs[x] = <<>> /\ ~Followed(x)
  BY <1>5 DEF Tells, InFlight
<1>7. /\ \A id \in 1 .. Len(events) : id # x => SameRow(id)
      /\ starts'[x] = (IF at = "handler" THEN 1 ELSE 0) /\ runs'[x] = runs[x]
      /\ KeepsRows
  <2>1. starts \in Seq(Nat) /\ Len(starts) = Len(events)
    BY DEF TypeOK, TableOK
  <2>2. QED
    BY <1>2, <1>3, <1>4, <1>6, <2>1 DEF SameRow, KeepsRows
<1>8. \A id \in 1 .. Len(events) : Followed(id)' <=> Followed(id)
  BY <1>2, <1>7, FollowedKept
<1>9. /\ at \in {"mark_rejected", "mark_overlap", "handler"}
      /\ at = "mark_rejected" <=> events[x].job \notin Enabled
  BY <1>1 DEF Admission
<1>10. Tells(x, at)'
  <2>1. events'[x].job = events[x].job /\ events'[x].status = "queued" /\ (Followed(x)' <=> FALSE)
    BY <1>2, <1>4, <1>6, <1>8
  <2>2. QED
    BY <1>6, <1>7, <1>9, <2>1 DEF Tells, InFlight
<1>11. /\ slot'[e][w] = [at |-> at, ev |-> x]
       /\ \A f \in Engines, v \in Workers : f # e \/ v # w => slot'[f][v] = slot[f][v]
       /\ slot[e][w].ev = 0
  <2>1. slot[e][w].ev = 0
    BY <1>2 DEF TypeOK, HeldOK
  <2>2. QED
    BY <1>2, <1>3, <2>1
<1>12. ASSUME NEW p, At(x, p)'
       PROVE  p = at
  <2>1. slot'[e][w].ev = x /\ slot'[e][w].at = at
    BY <1>11
  <2>2. ~Waits(x)'
    BY <1>4, <2>1 DEF Waits, ClaimInv, SlotInv
  <2>3. \A f \in Engines, v \in Workers : slot'[f][v].ev = x => f = e /\ v = w
    BY <1>4, <2>1 DEF ClaimInv, SlotInv
  <2>4. QED
    BY <1>12, <2>1, <2>2, <2>3 DEF At, InSlot
<1>13. ASSUME NEW id \in 1 .. Len(events), id # x, NEW p, At(id, p)'
       PROVE  At(id, p)
  <2>1. id # 0
    BY RowTypes
  <2>2. \A f \in Engines, v \in Workers :
            /\ slot'[f][v].ev = id <=> slot[f][v].ev = id
            /\ slot[f][v].ev = id => slot'[f][v].at = slot[f][v].at
    BY <1>11, <1>13, <2>1
  <2>3. Waits(id)' <=> Waits(id)
    <3>1. /\ queue'[e] = Tail(queue[e]) /\ \A f \in Engines : f # e => queue'[f] = queue[f]
      BY <1>2, <1>3
    <3>2. /\ Len(Tail(queue[e])) = Len(queue[e]) - 1
          /\ \A i \in 1 .. Len(queue[e]) - 1 : Tail(queue[e])[i] = queue[e][i + 1]
      BY <1>2, <1>3
    <3>3. \A i \in 1 .. Len(queue[e]) - 1 : i + 1 \in 1 .. Len(queue[e])
      BY <1>3
    <3>4. \A i \in 1 .. Len(queue[e]) : i = 1 \/ (i - 1 \in 1 .. Len(queue[e]) - 1 /\ (i - 1) + 1 = i)
      BY <1>3
    <3>5. (\E i \in 1 .. Len(queue'[e]) : queue'[e][i] = id) <=> (\E i \in 1 .. Len(queue[e]) : queue[e][i] = id)
      BY <1>4, <1>13, <3>1, <3>2, <3>3, <3>4
    <3>6. QED
      BY <3>1, <3>5 DEF Waits
  <2>4. QED
    BY <1>13, <2>2, <2>3, PlaceKept
<1>14. Disturbed => Disturbed'
  BY <1>2 DEF Disturbed
<1>. PICK X : X = {x}
  OBVIOUS
<1>15. ASSUME NEW id \in 1 .. Len(events'), id \notin X
       PROVE  /\ id \in 1 .. Len(events) /\ SameRow(id)
              /\ Followed(id)' <=> Followed(id)
              /\ \A p \in Places : At(id, p)' => At(id, p) \/ (p = "free" /\ Disturbed')
  BY <1>2, <1>7, <1>8, <1>13, <1>15
<1>16. ASSUME NEW id \in X, id \in 1 .. Len(events'), NEW p \in Places, At(id, p)'
       PROVE  Tells(id, p)'
  BY <1>10, <1>12, <1>16
<1>17. QED
  BY <1>7, <1>14, <1>15, <1>16, StoryStep

-----------------------------------------------------------------------------
(* The other steps.                                                        *)

LEMMA DisturbedStays ==
    ASSUME outages \in Nat, faults \in Nat, outages' \in Nat, faults' \in Nat,
           outages' >= outages, faults' >= faults
    PROVE  /\ Disturbed => Disturbed'
           /\ outages' > 0 => Disturbed'
<1> DEFINE o == outages'
           f == faults'
<1>1. o \in Nat /\ f \in Nat /\ o >= outages /\ f >= faults
  OBVIOUS
<1>2. Disturbed' <=> o + f > 0
  BY DEF Disturbed
<1> HIDE DEF o, f
<1>3. Disturbed => o + f > 0
  BY <1>1 DEF Disturbed
<1>4. o > 0 => o + f > 0
  BY <1>1
<1>5. QED
  BY <1>2, <1>3, <1>4 DEF o

\* Steps that write nothing, or only when a retry is due, and move no event.
LEMMA StoryQuiet ==
    ASSUME TypeOK, TypeOK', KeepsRows, StoryInv, Len(events') = Len(events),
           \A id \in 1 .. Len(events) : SameRow(id),
           outages' >= outages, faults' >= faults, outages' \in Nat, faults' \in Nat,
           \A f \in Engines : \/ queue'[f] = queue[f]
                              \/ Disturbed' /\ queue'[f] = <<>>,
           \A f \in Engines, v \in Workers :
               \/ slot'[f][v] = slot[f][v]
               \/ slot[f][v].ev = 0 /\ slot'[f][v].ev = 0
               \/ Disturbed' /\ slot'[f][v].ev = 0
    PROVE  StoryInv'
<1>1. Disturbed => Disturbed'
  <2>1. outages \in Nat /\ faults \in Nat
    BY Counters
  <2>2. QED
    BY <2>1, DisturbedStays
<1>2. \A id \in 1 .. Len(events) : Followed(id)' <=> Followed(id)
  BY FollowedKept
<1>3. Len(<<>>) = 0
  OBVIOUS
<1>4. ASSUME NEW id \in 1 .. Len(events), NEW p \in Places, At(id, p)'
      PROVE  At(id, p) \/ (p = "free" /\ Disturbed')
  <2>1. id # 0
    BY RowTypes
  <2>2. ASSUME NEW f \in Engines, NEW v \in Workers, slot'[f][v].ev = id
        PROVE  slot'[f][v] = slot[f][v]
    BY <2>1, <2>2
  <2>3. Waits(id)' => Waits(id)
    BY <1>3 DEF Waits
  <2>4. CASE Disturbed'
    BY <1>4, <2>2, <2>3, <2>4 DEF At
  <2>5. CASE ~Disturbed'
    <3>1. Waits(id)' <=> Waits(id)
      BY <2>5 DEF Waits
    <3>2. InSlot(id)' <=> InSlot(id)
      BY <2>1, <2>5 DEF InSlot
    <3>3. QED
      BY <1>4, <2>2, <3>1, <3>2 DEF At
  <2>6. QED
    BY <2>4, <2>5
<1> PICK X : X = {}
  OBVIOUS
<1>5. ASSUME NEW id \in 1 .. Len(events'), id \notin X
      PROVE  /\ id \in 1 .. Len(events) /\ SameRow(id)
             /\ Followed(id)' <=> Followed(id)
             /\ \A p \in Places : At(id, p)' => At(id, p) \/ (p = "free" /\ Disturbed')
  BY <1>2, <1>4
<1>6. ASSUME NEW id \in X, id \in 1 .. Len(events'), NEW p \in Places, At(id, p)'
      PROVE  Tells(id, p)'
  BY <1>6
<1>7. QED
  BY <1>1, <1>5, <1>6, StoryStep

LEMMA StoryLifecycle ==
    ASSUME TypeOK, TypeOK', ModeInv, StoryInv, NEW e \in Engines,
           Start(e) \/ Stop(e) \/ Shutdown(e) \/ ProcessExit(e) \/ Crash(e)
    PROVE  StoryInv'
<1>1. UNCHANGED table
  BY DEF Start, Stop, Shutdown, ProcessExit, Crash
<1>2. /\ KeepsRows /\ events' = events /\ \A id \in 1 .. Len(events) : SameRow(id)
  BY <1>1, QuietRow
<1>3. /\ outages \in Nat /\ faults \in Nat
      /\ outages' \in {outages, outages + 1} /\ faults' = faults
      /\ Stop(e) \/ Crash(e) => outages' = outages + 1
  BY Counters DEF Start, Stop, Shutdown, ProcessExit, Crash
<1>4. outages' >= outages /\ faults' >= faults /\ outages' \in Nat /\ faults' \in Nat
  BY <1>3
<1>5. /\ queue \in [Engines -> Seq(Nat)] /\ ModeOK(e)
      /\ slot \in [Engines -> [Workers -> [at : Points, ev : Nat]]]
      /\ \A f \in Engines, v \in Workers :
            slot[f][v].at \in {"exited", "waiting"} => slot[f][v].ev = 0
  BY DEF TypeOK, MemoryOK, HeldOK, ModeInv
<1>6. CASE Start(e)
  <2>1. \A v \in Workers : slot[e][v].ev = 0 /\ slot'[e][v].ev = 0
    BY <1>5, <1>6 DEF Start, ModeOK, Idle
  <2>2. \A f \in Engines : f # e => slot'[f] = slot[f]
    BY <1>5, <1>6 DEF Start
  <2>3. queue' = queue
    BY <1>6 DEF Start
  <2>4. QED
    BY <1>2, <1>4, <2>1, <2>2, <2>3, StoryQuiet
<1>7. CASE Stop(e)
  BY <1>2, <1>4, <1>7, StoryQuiet DEF Stop
<1>8. CASE Shutdown(e) \/ ProcessExit(e) \/ Crash(e)
  <2>1. /\ LoseMemory(e)
        /\ \/ mode[e] = "stopping" \/ mode[e] = "exiting" \/ outages' = outages + 1
    BY <1>3, <1>8 DEF Shutdown, ProcessExit, Crash
  <2>2. /\ queue'[e] = <<>> /\ \A f \in Engines : f # e => queue'[f] = queue[f]
        /\ \A v \in Workers : slot'[e][v].ev = 0
        /\ \A f \in Engines : f # e => slot'[f] = slot[f]
    BY <1>5, <2>1 DEF LoseMemory, Idle
  <2>3. CASE mode[e] = "exiting"
    <3>1. queue[e] = <<>> /\ \A v \in Workers : slot[e][v].ev = 0
      BY <1>5, <2>3 DEF ModeOK
    <3>2. QED
      BY <1>2, <1>4, <2>2, <3>1, StoryQuiet
  <2>4. CASE mode[e] # "exiting"
    <3>1. outages' > 0
      BY <1>3, <1>5, <2>1, <2>4 DEF ModeOK
    <3>2. Disturbed'
      BY <1>3, <1>4, <3>1, DisturbedStays
    <3>3. QED
      BY <1>2, <1>4, <2>2, <3>2, StoryQuiet
  <2>5. QED
    BY <2>3, <2>4
<1>9. QED
  BY <1>6, <1>7, <1>8

\* A new first event is pending, or at the end of the queue of who submits it.
LEMMA StorySubmit ==
    ASSUME TypeOK, TypeOK', KeepsRows, ModeInv, ClaimInv', ChainInv, StoryInv,
           \/ \E job \in Jobs : Trigger(job)
           \/ \E e \in Engines, job \in Jobs : Enqueue(e, job)
           \/ \E e \in Engines, w \in Workers, job \in Jobs : RunOnce(e, w, job)
    PROVE  StoryInv' /\ ChainInv'
<1>1. PICK new : new = Len(events) + 1
  OBVIOUS
<1>2. PICK job, status :
          /\ CreateEvent(job, status, 1, TRUE, new)
          /\ UNCHANGED <<outages, faults>>
          /\ \/ status = "pending" /\ UNCHANGED <<queue, slot>>
             \/ /\ status = "queued"
                /\ \E e \in Engines :
                      \/ /\ queue' = [queue EXCEPT ![e] = Append(@, new)] /\ slot' = slot
                      \/ /\ mode[e] = "down" /\ queue' = [queue EXCEPT ![e] = <<new>>]
                         /\ \E w \in Workers : slot' = [slot EXCEPT ![e][w] = Idle("waiting")]
  <2>1. ASSUME NEW job \in Jobs, Trigger(job)
        PROVE  CreateEvent(job, "pending", 1, TRUE, new) /\ UNCHANGED <<outages, faults, queue, slot>>
    BY <1>1, <2>1 DEF Trigger, SubmitEvent
  <2>2. ASSUME NEW e \in Engines, NEW job \in Jobs, Enqueue(e, job)
        PROVE  /\ CreateEvent(job, "queued", 1, TRUE, new) /\ UNCHANGED <<outages, faults, slot>>
               /\ queue' = [queue EXCEPT ![e] = Append(@, new)]
    BY <1>1, <2>2 DEF Enqueue, SubmitEvent
  <2>3. ASSUME NEW e \in Engines, NEW w \in Workers, NEW job \in Jobs, RunOnce(e, w, job)
        PROVE  /\ CreateEvent(job, "queued", 1, TRUE, new) /\ UNCHANGED <<outages, faults>>
               /\ mode[e] = "down" /\ queue' = [queue EXCEPT ![e] = <<new>>]
               /\ slot' = [slot EXCEPT ![e][w] = Idle("waiting")]
    BY <1>1, <2>3 DEF RunOnce, SubmitEvent
  <2>4. QED
    BY <2>1, <2>2, <2>3
<1>3. /\ Len(events) \in Nat /\ Len(events') = new
      /\ \A id \in 1 .. Len(events) : events'[id] = events[id] /\ SameRow(id)
      /\ events'[new].status = status /\ starts'[new] = 0 /\ runs'[new] = <<>>
  BY <1>1, <1>2, NewRow
<1>4. /\ ChainInv' /\ ~Followed(new)'
      /\ \A id \in 1 .. Len(events) : Followed(id)' <=> Followed(id)
  BY <1>1, <1>2, ChainSubmit
<1>5. new # 0 /\ new \notin 1 .. Len(events)
  BY <1>1, <1>3
<1>6. /\ queue \in [Engines -> Seq(Nat)]
      /\ slot \in [Engines -> [Workers -> [at : Points, ev : Nat]]]
      /\ \A f \in Engines, v \in Workers :
            slot[f][v].at \in {"exited", "waiting"} => slot[f][v].ev = 0
  BY DEF TypeOK, MemoryOK, HeldOK
<1>7. \A f \in Engines, v \in Workers :
          \/ slot'[f][v] = slot[f][v]
          \/ slot[f][v].ev = 0 /\ slot'[f][v].ev = 0
  <2>1. CASE slot' = slot
    BY <2>1
  <2>2. ASSUME NEW e \in Engines, NEW w \in Workers, mode[e] = "down",
               slot' = [slot EXCEPT ![e][w] = Idle("waiting")]
        PROVE  \A f \in Engines, v \in Workers :
                  \/ slot'[f][v] = slot[f][v]
                  \/ slot[f][v].ev = 0 /\ slot'[f][v].ev = 0
    <3>1. slot[e][w].ev = 0
      BY <1>6, <2>2 DEF ModeInv, ModeOK
    <3>2. QED
      BY <1>6, <2>2, <3>1 DEF Idle
  <2>3. QED
    BY <1>2, <2>1, <2>2
\* Queues keep what they hold, and only the new event comes to one.
<1>8. ASSUME NEW id \in 1 .. Len(events)
      PROVE  Waits(id)' <=> Waits(id)
  <2>1. id # new
    BY <1>5
  <2>2. CASE queue' = queue
    BY <2>2 DEF Waits
  <2>3. ASSUME NEW e \in Engines, queue' = [queue EXCEPT ![e] = Append(@, new)]
        PROVE  Waits(id)' <=> Waits(id)
    <3>1. /\ queue'[e] = Append(queue[e], new) /\ queue[e] \in Seq(Nat)
          /\ \A f \in Engines : f # e => queue'[f] = queue[f]
      BY <1>6, <2>3
    <3>2. /\ Len(queue[e]) \in Nat /\ Len(queue'[e]) = Len(queue[e]) + 1
          /\ queue'[e][Len(queue[e]) + 1] = new
          /\ \A i \in 1 .. Len(queue[e]) : queue'[e][i] = queue[e][i]
      BY <3>1
    <3>3. \A i \in 1 .. Len(queue'[e]) : i \in 1 .. Len(queue[e]) \/ i = Len(queue[e]) + 1
      BY <3>2
    <3>4. \A i \in 1 .. Len(queue[e]) : i \in 1 .. Len(queue'[e])
      BY <3>2
    <3>5. (\E i \in 1 .. Len(queue'[e]) : queue'[e][i] = id) <=> (\E i \in 1 .. Len(queue[e]) : queue[e][i] = id)
      BY <2>1, <3>2, <3>3, <3>4
    <3>6. QED
      BY <3>1, <3>5 DEF Waits
  <2>4. ASSUME NEW e \in Engines, mode[e] = "down", queue' = [queue EXCEPT ![e] = <<new>>]
        PROVE  Waits(id)' <=> Waits(id)
    <3>1. queue[e] = <<>> /\ Len(<<>>) = 0
      BY <2>4 DEF ModeInv, ModeOK
    <3>2. /\ queue'[e] = <<new>> /\ \A f \in Engines : f # e => queue'[f] = queue[f]
      BY <1>6, <2>4
    <3>3. Len(<<new>>) = 1 /\ <<new>>[1] = new /\ \A i \in 1 .. 1 : i = 1
      OBVIOUS
    <3>4. ~\E i \in 1 .. Len(queue'[e]) : queue'[e][i] = id
      BY <2>1, <3>2, <3>3
    <3>5. ~\E i \in 1 .. Len(queue[e]) : queue[e][i] = id
      BY <3>1
    <3>6. QED
      BY <3>2, <3>4, <3>5 DEF Waits
  <2>5. QED
    BY <1>2, <2>2, <2>3, <2>4
<1>9. ASSUME NEW id \in 1 .. Len(events), NEW p, At(id, p)'
      PROVE  At(id, p)
  <2>1. id # 0
    BY RowTypes
  <2>2. QED
    BY <1>7, <1>8, <1>9, <2>1, PlaceKept
<1>10. \A f \in Engines, v \in Workers : slot'[f][v].ev # new
  BY <1>5, <1>7, HeldIds
<1>11. ASSUME NEW p, At(new, p)'
       PROVE  Tells(new, p)'
  <2>1. CASE status = "pending"
    <3>1. Tells(new, "free")'
      BY <1>3, <1>4, <2>1 DEF Tells, InFlight
    <3>2. ~Waits(new)'
      <4>1. queue' = queue
        BY <1>2, <2>1
      <4>2. QED
        BY <1>5, <4>1, HeldIds DEF Waits
    <3>3. p = "free"
      BY <1>10, <1>11, <3>2 DEF At
    <3>4. QED
      BY <3>1, <3>3
  <2>2. CASE status = "queued"
    <3>1. Tells(new, "queue")'
      BY <1>3, <1>4, <2>2 DEF Tells, InFlight
    <3>2. Waits(new)'
      <4>1. PICK e \in Engines :
                \/ queue' = [queue EXCEPT ![e] = Append(@, new)]
                \/ queue' = [queue EXCEPT ![e] = <<new>>]
        BY <1>2, <2>2
      <4>2. CASE queue' = [queue EXCEPT ![e] = Append(@, new)]
        <5>1. queue'[e] = Append(queue[e], new) /\ queue[e] \in Seq(Nat)
          BY <1>6, <4>2
        <5>2. /\ Len(queue'[e]) \in 1 .. Len(queue'[e])
              /\ queue'[e][Len(queue'[e])] = new
          BY <5>1
        <5>3. QED
          BY <5>2 DEF Waits
      <4>3. CASE queue' = [queue EXCEPT ![e] = <<new>>]
        <5>1. queue'[e] = <<new>>
          BY <1>6, <4>3
        <5>2. 1 \in 1 .. Len(queue'[e]) /\ queue'[e][1] = new
          BY <5>1
        <5>3. QED
          BY <5>2 DEF Waits
      <4>4. QED
        BY <4>1, <4>2, <4>3
    <3>3. p = "queue"
      BY <1>10, <1>11, <3>2 DEF At
    <3>4. QED
      BY <3>1, <3>3
  <2>3. QED
    BY <1>2, <2>1, <2>2
<1> PICK X : X = {new}
  OBVIOUS
<1>12. ASSUME NEW id \in 1 .. Len(events'), id \notin X
       PROVE  /\ id \in 1 .. Len(events) /\ SameRow(id)
              /\ Followed(id)' <=> Followed(id)
              /\ \A p \in Places : At(id, p)' => At(id, p) \/ (p = "free" /\ Disturbed')
  <2>1. id \in 1 .. Len(events)
    BY <1>1, <1>3, <1>12
  <2>2. QED
    BY <1>3, <1>4, <1>9, <2>1
<1>13. ASSUME NEW id \in X, id \in 1 .. Len(events'), NEW p \in Places, At(id, p)'
       PROVE  Tells(id, p)'
  BY <1>11, <1>13
<1>14. Disturbed => Disturbed'
  BY <1>2 DEF Disturbed
<1>15. QED
  BY <1>4, <1>12, <1>13, <1>14, StoryStep

\* The manual loop puts a pending event on its queue.
LEMMA StoryTake ==
    ASSUME TypeOK, TypeOK', ClaimInv, ClaimInv', StoryInv, NEW e \in Engines, TakePending(e)
    PROVE  StoryInv'
<1>1. PICK x \in batch[e] :
          /\ MarkEvent(x, "queued") /\ queue' = [queue EXCEPT ![e] = Append(@, x)]
          /\ UNCHANGED <<slot, outages, faults>>
  BY DEF TakePending
<1>2. x \in 1 .. Len(events) /\ "queued" \in Statuses
  BY HeldIds DEF Statuses
<1>3. x # 0 /\ events[x].status = "pending"
  BY <1>2, RowTypes DEF ClaimInv, BatchInv, Pending
<1>4. At(x, "free")
  <2>1. ~InSlot(x)
    BY <1>3 DEF InSlot, ClaimInv, SlotInv, Pending
  <2>2. ~Waits(x)
    BY <1>3 DEF Waits, ClaimInv, QueueInv, Pending
  <2>3. QED
    BY <2>1, <2>2 DEF At
<1>5. starts[x] = 0 /\ runs[x] = <<>> /\ ~Followed(x)
  <2>1. Tells(x, "free")
    BY <1>2, <1>4 DEF StoryInv, Places
  <2>2. QED
    BY <1>3, <2>1 DEF Tells, Settled
<1>6. /\ KeepsRows /\ Len(events') = Len(events)
      /\ \A id \in 1 .. Len(events) : id # x => events'[id] = events[id] /\ SameRow(id)
      /\ events'[x].status = "queued" /\ starts'[x] = starts[x] /\ runs'[x] = runs[x]
  BY <1>1, <1>2, MarkRow
<1>7. \A id \in 1 .. Len(events) : Followed(id)' <=> Followed(id)
  BY <1>6, FollowedKept
<1>8. /\ queue'[e] = Append(queue[e], x) /\ queue[e] \in Seq(Nat)
      /\ \A f \in Engines : f # e => queue'[f] = queue[f]
  BY <1>1 DEF TypeOK, MemoryOK
<1>9. /\ Len(queue[e]) \in Nat /\ Len(queue'[e]) = Len(queue[e]) + 1
      /\ queue'[e][Len(queue[e]) + 1] = x
      /\ \A i \in 1 .. Len(queue[e]) : queue'[e][i] = queue[e][i]
  BY <1>8
<1>10. /\ \A i \in 1 .. Len(queue'[e]) : i \in 1 .. Len(queue[e]) \/ i = Len(queue[e]) + 1
       /\ \A i \in 1 .. Len(queue[e]) : i \in 1 .. Len(queue'[e])
       /\ Len(queue[e]) + 1 \in 1 .. Len(queue'[e])
  BY <1>9
<1>11. Tells(x, "queue")'
  <2>1. ~Followed(x)'
    BY <1>2, <1>5, <1>7
  <2>2. QED
    BY <1>5, <1>6, <2>1 DEF Tells, InFlight
<1>12. ASSUME NEW p, At(x, p)'
       PROVE  p = "queue"
  <2>1. Waits(x)'
    BY <1>9, <1>10 DEF Waits
  <2>2. \A f \in Engines, v \in Workers : slot'[f][v].ev # x
    BY <1>1, <1>3, HeldIds, <2>1 DEF Waits, ClaimInv, SlotInv
  <2>3. QED
    BY <1>12, <2>1, <2>2 DEF At
<1>13. ASSUME NEW id \in 1 .. Len(events), id # x, NEW p, At(id, p)'
       PROVE  At(id, p)
  <2>1. (\E i \in 1 .. Len(queue'[e]) : queue'[e][i] = id) <=> (\E i \in 1 .. Len(queue[e]) : queue[e][i] = id)
    BY <1>9, <1>10, <1>13
  <2>2. Waits(id)' <=> Waits(id)
    BY <1>8, <2>1 DEF Waits
  <2>3. slot' = slot
    BY <1>1
  <2>4. QED
    BY <1>13, <2>2, <2>3, PlaceKept
<1> PICK X : X = {x}
  OBVIOUS
<1>14. ASSUME NEW id \in 1 .. Len(events'), id \notin X
       PROVE  /\ id \in 1 .. Len(events) /\ SameRow(id)
              /\ Followed(id)' <=> Followed(id)
              /\ \A p \in Places : At(id, p)' => At(id, p) \/ (p = "free" /\ Disturbed')
  BY <1>6, <1>7, <1>13, <1>14
<1>15. ASSUME NEW id \in X, id \in 1 .. Len(events'), NEW p \in Places, At(id, p)'
       PROVE  Tells(id, p)'
  BY <1>11, <1>12, <1>15
<1>16. Disturbed => Disturbed'
  BY <1>1 DEF Disturbed
<1>17. QED
  BY <1>6, <1>14, <1>15, <1>16, StoryStep

-----------------------------------------------------------------------------
(* The inductive invariant holds.                                          *)

LEMMA HistoryInit == Init => ModeInv /\ ChainInv /\ StoryInv
<1> SUFFICES ASSUME Init PROVE ModeInv /\ ChainInv /\ StoryInv
  OBVIOUS
<1>1. Len(events) = 0 /\ 1 .. 0 = {}
  BY DEF Init
<1>2. ModeInv
  BY DEF Init, ModeInv, ModeOK, Idle
<1>3. QED
  BY <1>1, <1>2 DEF ChainInv, StoryInv

LEMMA IdleHoldsNone ==
    ASSUME TypeOK
    PROVE  /\ slot \in [Engines -> [Workers -> [at : Points, ev : Nat]]]
           /\ \A e \in Engines, w \in Workers :
                 slot[e][w].at \in {"exited", "waiting"} => slot[e][w].ev = 0
BY DEF TypeOK, HeldOK, MemoryOK

\* The steps that add no row, by how they change what is known of events.
LEMMA StoryOther ==
    ASSUME TypeOK, TypeOK', KeepsRows, ClaimInv, ClaimInv', ModeInv, StoryInv,
           \/ \E id \in Ids : BackoffElapses(id)
           \/ \E e \in Engines : \/ Poll(e) \/ PollerFails(e)
                                 \/ \E id \in threads[e] : ThreadEnds(e, id)
                                 \/ \E w \in Workers : IdleTimeout(e, w)
           \/ UNCHANGED vars
    PROVE  StoryInv' /\ Len(events') = Len(events)
<1>1. /\ Len(events') = Len(events) /\ \A id \in 1 .. Len(events) : SameRow(id)
      /\ queue' = queue /\ outages' = outages /\ faults' \in {faults, faults + 1}
  <2>1. ASSUME NEW id \in Ids, BackoffElapses(id)
        PROVE  /\ Len(events') = Len(events) /\ \A k \in 1 .. Len(events) : SameRow(k)
               /\ queue' = queue /\ outages' = outages /\ faults' = faults
    <3>1. events \in Seq(EventRecord)
      BY DEF TypeOK, TableOK
    <3>2. events' = [events EXCEPT ![id].ready = TRUE]
      BY <2>1 DEF BackoffElapses
    <3>3. Len(events') = Len(events) /\ \A k \in 1 .. Len(events) : events'[k].status = events[k].status
      BY <3>1, <3>2 DEF EventRecord
    <3>4. QED
      BY <2>1, <3>3 DEF BackoffElapses, SameRow
  <2>2. ASSUME UNCHANGED table
        PROVE  Len(events') = Len(events) /\ \A k \in 1 .. Len(events) : SameRow(k)
    BY <2>2, QuietRow
  <2>3. ASSUME NEW e \in Engines,
               \/ Poll(e) \/ PollerFails(e)
               \/ \E id \in threads[e] : ThreadEnds(e, id)
               \/ \E w \in Workers : IdleTimeout(e, w)
        PROVE  UNCHANGED table /\ queue' = queue /\ outages' = outages /\ faults' \in {faults, faults + 1}
    BY <2>3 DEF Poll, PollerFails, ThreadEnds, IdleTimeout
  <2>4. CASE UNCHANGED vars
    BY <2>2, <2>4 DEF vars, table
  <2>5. QED
    BY <2>1, <2>2, <2>3, <2>4
<1>2. \A f \in Engines, v \in Workers :
          slot'[f][v] = slot[f][v] \/ (slot[f][v].ev = 0 /\ slot'[f][v].ev = 0)
  <2>1. ASSUME NEW e \in Engines, NEW w \in Workers, IdleTimeout(e, w)
        PROVE  \A f \in Engines, v \in Workers :
                  slot'[f][v] = slot[f][v] \/ (slot[f][v].ev = 0 /\ slot'[f][v].ev = 0)
    <3>1. /\ slot[e][w].at = "waiting"
          /\ slot' = slot \/ slot' = [slot EXCEPT ![e][w] = Idle("exited")]
      BY <2>1 DEF IdleTimeout
    <3>2. /\ slot[e][w].ev = 0
          /\ slot \in [Engines -> [Workers -> [at : Points, ev : Nat]]]
      BY <3>1, IdleHoldsNone
    <3>3. CASE slot' = slot
      BY <3>3
    <3>4. CASE slot' = [slot EXCEPT ![e][w] = Idle("exited")]
      <4>1. slot'[e][w].ev = 0
        BY <3>2, <3>4 DEF Idle
      <4>2. \A f \in Engines, v \in Workers : f # e \/ v # w => slot'[f][v] = slot[f][v]
        BY <3>2, <3>4
      <4>3. QED
        BY <3>2, <4>1, <4>2
    <3>5. QED
      BY <3>1, <3>3, <3>4
  <2>2. ASSUME \/ \E id \in Ids : BackoffElapses(id)
               \/ \E e \in Engines : \/ Poll(e) \/ PollerFails(e)
                                     \/ \E id \in threads[e] : ThreadEnds(e, id)
               \/ UNCHANGED vars
        PROVE  slot' = slot
    <3>1. ASSUME NEW id \in Ids, BackoffElapses(id) PROVE slot' = slot
      BY <3>1 DEF BackoffElapses
    <3>2. ASSUME NEW e \in Engines, Poll(e) \/ PollerFails(e) PROVE slot' = slot
      BY <3>2 DEF Poll, PollerFails
    <3>3. ASSUME NEW e \in Engines, NEW id \in threads[e], ThreadEnds(e, id) PROVE slot' = slot
      BY <3>3 DEF ThreadEnds
    <3>4. CASE UNCHANGED vars
      BY <3>4 DEF vars
    <3>5. QED
      BY <2>2, <3>1, <3>2, <3>3, <3>4
  <2>3. CASE \E e \in Engines : \E w \in Workers : IdleTimeout(e, w)
    BY <2>1, <2>3
  <2>4. CASE \/ \E id \in Ids : BackoffElapses(id)
             \/ \E e \in Engines : \/ Poll(e) \/ PollerFails(e)
                                   \/ \E id \in threads[e] : ThreadEnds(e, id)
             \/ UNCHANGED vars
    BY <2>2, <2>4
  <2>5. QED
    BY <2>3, <2>4
<1>3. outages \in Nat /\ faults \in Nat
  BY Counters
<1>4. outages' >= outages /\ faults' >= faults /\ outages' \in Nat /\ faults' \in Nat
  BY <1>1, <1>3
<1>5. QED
  BY <1>1, <1>2, <1>4, StoryQuiet

LEMMA StepKinds ==
    ASSUME [Next]_vars
    PROVE  \/ \/ \E id \in Ids : BackoffElapses(id)
              \/ \E e \in Engines : \/ Poll(e) \/ PollerFails(e)
                                    \/ \E id \in threads[e] : ThreadEnds(e, id)
                                    \/ \E w \in Workers : IdleTimeout(e, w)
              \/ UNCHANGED vars
           \/ \/ \E job \in Jobs : Trigger(job)
              \/ \E e \in Engines, job \in Jobs : Enqueue(e, job)
              \/ \E e \in Engines, w \in Workers, job \in Jobs : RunOnce(e, w, job)
           \/ \E e \in Engines :
                 \/ Start(e) \/ Stop(e) \/ Shutdown(e) \/ ProcessExit(e) \/ Crash(e)
           \/ \E e \in Engines : TakePending(e)
           \/ \E e \in Engines, w \in Workers : CreateRetry(e, w)
           \/ \E e \in Engines, w \in Workers :
                 \/ Dequeue(e, w)
                 \/ HandlerReturns(e, w) \/ HandlerRaises(e, w) \/ HandlerTimesOut(e, w)
                 \/ OutcomeWriteFails(e, w)
                 \/ MarkRejected(e, w) \/ MarkOverlap(e, w) \/ MarkProcessed(e, w)
                 \/ MarkFailed(e, w)
                 \/ RecordSkipped(e, w) \/ RecordSuccess(e, w) \/ RecordFailure(e, w)
                 \/ WorkerFails(e, w)
BY DEF Next, WorkerStep

\* A worker's write to a row, or to none, leaves their number.
LEMMA WorkerAddsNone ==
    ASSUME TypeOK, NEW e \in Engines, NEW w \in Workers,
           \/ Dequeue(e, w)
           \/ HandlerReturns(e, w) \/ HandlerRaises(e, w) \/ HandlerTimesOut(e, w)
           \/ OutcomeWriteFails(e, w)
           \/ MarkRejected(e, w) \/ MarkOverlap(e, w) \/ MarkProcessed(e, w)
           \/ MarkFailed(e, w)
           \/ RecordSkipped(e, w) \/ RecordSuccess(e, w) \/ RecordFailure(e, w)
           \/ WorkerFails(e, w)
    PROVE  Len(events') = Len(events)
<1>1. events \in Seq(EventRecord)
  BY SMTT(60) DEF TypeOK, TableOK
<1>2. events' = events \/ \E id, status : events' = [events EXCEPT ![id].status = status]
  BY ZenonT(60) DEF Dequeue, HandlerReturns, HandlerRaises, HandlerTimesOut, OutcomeWriteFails,
         MarkRejected, MarkOverlap, MarkProcessed, MarkFailed, RecordSkipped, RecordSuccess,
         RecordFailure, WorkerFails, MarkEvent, RecordRun, table
<1>3. QED
  BY <1>1, <1>2

LEMMA StoryWorkers ==
    ASSUME TypeOK, TypeOK', ClaimInv, ClaimInv', StoryInv, NEW e \in Engines, NEW w \in Workers,
           \/ Dequeue(e, w)
           \/ HandlerReturns(e, w) \/ HandlerRaises(e, w) \/ HandlerTimesOut(e, w)
           \/ OutcomeWriteFails(e, w)
           \/ MarkRejected(e, w) \/ MarkOverlap(e, w) \/ MarkProcessed(e, w)
           \/ MarkFailed(e, w)
           \/ RecordSkipped(e, w) \/ RecordSuccess(e, w) \/ RecordFailure(e, w)
           \/ WorkerFails(e, w)
    PROVE  StoryInv'
<1>1. CASE Dequeue(e, w)
  BY <1>1, StoryDequeue
<1>2. CASE \/ HandlerReturns(e, w) \/ HandlerRaises(e, w) \/ HandlerTimesOut(e, w)
           \/ OutcomeWriteFails(e, w)
  BY <1>2, StoryAwait
<1>3. CASE MarkRejected(e, w) \/ MarkOverlap(e, w) \/ MarkProcessed(e, w) \/ MarkFailed(e, w)
  BY <1>3, StoryMark
<1>4. CASE RecordSkipped(e, w) \/ RecordSuccess(e, w) \/ RecordFailure(e, w)
  BY <1>4, StoryRecord
<1>5. CASE WorkerFails(e, w)
  BY <1>5, StoryWorkerFails
<1>6. QED
  BY <1>1, <1>2, <1>3, <1>4, <1>5

LEMMA HistoryStep ==
    ASSUME SoleDaemon, HistoryInv, [Next]_vars
    PROVE  HistoryInv'
<1>1. /\ TypeOK /\ ClaimInv /\ ModeInv /\ ChainInv /\ StoryInv
      /\ TypeOK' /\ KeepsRows /\ ClaimInv' /\ ModeInv'
  BY TypeStep, ClaimStep, ModeStep DEF HistoryInv
<1> HIDE DEF HistoryInv
<1>2. StoryInv' /\ (ChainInv' \/ Len(events') = Len(events))
  <2>1. CASE \/ \E id \in Ids : BackoffElapses(id)
             \/ \E e \in Engines : \/ Poll(e) \/ PollerFails(e)
                                   \/ \E id \in threads[e] : ThreadEnds(e, id)
                                   \/ \E w \in Workers : IdleTimeout(e, w)
             \/ UNCHANGED vars
    BY <1>1, <2>1, StoryOther
  <2>2. CASE \/ \E job \in Jobs : Trigger(job)
             \/ \E e \in Engines, job \in Jobs : Enqueue(e, job)
             \/ \E e \in Engines, w \in Workers, job \in Jobs : RunOnce(e, w, job)
    BY <1>1, <2>2, StorySubmit
  <2>3. ASSUME NEW e \in Engines,
               \/ Start(e) \/ Stop(e) \/ Shutdown(e) \/ ProcessExit(e) \/ Crash(e)
        PROVE  StoryInv' /\ Len(events') = Len(events)
    <3>1. events' = events
      BY <2>3 DEF Start, Stop, Shutdown, ProcessExit, Crash, table
    <3>2. QED
      BY <1>1, <2>3, <3>1, StoryLifecycle
  <2>4. ASSUME NEW e \in Engines, TakePending(e)
        PROVE  StoryInv' /\ Len(events') = Len(events)
    <3>1. events \in Seq(EventRecord) /\ \E id, status : events' = [events EXCEPT ![id].status = status]
      BY <1>1, <2>4 DEF TakePending, MarkEvent, TypeOK, TableOK
    <3>2. Len(events') = Len(events)
      BY <3>1
    <3>3. QED
      BY <1>1, <2>4, <3>2, StoryTake
  <2>5. ASSUME NEW e \in Engines, NEW w \in Workers, CreateRetry(e, w)
        PROVE  StoryInv' /\ ChainInv'
    BY <1>1, <2>5, StoryRetry
  <2>6. ASSUME NEW e \in Engines, NEW w \in Workers,
               \/ Dequeue(e, w)
               \/ HandlerReturns(e, w) \/ HandlerRaises(e, w) \/ HandlerTimesOut(e, w)
               \/ OutcomeWriteFails(e, w)
               \/ MarkRejected(e, w) \/ MarkOverlap(e, w) \/ MarkProcessed(e, w)
               \/ MarkFailed(e, w)
               \/ RecordSkipped(e, w) \/ RecordSuccess(e, w) \/ RecordFailure(e, w)
               \/ WorkerFails(e, w)
        PROVE  StoryInv' /\ Len(events') = Len(events)
    BY <1>1, <2>6, WorkerAddsNone, StoryWorkers
  <2>7. QED
    BY <2>1, <2>2, <2>3, <2>4, <2>5, <2>6, StepKinds
<1>3. ChainInv'
  BY <1>1, <1>2, ChainKept
<1>4. QED
  BY <1>1, <1>2, <1>3 DEF HistoryInv

\* What modes, places, rows, run history and retry chains say of each other
\* holds in every state, with one daemon per root.
THEOREM HistoryInductive ==
    ASSUME SoleDaemon
    PROVE  Spec => []HistoryInv
<1>1. Init => HistoryInv
  BY TypeInit, ClaimInit, HistoryInit DEF HistoryInv
<1>2. HistoryInv /\ [Next]_vars => HistoryInv'
  BY HistoryStep
<1>3. QED
  BY <1>1, <1>2, PTL DEF Spec

-----------------------------------------------------------------------------
(* What the runs check, for every value of the constants.                  *)

LEMMA PlaceOf ==
    ASSUME HistoryInv, NEW id \in Ids
    PROVE  /\ id \in 1 .. Len(events) /\ id # 0
           /\ \E p \in Places : At(id, p) /\ Tells(id, p)
<1>1. TypeOK /\ StoryInv
  BY DEF HistoryInv
<1>2. id \in 1 .. Len(events)
  <2>1. events \in Seq(EventRecord)
    BY <1>1 DEF TypeOK, TableOK
  <2>2. QED
    BY <2>1 DEF Ids
<1>3. PICK p \in Places : At(id, p)
  BY <1>1, <1>2, SomePlace
<1>4. Tells(id, p)
  BY <1>1, <1>2, <1>3 DEF StoryInv
<1>5. QED
  BY <1>2, <1>3, <1>4

\* As long as no process stopped or crashed and no write failed, an event that
\* is marked "queued" is in the queue of a process or with one of its workers:
\* between mark_event and the put, and between the get and the outcome, none is
\* lost, with one daemon and any number of workers and run_once processes.
THEOREM QueuedIsHeldHolds ==
    ASSUME SoleDaemon
    PROVE  Spec => []QueuedIsHeld
<1>1. HistoryInv => QueuedIsHeld
  <2> SUFFICES ASSUME HistoryInv, outages + faults = 0, NEW id \in Ids,
                      events[id].status = "queued"
               PROVE  \E e \in Engines : id \in InQueue(e) \cup InSlots(e)
    BY DEF QueuedIsHeld
  <2>1. PICK p \in Places : At(id, p) /\ Tells(id, p)
    BY PlaceOf
  <2>2. ~Disturbed
    BY DEF Disturbed
  <2>3. p # "free"
    BY <2>1, <2>2 DEF Tells, Settled
  <2>4. CASE Waits(id)
    BY <2>4 DEF Waits, InQueue
  <2>5. CASE \E e \in Engines, w \in Workers : slot[e][w].ev = id
    BY <2>5, PlaceOf DEF InSlots
  <2>6. QED
    BY <2>1, <2>3, <2>4, <2>5 DEF At
<1>2. QED
  BY <1>1, HistoryInductive, PTL

LEMMA UnsettledRun ==
    ASSUME NEW id, events[id].status \in {"pending", "queued"}
    PROVE  ExpectedRun(id) = <<>>
BY DEF ExpectedRun

\* Whenever no worker holds an event, its run history is the one its status
\* calls for: never two runs, never one of another outcome, and a run is
\* missing only where an outage or a failed write came between the two writes.
THEOREM RunsAgreeHolds ==
    ASSUME SoleDaemon
    PROVE  Spec => []RunsAgree
<1>1. HistoryInv => RunsAgree
  <2> SUFFICES ASSUME HistoryInv, NEW id \in Ids, \A e \in Engines : id \notin InSlots(e)
               PROVE  runs[id] = ExpectedRun(id) \/ (outages + faults > 0 /\ runs[id] = <<>>)
    BY DEF RunsAgree
  <2>1. PICK p \in Places : At(id, p) /\ Tells(id, p)
    BY PlaceOf
  <2>2. p \in {"queue", "free"}
    BY <2>1, PlaceOf DEF At, InSlots
  <2>3. CASE p = "queue"
    <3>1. events[id].status = "queued" /\ runs[id] = <<>>
      BY <2>1, <2>3 DEF Tells
    <3>2. QED
      BY <3>1, UnsettledRun
  <2>4. CASE p = "free"
    <3>1. \/ events[id].status = "pending" /\ runs[id] = <<>>
          \/ Disturbed /\ runs[id] = <<>>
          \/ runs[id] = ExpectedRun(id)
      BY <2>1, <2>4 DEF Tells
    <3>2. QED
      BY <3>1, UnsettledRun DEF Disturbed
  <2>5. QED
    BY <2>2, <2>3, <2>4
<1>2. QED
  BY <1>1, HistoryInductive, PTL

\* Two attempts of one payload are never both still to run, except in the
\* window between creating the retry and marking the failed attempt, and the
\* failed attempt has started already and never starts again.
THEOREM OneAttemptAtATimeHolds ==
    ASSUME SoleDaemon
    PROVE  Spec => []OneAttemptAtATime
<1>1. HistoryInv => OneAttemptAtATime
  <2> SUFFICES ASSUME HistoryInv, NEW a \in Ids, NEW b \in Ids,
                      events[a].origin = events[b].origin, a < b,
                      events[a].status \in {"pending", "queued"}
               PROVE  starts[a] = 1 /\ (AboutToSettle(a) \/ outages + faults > 0)
    BY DEF OneAttemptAtATime
  <2>1. PICK p \in Places : At(a, p) /\ Tells(a, p)
    BY PlaceOf
  <2>2. a \in 1 .. Len(events) /\ b \in 1 .. Len(events)
    BY PlaceOf
  <2>3. Followed(a)
    BY <2>2 DEF HistoryInv, ChainInv
  <2>4. starts[a] = 1 /\ p \in {"mark_failed", "record_failure", "free"}
    BY <2>1, <2>3 DEF Tells
  <2>5. CASE p = "mark_failed"
    <3>1. PICK e \in Engines, w \in Workers : slot[e][w].ev = a /\ slot[e][w].at = "mark_failed"
      BY <2>1, <2>5 DEF At
    <3>2. slot[e][w] \in [at : Points, ev : Nat]
      BY DEF HistoryInv, TypeOK, MemoryOK
    <3>3. slot[e][w] = [at |-> "mark_failed", ev |-> a]
      BY <3>1, <3>2
    <3>4. QED
      BY <2>4, <3>3 DEF AboutToSettle
  <2>6. CASE p = "record_failure"
    <3>1. events[a].status \in {"failed", "dead_letter"}
      BY <2>1, <2>6 DEF Tells, FinalStatus
    <3>2. QED
      BY <3>1
  <2>7. CASE p = "free"
    <3>1. Disturbed
      BY <2>1, <2>4, <2>7 DEF Tells, Settled
    <3>2. QED
      BY <2>4, <3>1 DEF Disturbed
  <2>8. QED
    BY <2>4, <2>5, <2>6, <2>7
<1>2. QED
  BY <1>1, HistoryInductive, PTL

LEMMA NumberedSet ==
    ASSUME NEW S, NEW M \in Nat, NEW f \in [S -> 1 .. M],
           \A j, k \in S : f[j] = f[k] => j = k,
           \A n \in 1 .. M : \E k \in S : f[k] = n
    PROVE  Cardinality(S) = M
<1>1. f \in Injection(S, 1 .. M)
  BY DEF Injection, IsInjective
<1>2. f \in Surjection(S, 1 .. M)
  BY DEF Surjection
<1>3. IsFiniteSet(1 .. M) /\ Cardinality(1 .. M) = IF 1 > M THEN 0 ELSE M - 1 + 1
  BY FS_Interval
<1>4. Cardinality(1 .. M) = M
  BY <1>3
<1>5. Cardinality(S) = Cardinality(1 .. M)
  BY <1>1, <1>2, <1>3, FS_Injection
<1>6. QED
  BY <1>4, <1>5

\* A dead letter says that the policy is exhausted: the payload was tried
\* retry_max_attempts times, under numbers without gaps, and each attempt
\* started its handler exactly once, whatever stops, crashes and raising
\* writes there were.
THEOREM DeadLetterIsExhaustedHolds ==
    ASSUME SoleDaemon
    PROVE  Spec => []DeadLetterIsExhausted
<1>1. HistoryInv => DeadLetterIsExhausted
  <2> SUFFICES ASSUME HistoryInv, NEW id \in Ids, events[id].status = "dead_letter"
               PROVE  /\ {events[k].attempt : k \in Chain(id)} = 1 .. MaxAttempts[events[id].job]
                      /\ Cardinality(Chain(id)) = MaxAttempts[events[id].job]
                      /\ \A k \in Chain(id) : starts[k] = 1
    BY DEF DeadLetterIsExhausted
  <2> DEFINE M == MaxAttempts[events[id].job]
  <2>1. TypeOK /\ ChainInv
    BY DEF HistoryInv
  <2>2. id \in 1 .. Len(events)
    BY PlaceOf
  <2>3. M \in Nat /\ events[id].attempt \in Nat
    BY <2>1, <2>2, RowTypes
  <2>4. starts[id] = 1 /\ M > 0 /\ ~(events[id].attempt < M)
    BY PlaceOf DEF Tells, RetryEnabled, CanRetry
  <2>5. events[id].attempt = 1 \/ events[id].attempt <= M
    BY <2>1, <2>2 DEF ChainInv
  <2>6. events[id].attempt = M
    BY <2>3, <2>4, <2>5
  <2>7. \A k \in Chain(id) : k \in 1 .. Len(events) /\ k \in Nat /\ events[k].origin = events[id].origin
    BY PlaceOf DEF Chain
  <2>8. \A k \in 1 .. Len(events) : events[k].origin = events[id].origin => k \in Chain(id)
    <3>1. Ids = 1 .. Len(events)
      BY <2>1 DEF Ids, TypeOK, TableOK
    <3>2. QED
      BY <3>1 DEF Chain
  <2>9. \A k \in Chain(id) : events[k].attempt \in 1 .. M
    <3> SUFFICES ASSUME NEW k \in Chain(id) PROVE events[k].attempt \in 1 .. M
      OBVIOUS
    <3>1. events[k].job = events[id].job
      BY <2>1, <2>2, <2>7 DEF ChainInv
    <3>2. events[k].attempt = 1 \/ events[k].attempt <= M
      BY <2>1, <2>7, <3>1 DEF ChainInv
    <3>3. events[k].attempt \in Nat \ {0}
      BY <2>1, <2>7, RowTypes
    <3>4. QED
      BY <2>3, <2>4, <3>2, <3>3
  <2>10. \A n \in 1 .. M : \E k \in Chain(id) : events[k].attempt = n
    BY <2>1, <2>2, <2>6, <2>8 DEF ChainInv
  <2>11. \A j, k \in Chain(id) : events[j].attempt = events[k].attempt => j = k
    BY <2>1, <2>7 DEF ChainInv
  <2>12. ~Followed(id)
    <3> SUFFICES ASSUME NEW k \in 1 .. Len(events), events[k].origin = events[id].origin,
                        events[k].attempt = events[id].attempt + 1
                 PROVE  FALSE
      BY DEF Followed
    <3>1. events[k].attempt \in 1 .. M
      BY <2>8, <2>9
    <3>2. QED
      BY <2>3, <2>6, <3>1
  <2>13. ASSUME NEW k \in Chain(id)
         PROVE  starts[k] = 1
    <3>1. k \in 1 .. Len(events) /\ events[k].origin = events[id].origin
      BY <2>7
    <3>2. CASE k = id
      BY <2>4, <3>2
    <3>3. CASE k < id
      <4>1. Followed(k)
        BY <2>1, <2>2, <3>1, <3>3 DEF ChainInv
      <4>2. k \in Ids
        BY DEF Chain
      <4>3. QED
        BY <4>1, <4>2, PlaceOf DEF Tells
    <3>4. CASE id < k
      BY <2>1, <2>2, <2>12, <3>1, <3>4 DEF ChainInv
    <3>5. QED
      BY <2>2, <3>1, <3>2, <3>3, <3>4
  <2> DEFINE attemptOf == [k \in Chain(id) |-> events[k].attempt]
  <2>14. attemptOf \in [Chain(id) -> 1 .. M]
    BY <2>9
  <2>15. /\ \A j, k \in Chain(id) : attemptOf[j] = attemptOf[k] => j = k
         /\ \A n \in 1 .. M : \E k \in Chain(id) : attemptOf[k] = n
    BY <2>10, <2>11
  <2> HIDE DEF attemptOf
  <2>16. Cardinality(Chain(id)) = M
    BY <2>3, <2>14, <2>15, NumberedSet
  <2>17. {events[k].attempt : k \in Chain(id)} = 1 .. M
    BY <2>9, <2>10
  <2>18. QED
    BY <2>13, <2>16, <2>17
<1>2. QED
  BY <1>1, HistoryInductive, PTL

=============================================================================
