---------------------------- MODULE CronScheduler ----------------------------
(***************************************************************************)
(* When a daemon of registers.cron fires its jobs: the schedule loop       *)
(* against the wall clock, debounced file events, and webhooks.  What      *)
(* becomes of a fired event is CronEngine's subject.                       *)
(*                                                                         *)
(* The clock counts in units of the poll; a loop may resume late, by up to *)
(* MaxLate.  A pass of the schedule loop never suspends (a put on the      *)
(* unbounded queue does not), so it is one action.                         *)
(***************************************************************************)
EXTENDS Integers, Sequences, FiniteSets

CONSTANTS
    Expression,      \* enabled cron job -> its five fields
    Seconds,         \* enabled interval job -> its period
    Watches,         \* enabled file_change job -> the change keys its patterns match
    Debounce,        \* file_change job -> debounce_seconds
    Token,           \* enabled webhook job -> expected token, or NoToken
    Rank,            \* job -> its place in the order of registration
    Keys, Tokens, NoToken,
    Calendar,        \* minute -> its calendar fields
    MinuteLen,       \* clock units per minute
    Poll,            \* poll_interval
    MaxLate,         \* how late the event loop resumes a sleeper
    Uptime,          \* monotonic clock of the host at time 0
    MaxTime, MaxStarts, MaxFaults, MaxFiles, MaxHooks    \* bounds

CronJobs == DOMAIN Expression
IntervalJobs == DOMAIN Seconds
FileJobs == DOMAIN Watches
HookJobs == DOMAIN Token
Jobs == CronJobs \cup IntervalJobs \cup FileJobs \cup HookJobs

ASSUME SchedulerAssumption ==
    /\ CronJobs \cap (IntervalJobs \cup FileJobs \cup HookJobs) = {}
    /\ IntervalJobs \cap (FileJobs \cup HookJobs) = {} /\ FileJobs \cap HookJobs = {}
    /\ Rank \in [Jobs -> Nat] /\ \A i, j \in Jobs : Rank[i] = Rank[j] => i = j
    /\ Seconds \in [IntervalJobs -> Nat \ {0}]
    /\ Watches \in [FileJobs -> SUBSET Keys] /\ Debounce \in [FileJobs -> Nat]
    /\ Token \in [HookJobs -> Tokens \cup {NoToken}]
    /\ MinuteLen \in Nat \ {0} /\ Poll \in Nat \ {0}
    /\ {MaxLate, Uptime, MaxTime, MaxStarts, MaxFaults, MaxFiles, MaxHooks} \subseteq Nat

\* A minute is longer than two passes of the loop can lie apart.
ASSUME KeepsUp == Poll + MaxLate <= MinuteLen

VARIABLES
    clock,        \* wall clock
    mode,         \* "down", "up", or "stopping": the stop event is set
    wake,         \* when the schedule loop resumes, or Dead
    intervalNext, \* _interval_next
    cronKey,      \* _cron_last_key
    lastEmit,     \* _file_last_emit
    files,        \* changes the observer thread has handed to the loop
    fires,        \* observation: per job, the events this life enqueued
    failed,       \* observation: per file job, the events that could not be created
    since,        \* observation: when this life's loop started
    starts, faults, changes, hooks

memory == <<intervalNext, cronKey, lastEmit, files, fires, failed>>
vars == <<clock, mode, wake, memory, since, starts, faults, changes, hooks>>

Dead == -1
Never == -1

-----------------------------------------------------------------------------
(* cron_matches: a field is "*", "*/n" or a list of numbers.               *)

FieldMatches(field, value) ==
    CASE field.kind = "any" -> TRUE
      [] field.kind = "step" -> value % field.step = 0
      [] field.kind = "list" -> value \in field.values

\* Sunday is 0; 7 names it too, but only as the whole field.
DowMatches(field, dow) ==
    \/ FieldMatches(field, dow)
    \/ field = [kind |-> "list", values |-> {7}] /\ dow = 0

CronMatches(e, now) ==
    /\ FieldMatches(e.minute, now.minute) /\ FieldMatches(e.hour, now.hour)
    /\ FieldMatches(e.dom, now.dom) /\ FieldMatches(e.mon, now.mon)
    /\ DowMatches(e.dow, now.dow)

MinuteOf(t) == t \div MinuteLen
Matches(j, m) == CronMatches(Expression[j], Calendar[m])

-----------------------------------------------------------------------------

\* CronRuntimeEngine.__init__: a start remembers nothing of earlier firings.
Forget ==
    /\ intervalNext' = [j \in IntervalJobs |-> Never]
    /\ cronKey' = [j \in CronJobs |-> Never]
    /\ lastEmit' = [j \in FileJobs |-> [k \in Keys |-> 0]]
    /\ files' = <<>>
    /\ fires' = [j \in Jobs |-> <<>>]
    /\ failed' = [j \in FileJobs |-> {}]

Init ==
    /\ clock = 0 /\ mode = "down" /\ wake = Dead /\ since = 0
    /\ intervalNext = [j \in IntervalJobs |-> Never]
    /\ cronKey = [j \in CronJobs |-> Never]
    /\ lastEmit = [j \in FileJobs |-> [k \in Keys |-> 0]]
    /\ files = <<>>
    /\ fires = [j \in Jobs |-> <<>>]
    /\ failed = [j \in FileJobs |-> {}]
    /\ starts = 0 /\ faults = 0 /\ changes = 0 /\ hooks = 0

\* Time passes, but a live loop is never left behind by more than MaxLate.
Tick ==
    /\ clock < MaxTime
    /\ mode = "up" /\ wake # Dead => clock < wake + MaxLate
    /\ clock' = clock + 1
    /\ UNCHANGED <<mode, wake, memory, since, starts, faults, changes, hooks>>

Start ==
    /\ mode = "down" /\ starts < MaxStarts
    /\ mode' = "up" /\ wake' = clock /\ since' = clock
    /\ starts' = starts + 1
    /\ Forget
    /\ UNCHANGED <<clock, faults, changes, hooks>>

\* The stop event ends the schedule loop at its next look; it is cancelled then.
Stop ==
    /\ mode = "up"
    /\ mode' = "stopping" /\ wake' = Dead
    /\ UNCHANGED <<clock, memory, since, starts, faults, changes, hooks>>

\* The shutdown is through, or the process crashes.
Exit ==
    /\ mode # "down"
    /\ mode' = "down" /\ wake' = Dead
    /\ Forget
    /\ UNCHANGED <<clock, since, starts, faults, changes, hooks>>

-----------------------------------------------------------------------------
(* The schedule loop.                                                      *)

\* Sensitivity: the key of the minute is not looked up.
DueTwice(j) ==
    IF j \in IntervalJobs
    THEN intervalNext[j] # Never /\ clock >= intervalNext[j]
    ELSE Matches(j, MinuteOf(clock))

\* An interval job that has not fired yet is due seconds after now, that is
\* never: _interval_next gets its entry from the first firing.
IntervalNext(j) ==
    IF intervalNext[j] = Never THEN clock + Seconds[j] ELSE intervalNext[j]

Due(j) ==
    IF j \in IntervalJobs
    THEN clock >= IntervalNext(j)
    ELSE /\ cronKey[j] # MinuteOf(clock)
         /\ Matches(j, MinuteOf(clock))

\* fires records of a scheduled event which minute it was for, and of a file
\* change which change and when.
Plain == "none"
Record(made, key, at) ==
    fires' = [j \in Jobs |->
        IF j \in made THEN Append(fires[j], [key |-> key, at |-> at]) ELSE fires[j]]

\* The jobs that are due get their events in the order of registration; at one of
\* them it may end.
Made(due) == {made \in SUBSET due : \A i \in made, j \in due \ made : Rank[i] < Rank[j]}
First(jobs) == {j \in jobs : \A i \in jobs : Rank[j] <= Rank[i]}

\* Sensitivity: a pass books its first job only.
BookedFirst(due, made) == First(due)

\* A job is booked as fired before its event is created, which may raise.
Booked(due, made) == made \cup First(due \ made)

Raises(due, made) ==
    /\ made # due => faults < MaxFaults
    /\ faults' = IF made # due THEN faults + 1 ELSE faults

\* One pass of _schedule_loop; an error ends its task, and nobody notices.
Pass ==
    LET due == {j \in CronJobs \cup IntervalJobs : Due(j)} IN
    \E made \in Made(due) :
        /\ mode = "up" /\ wake # Dead /\ clock >= wake
        /\ Raises(due, made)
        /\ wake' = IF made = due THEN clock + Poll ELSE Dead
        /\ intervalNext' = [j \in IntervalJobs |->
              IF j \in Booked(due, made) THEN clock + Seconds[j] ELSE intervalNext[j]]
        /\ cronKey' = [j \in CronJobs |->
              IF j \in Booked(due, made) THEN MinuteOf(clock) ELSE cronKey[j]]
        /\ Record(made, Plain, MinuteOf(clock))
        /\ UNCHANGED <<clock, mode, lastEmit, files, failed, since, starts, changes, hooks>>

-----------------------------------------------------------------------------
(* File changes and webhooks.                                              *)

\* The observer thread hands a change to the loop, unless the stop event is set.
FileChange(k) ==
    /\ mode = "up" /\ FileJobs # {} /\ changes < MaxFiles
    /\ files' = Append(files, k)
    /\ changes' = changes + 1
    /\ UNCHANGED <<clock, mode, wake, intervalNext, cronKey, lastEmit, fires, failed, since,
                   starts, faults, hooks>>

Monotonic == clock + Uptime

\* Sensitivity: the window includes its end.
DebouncedLonger(j, k) == Debounce[j] > 0 /\ Monotonic - lastEmit[j][k] <= Debounce[j]

Debounced(j, k) == Debounce[j] > 0 /\ Monotonic - lastEmit[j][k] < Debounce[j]

\* The task of one change; a task created before the stop still runs while the
\* cancelled loops are gathered.  An error ends this task only.
HandleFile ==
    /\ mode # "down" /\ files # <<>>
    /\ LET k == Head(files)
           due == {j \in FileJobs : k \in Watches[j] /\ ~Debounced(j, k)} IN
       \E made \in Made(due) :
           /\ Raises(due, made)
           /\ lastEmit' = [j \in FileJobs |->
                 IF j \in Booked(due, made) THEN [lastEmit[j] EXCEPT ![k] = Monotonic] ELSE lastEmit[j]]
           /\ failed' = [j \in FileJobs |->
                 IF j \in Booked(due, made) \ made
                 THEN failed[j] \cup {[key |-> k, at |-> clock]} ELSE failed[j]]
           /\ Record(made, k, clock)
    /\ files' = Tail(files)
    /\ UNCHANGED <<clock, mode, wake, intervalNext, cronKey, since, starts, changes, hooks>>

\* A request fires every webhook job of its path whose token it carries (with
\* none of them the answer is 404); an error leaves it unanswered.
Webhook(token) ==
    LET due == {j \in HookJobs : Token[j] \in {NoToken, token}} IN
    \E made \in Made(due) :
        /\ mode # "down" /\ hooks < MaxHooks
        /\ Raises(due, made)
        /\ hooks' = hooks + 1
        /\ Record(made, Plain, clock)
        /\ UNCHANGED <<clock, mode, wake, intervalNext, cronKey, lastEmit, files, failed,
                       since, starts, changes>>

Next ==
    \/ Tick \/ Start \/ Stop \/ Exit \/ Pass \/ HandleFile
    \/ \E k \in Keys : FileChange(k)
    \/ \E t \in Tokens \cup {NoToken} : Webhook(t)

Spec == Init /\ [][Next]_vars

-----------------------------------------------------------------------------
(* Properties.                                                             *)

\* Types; and every cron job that has fired in this life is booked for the
\* latest minute it fired in.
TypeOK ==
    /\ clock \in 0 .. MaxTime /\ since \in 0 .. MaxTime
    /\ mode \in {"down", "up", "stopping"} /\ wake \in Nat \cup {Dead}
    /\ intervalNext \in [IntervalJobs -> Nat \cup {Never}]
    /\ cronKey \in [CronJobs -> Nat \cup {Never}]
    /\ lastEmit \in [FileJobs -> [Keys -> Nat]] /\ files \in Seq(Keys)
    /\ fires \in [Jobs -> Seq([key : Keys \cup {Plain}, at : 0 .. MaxTime])]
    /\ failed \in [FileJobs -> SUBSET [key : Keys, at : 0 .. MaxTime]]
    /\ {starts, faults, changes, hooks} \subseteq Nat
    /\ \A j \in CronJobs : \A i \in 1 .. Len(fires[j]) : fires[j][i].at <= cronKey[j]

Scheduling == mode = "up" /\ wake # Dead

\* A cron job fires only in a minute its expression names, at most once in it,
\* and while the schedule loop is alive no such minute passes without it,
\* although the loop polls several times a minute and may resume late.
CronOncePerMinute ==
    \A j \in CronJobs :
        /\ \A i \in 1 .. Len(fires[j]) : Matches(j, fires[j][i].at)
        /\ \A i, h \in 1 .. Len(fires[j]) : fires[j][i].at = fires[j][h].at => i = h
        /\ Scheduling =>
             \A m \in MinuteOf(since) + 1 .. MinuteOf(clock) - 1 :
                Matches(j, m) => \E i \in 1 .. Len(fires[j]) : fires[j][i].at = m

Emitted(j, k) == {fires[j][i].at : i \in {h \in 1 .. Len(fires[j]) : fires[j][h].key = k}}

Failed(j, k) == {f.at : f \in {g \in failed[j] : g.key = k}}

\* Two events of one file job for one change key lie debounce_seconds apart.  And
\* a change whose task does not raise, and that makes no event, comes that soon
\* after one that made an event, or after one whose event could not be created,
\* or after the host booted (_file_last_emit defaults to 0.0).
FileChangesServed ==
    [][\A j \in FileJobs : \A k \in Watches[j] :
        /\ Emitted(j, k)' \ Emitted(j, k) # {} =>
             \A t \in Emitted(j, k) : clock - t >= Debounce[j]
        /\ HandleFile /\ Head(files) = k =>
             \/ clock \in Emitted(j, k)'
             \/ faults' # faults
             \/ clock + Uptime < Debounce[j]
             \/ \E t \in Emitted(j, k) \cup Failed(j, k) : clock - t < Debounce[j]]_vars

\* An interval job fires by the time its period has passed twice: "choose
\* interval for fixed cadence" (cron/USAGE.md:200).
IntervalFires ==
    \A j \in IntervalJobs :
        Scheduling /\ clock > since + 2 * Seconds[j] + Poll + MaxLate => fires[j] # <<>>
=============================================================================
