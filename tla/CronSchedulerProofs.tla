------------------------- MODULE CronSchedulerProofs --------------------------
(***************************************************************************)
(* Proofs about CronScheduler, for any jobs, expressions, periods, calendar *)
(* and lengths of the poll, the minute and the delay, as long as the loop   *)
(* keeps up (KeepsUp).                                                      *)
(***************************************************************************)
EXTENDS CronScheduler, TLAPS

-----------------------------------------------------------------------------
(* The inductive invariant.                                                *)

Fire == [key : Keys \cup {Plain}, at : 0 .. MaxTime]
Change == [key : Keys, at : 0 .. MaxTime]

TypesInv ==
    /\ clock \in 0 .. MaxTime /\ since \in 0 .. MaxTime
    /\ mode \in {"down", "up", "stopping"} /\ wake \in Nat \cup {Dead}
    /\ intervalNext \in [IntervalJobs -> Nat \cup {Never}]
    /\ cronKey \in [CronJobs -> Nat \cup {Never}]
    /\ lastEmit \in [FileJobs -> [Keys -> Nat]] /\ files \in Seq(Keys)
    /\ fires \in [Jobs -> Seq(Fire)] /\ failed \in [FileJobs -> SUBSET Change]
    /\ {starts, faults, changes, hooks} \subseteq Nat

Fired(j, m) == \E i \in 1 .. Len(fires[j]) : fires[j][i].at = m

\* A cron job is booked for no later minute than this one, has fired in no later
\* one than it is booked for, and in each minute once.
CronInv ==
    \A j \in CronJobs :
        /\ cronKey[j] <= MinuteOf(clock)
        /\ \A i \in 1 .. Len(fires[j]) :
              fires[j][i].at <= cronKey[j] /\ Matches(j, fires[j][i].at)
        /\ \A i, h \in 1 .. Len(fires[j]) : fires[j][i].at = fires[j][h].at => i = h

\* A loop that lives is not late, has fired whatever it booked, and has not made
\* its first pass yet, or its last one, a poll before it wakes, left no minute out.
LoopInv ==
    Scheduling =>
        /\ since <= clock /\ clock <= wake + MaxLate
        /\ \A j \in CronJobs : cronKey[j] # Never => Fired(j, cronKey[j])
        /\ \/ wake = since
           \/ /\ since <= wake - Poll /\ wake - Poll <= clock
              /\ \A j \in CronJobs : \A m \in MinuteOf(since) + 1 .. MinuteOf(wake - Poll) :
                    Matches(j, m) => Fired(j, m)

\* _file_last_emit has the latest event of a change, or a later one that could not
\* be created, or nothing.
FileInv ==
    \A j \in FileJobs : \A k \in Keys :
        /\ lastEmit[j][k] <= clock + Uptime
        /\ \A i \in 1 .. Len(fires[j]) :
              fires[j][i].key = k => fires[j][i].at + Uptime <= lastEmit[j][k]
        /\ lastEmit[j][k] # 0 =>
              \/ \E i \in 1 .. Len(fires[j]) :
                    fires[j][i].key = k /\ fires[j][i].at + Uptime = lastEmit[j][k]
              \/ \E c \in failed[j] : c.key = k /\ c.at + Uptime = lastEmit[j][k]

SchedulerInv == TypesInv /\ CronInv /\ LoopInv /\ FileInv

-----------------------------------------------------------------------------
(* Minutes, and what firing does.                                          *)

LEMMA MinuteType == \A x \in Nat : MinuteOf(x) \in Nat /\ MinuteOf(x) <= x
  BY SchedulerAssumption DEF MinuteOf

LEMMA MinutesGrow == \A x, y \in Nat : x <= y => MinuteOf(x) <= MinuteOf(y)
  BY SchedulerAssumption DEF MinuteOf

LEMMA NextMinute ==
  ASSUME NEW x \in Nat, NEW y \in Nat, y <= x + MinuteLen
  PROVE  MinuteOf(y) <= MinuteOf(x) + 1
  BY SchedulerAssumption DEF MinuteOf

LEMMA BoundsType ==
  /\ Poll \in Nat \ {0} /\ MinuteLen \in Nat \ {0} /\ MaxLate \in Nat /\ Uptime \in Nat
  /\ MaxTime \in Nat /\ MaxFaults \in Nat
  BY SchedulerAssumption

LEMMA ClockType ==
  ASSUME TypesInv
  PROVE  /\ clock \in Nat /\ clock <= MaxTime /\ since \in Nat /\ MinuteOf(clock) \in 0 .. MaxTime
         /\ MinuteOf(since) \in Nat
  <1>1. clock \in Nat /\ clock <= MaxTime /\ since \in Nat
    BY BoundsType DEF TypesInv
  <1> QED BY <1>1, BoundsType, MinuteType

\* What an event, made for the jobs of a set, is recorded as.
Recorded(made, f) ==
    /\ \A j \in Jobs \ made : fires'[j] = fires[j]
    /\ \A j \in made :
          /\ Len(fires'[j]) = Len(fires[j]) + 1
          /\ \A i \in 1 .. Len(fires[j]) : fires'[j][i] = fires[j][i]
          /\ fires'[j][Len(fires[j]) + 1] = f

LEMMA FiresType ==
  ASSUME TypesInv, NEW j \in Jobs
  PROVE  Len(fires[j]) \in Nat /\ \A i \in 1 .. Len(fires[j]) : fires[j][i] \in Fire
  BY DEF TypesInv

LEMMA FireFields ==
  ASSUME NEW f \in Fire
  PROVE  f.at \in Nat /\ f.at <= MaxTime
  BY BoundsType DEF Fire

LEMMA RecordDoes ==
  ASSUME TypesInv, NEW made \in SUBSET Jobs, NEW key \in Keys \cup {Plain},
         NEW at \in 0 .. MaxTime, Record(made, key, at),
         NEW f, f = [key |-> key, at |-> at]
  PROVE  fires' \in [Jobs -> Seq(Fire)] /\ Recorded(made, f)
  <1>1. f \in Fire
    BY DEF Fire
  <1>2. fires' = [j \in Jobs |-> IF j \in made THEN Append(fires[j], f) ELSE fires[j]]
    BY DEF Record
  <1>3. \A j \in Jobs : fires[j] \in Seq(Fire)
    BY DEF TypesInv
  <1>4. ASSUME NEW j \in made
        PROVE  /\ Append(fires[j], f) \in Seq(Fire)
               /\ Len(Append(fires[j], f)) = Len(fires[j]) + 1
               /\ \A i \in 1 .. Len(fires[j]) : Append(fires[j], f)[i] = fires[j][i]
               /\ Append(fires[j], f)[Len(fires[j]) + 1] = f
    BY <1>1, <1>3
  <1>5. \A j \in Jobs : fires'[j] = IF j \in made THEN Append(fires[j], f) ELSE fires[j]
    BY <1>2
  <1>6. fires' \in [Jobs -> Seq(Fire)]
    BY <1>2, <1>3, <1>4
  <1> QED BY <1>4, <1>5, <1>6 DEF Recorded

LEMMA MadeType ==
  ASSUME NEW due, NEW made \in Made(due)
  PROVE  /\ made \subseteq due /\ Booked(due, made) \subseteq due /\ made \subseteq Booked(due, made)
         /\ made = due => Booked(due, made) = due
  BY DEF Made, Booked, First

LEMMA RaisesDoes ==
  ASSUME faults \in Nat, NEW due, NEW made, Raises(due, made)
  PROVE  /\ faults' \in Nat /\ faults <= faults'
         /\ made # due => faults' # faults
  BY DEF Raises

-----------------------------------------------------------------------------
(* Steps that fire nothing.                                                *)

LEMMA InitInv == Init => SchedulerInv
  <1> SUFFICES ASSUME Init PROVE SchedulerInv
    OBVIOUS
  <1>1. /\ clock = 0 /\ mode = "down" /\ wake = Dead /\ since = 0
        /\ intervalNext = [j \in IntervalJobs |-> Never]
        /\ cronKey = [j \in CronJobs |-> Never]
        /\ lastEmit = [j \in FileJobs |-> [k \in Keys |-> 0]]
        /\ files = <<>> /\ fires = [j \in Jobs |-> <<>>]
        /\ failed = [j \in FileJobs |-> {}]
        /\ starts = 0 /\ faults = 0 /\ changes = 0 /\ hooks = 0
    BY DEF Init
  <1>2. TypesInv
    BY <1>1, BoundsType DEF TypesInv
  <1>3. \A j \in Jobs : Len(fires[j]) = 0
    BY <1>1
  <1>4. CronInv
    BY <1>1, <1>3, MinuteType DEF CronInv, Jobs, Never
  <1>5. LoopInv
    BY <1>1 DEF LoopInv, Scheduling
  <1>6. FileInv
    BY <1>1, <1>3, BoundsType DEF FileInv, Jobs
  <1> QED BY <1>2, <1>4, <1>5, <1>6 DEF SchedulerInv

\* A daemon begins or ends: nothing has fired.
LEMMA ForgetKeeps ==
  ASSUME SchedulerInv, Forget, UNCHANGED <<clock, faults, changes, hooks>>,
         starts' \in Nat, since' \in {since, clock},
         \/ mode' = "down" /\ wake' = Dead
         \/ mode' = "up" /\ wake' = clock /\ since' = clock
  PROVE  SchedulerInv'
  <1>1. TypesInv /\ clock \in Nat /\ MinuteOf(clock) \in Nat
    BY ClockType DEF SchedulerInv
  <1>2. /\ intervalNext' = [j \in IntervalJobs |-> Never]
        /\ cronKey' = [j \in CronJobs |-> Never]
        /\ lastEmit' = [j \in FileJobs |-> [k \in Keys |-> 0]]
        /\ files' = <<>> /\ fires' = [j \in Jobs |-> <<>>]
        /\ failed' = [j \in FileJobs |-> {}]
    BY DEF Forget
  <1>3. TypesInv'
    BY <1>1, <1>2 DEF TypesInv
  <1>4. \A j \in Jobs : Len(fires'[j]) = 0
    BY <1>2
  <1>5. CronInv'
    BY <1>1, <1>2, <1>4 DEF CronInv, Jobs, Never
  <1>6. LoopInv'
    BY <1>1, <1>2, BoundsType DEF LoopInv, Scheduling, Dead
  <1>7. FileInv'
    BY <1>1, <1>2, <1>4, BoundsType DEF FileInv, Jobs
  <1> QED BY <1>3, <1>5, <1>6, <1>7 DEF SchedulerInv

LEMMA TickKeeps ==
  ASSUME SchedulerInv, Tick
  PROVE  SchedulerInv'
  <1>1. /\ TypesInv /\ clock \in Nat /\ MinuteOf(clock) \in Nat
        /\ clock < MaxTime /\ clock' = clock + 1 /\ MinuteOf(clock) <= MinuteOf(clock')
        /\ MinuteOf(clock') \in Nat /\ since \in Nat
        /\ mode = "up" /\ wake # Dead => clock < wake + MaxLate
        /\ UNCHANGED <<mode, wake, memory, since, starts, faults, changes, hooks>>
    BY ClockType, MinuteType, MinutesGrow DEF SchedulerInv, Tick
  <1>2. TypesInv'
    BY <1>1, BoundsType DEF TypesInv, memory
  <1>3. CronInv'
    <2> SUFFICES ASSUME NEW j \in CronJobs PROVE cronKey[j] <= MinuteOf(clock')
      BY <1>1 DEF SchedulerInv, CronInv, memory, Matches
    <2>1. cronKey[j] <= MinuteOf(clock) /\ cronKey[j] \in Nat \cup {Never}
      BY <1>1 DEF SchedulerInv, CronInv, TypesInv
    <2> QED BY <1>1, <2>1 DEF Never
  <1>4. LoopInv'
    <2> SUFFICES ASSUME Scheduling
                 PROVE  since <= clock' /\ clock' <= wake + MaxLate
                        /\ (wake # since => wake - Poll <= clock')
      BY <1>1 DEF SchedulerInv, LoopInv, Scheduling, memory, Fired, Matches
    <2>1. wake \in Nat
      BY <1>1 DEF Scheduling, TypesInv
    <2> QED BY <1>1, <2>1, BoundsType DEF SchedulerInv, LoopInv, Scheduling
  <1>5. FileInv'
    <2>1. \A j \in FileJobs : \A k \in Keys : lastEmit[j][k] \in Nat /\ lastEmit[j][k] <= clock + Uptime
      BY <1>1 DEF SchedulerInv, FileInv, TypesInv
    <2>2. \A j \in FileJobs : \A k \in Keys : lastEmit[j][k] <= clock' + Uptime
      BY <1>1, <2>1, BoundsType
    <2> QED BY <1>1, <2>2 DEF SchedulerInv, FileInv, memory
  <1> QED BY <1>2, <1>3, <1>4, <1>5 DEF SchedulerInv

\* The loop is told to stop, or the observer hands a change over.
LEMMA StopKeeps ==
  ASSUME SchedulerInv, Stop
  PROVE  SchedulerInv'
  <1>1. /\ UNCHANGED <<clock, memory, since, starts, faults, changes, hooks>>
        /\ mode' = "stopping" /\ wake' = Dead
    BY DEF Stop
  <1>2. TypesInv'
    BY <1>1 DEF SchedulerInv, TypesInv, memory
  <1>3. CronInv' /\ FileInv'
    BY <1>1 DEF SchedulerInv, CronInv, FileInv, memory, Matches
  <1>4. LoopInv'
    BY <1>1 DEF LoopInv, Scheduling
  <1> QED BY <1>2, <1>3, <1>4 DEF SchedulerInv

LEMMA FileChangeKeeps ==
  ASSUME SchedulerInv, NEW k \in Keys, FileChange(k)
  PROVE  SchedulerInv'
  <1>1. /\ UNCHANGED <<clock, mode, wake, intervalNext, cronKey, lastEmit, fires, failed, since,
                       starts, faults, hooks>>
        /\ files' = Append(files, k) /\ changes' = changes + 1
    BY DEF FileChange
  <1>2. TypesInv'
    <2>1. files \in Seq(Keys) /\ changes \in Nat
      BY DEF SchedulerInv, TypesInv
    <2>2. files' \in Seq(Keys) /\ changes' \in Nat
      BY <1>1, <2>1
    <2> QED BY <1>1, <2>2 DEF SchedulerInv, TypesInv
  <1>3. CronInv' /\ FileInv' /\ LoopInv'
    BY <1>1 DEF SchedulerInv, CronInv, FileInv, LoopInv, Fired, Scheduling, Matches
  <1> QED BY <1>2, <1>3 DEF SchedulerInv

LEMMA StutterKeeps ==
  ASSUME SchedulerInv, UNCHANGED vars
  PROVE  SchedulerInv'
  <1> USE DEF vars, memory
  <1>1. TypesInv'
    BY DEF SchedulerInv, TypesInv
  <1>2. CronInv' /\ FileInv'
    BY DEF SchedulerInv, CronInv, FileInv, Matches
  <1>3. LoopInv'
    BY DEF SchedulerInv, LoopInv, Fired, Scheduling, Matches
  <1> QED BY <1>1, <1>2, <1>3 DEF SchedulerInv

-----------------------------------------------------------------------------
(* Steps that fire.                                                        *)

\* Jobs of other kinds do not disturb the cron jobs, nor the file jobs.
LEMMA CronKept ==
  ASSUME SchedulerInv, \A j \in CronJobs : fires'[j] = fires[j], UNCHANGED <<cronKey, clock>>
  PROVE  CronInv'
  BY DEF SchedulerInv, CronInv, Matches

LEMMA LoopKept ==
  ASSUME SchedulerInv, \A j \in CronJobs : fires'[j] = fires[j],
         UNCHANGED <<cronKey, clock, mode, wake, since>>
  PROVE  LoopInv'
  BY DEF SchedulerInv, LoopInv, Scheduling, Fired, Matches

LEMMA FileKept ==
  ASSUME SchedulerInv, \A j \in FileJobs : fires'[j] = fires[j],
         UNCHANGED <<lastEmit, failed, clock>>
  PROVE  FileInv'
  BY DEF SchedulerInv, FileInv

\* The kinds of jobs are disjoint.
LEMMA Kinds ==
  /\ \A j \in CronJobs : j \in Jobs /\ j \notin IntervalJobs /\ j \notin FileJobs /\ j \notin HookJobs
  /\ \A j \in IntervalJobs : j \in Jobs /\ j \notin FileJobs
  /\ \A j \in FileJobs : j \in Jobs
  /\ \A j \in HookJobs : j \in Jobs /\ j \notin FileJobs
  BY SchedulerAssumption DEF Jobs

LEMMA WebhookKeeps ==
  ASSUME SchedulerInv, NEW token, Webhook(token)
  PROVE  SchedulerInv'
  <1> DEFINE due == {j \in HookJobs : Token[j] \in {NoToken, token}}
  <1>1. PICK made \in Made(due) :
           /\ Raises(due, made) /\ hooks' = hooks + 1 /\ Record(made, Plain, clock)
           /\ UNCHANGED <<clock, mode, wake, intervalNext, cronKey, lastEmit, files, failed,
                          since, starts, changes>>
    BY DEF Webhook
  <1>2. TypesInv /\ faults \in Nat /\ hooks \in Nat /\ clock \in 0 .. MaxTime
    BY DEF SchedulerInv, TypesInv
  <1>3. made \subseteq HookJobs /\ made \in SUBSET Jobs
    BY <1>1, MadeType, Kinds
  <1>4. fires' \in [Jobs -> Seq(Fire)] /\ \A j \in Jobs \ made : fires'[j] = fires[j]
    <2>1. Plain \in Keys \cup {Plain}
      OBVIOUS
    <2>2. \A f : f = [key |-> Plain, at |-> clock] =>
             fires' \in [Jobs -> Seq(Fire)] /\ Recorded(made, f)
      BY <1>1, <1>2, <1>3, <2>1, RecordDoes
    <2> QED BY <2>2 DEF Recorded
  <1>5. faults' \in Nat
    BY <1>1, <1>2, RaisesDoes
  <1>6. TypesInv'
    BY <1>1, <1>2, <1>4, <1>5 DEF TypesInv
  <1>7. \A j \in CronJobs \cup FileJobs : fires'[j] = fires[j]
    BY <1>3, <1>4, Kinds
  <1> QED BY <1>1, <1>6, <1>7, CronKept, LoopKept, FileKept DEF SchedulerInv

\* What the task of a file change does.
FileStep(k, due, made) ==
    /\ due = {j \in FileJobs : k \in Watches[j] /\ ~Debounced(j, k)}
    /\ made \in Made(due) /\ Raises(due, made)
    /\ lastEmit' = [j \in FileJobs |->
          IF j \in Booked(due, made) THEN [lastEmit[j] EXCEPT ![k] = Monotonic] ELSE lastEmit[j]]
    /\ failed' = [j \in FileJobs |->
          IF j \in Booked(due, made) \ made
          THEN failed[j] \cup {[key |-> k, at |-> clock]} ELSE failed[j]]
    /\ Record(made, k, clock)

LEMMA FileStepDoes ==
  ASSUME TypesInv, HandleFile
  PROVE  /\ Head(files) \in Keys /\ files' \in Seq(Keys)
         /\ \E due : \E made \in Made(due) : FileStep(Head(files), due, made)
         /\ UNCHANGED <<clock, mode, wake, intervalNext, cronKey, since, starts, changes, hooks>>
  <1>1. files \in Seq(Keys) /\ files # <<>> /\ files' = Tail(files)
    BY DEF TypesInv, HandleFile
  <1>2. Head(files) \in Keys /\ files' \in Seq(Keys)
    BY <1>1
  <1> QED BY <1>2 DEF HandleFile, FileStep

\* What is booked and what is recorded.
LEMMA FileStepTakes ==
  ASSUME TypesInv, NEW k \in Keys, NEW due, NEW made \in Made(due), FileStep(k, due, made),
         NEW f, f = [key |-> k, at |-> clock]
  PROVE  /\ due \subseteq FileJobs /\ made \subseteq due /\ Booked(due, made) \subseteq due
         /\ made \subseteq Booked(due, made) /\ made \in SUBSET Jobs
         /\ fires' \in [Jobs -> Seq(Fire)] /\ Recorded(made, f)
         /\ faults' \in Nat /\ (made # due => faults' # faults)
         /\ failed' \in [FileJobs -> SUBSET Change]
         /\ \A j \in FileJobs : failed[j] \subseteq failed'[j]
         /\ \A j \in Booked(due, made) \ made : \E c \in failed'[j] : c.key = k /\ c.at = clock
         /\ lastEmit' \in [FileJobs -> [Keys -> Nat]]
         /\ \A j \in FileJobs, x \in Keys : lastEmit'[j][x] =
               IF j \in Booked(due, made) /\ x = k THEN clock + Uptime ELSE lastEmit[j][x]
  <1>1. due \subseteq FileJobs
    BY DEF FileStep
  <1>2. /\ made \subseteq due /\ Booked(due, made) \subseteq due /\ made \subseteq Booked(due, made)
        /\ made = due => Booked(due, made) = due
    BY MadeType
  <1>3. made \in SUBSET Jobs
    BY <1>1, <1>2, Kinds
  <1>4. clock \in 0 .. MaxTime /\ faults \in Nat
    BY DEF TypesInv
  <1>5. fires' \in [Jobs -> Seq(Fire)] /\ Recorded(made, f)
    <2>1. Record(made, k, clock) /\ k \in Keys \cup {Plain}
      BY DEF FileStep
    <2> QED BY <1>3, <1>4, <2>1, RecordDoes
  <1>6. faults' \in Nat /\ (made # due => faults' # faults)
    <2>1. Raises(due, made)
      BY DEF FileStep
    <2> QED BY <1>4, <2>1, RaisesDoes
  <1>7. clock + Uptime \in Nat
    BY <1>4, BoundsType
  <1>8. /\ lastEmit' \in [FileJobs -> [Keys -> Nat]]
        /\ \A j \in FileJobs, x \in Keys : lastEmit'[j][x] =
               IF j \in Booked(due, made) /\ x = k THEN clock + Uptime ELSE lastEmit[j][x]
    <2>1. lastEmit' = [j \in FileJobs |->
             IF j \in Booked(due, made) THEN [lastEmit[j] EXCEPT ![k] = clock + Uptime]
             ELSE lastEmit[j]]
      BY DEF FileStep, Monotonic
    <2>2. lastEmit \in [FileJobs -> [Keys -> Nat]]
      BY DEF TypesInv
    <2> QED BY <1>7, <2>1, <2>2
  <1>9. /\ failed' \in [FileJobs -> SUBSET Change]
        /\ \A j \in FileJobs : failed[j] \subseteq failed'[j]
        /\ \A j \in Booked(due, made) \ made : \E c \in failed'[j] : c.key = k /\ c.at = clock
    <2> DEFINE c == [key |-> k, at |-> clock]
    <2>1. failed' = [j \in FileJobs |->
             IF j \in Booked(due, made) \ made THEN failed[j] \cup {c} ELSE failed[j]]
      BY DEF FileStep
    <2>2. failed \in [FileJobs -> SUBSET Change] /\ c \in Change
      BY <1>4 DEF TypesInv, Change
    <2>3. c.key = k /\ c.at = clock
      OBVIOUS
    <2> HIDE DEF c
    <2>4. \A j \in Booked(due, made) \ made : c \in failed'[j]
      BY <1>1, <1>2, <2>1
    <2>5. /\ failed' \in [FileJobs -> SUBSET Change]
          /\ \A j \in FileJobs : failed[j] \subseteq failed'[j]
      BY <2>1, <2>2
    <2> QED BY <2>3, <2>4, <2>5
  <1> QED BY <1>1, <1>2, <1>3, <1>5, <1>6, <1>8, <1>9

LEMMA HandleFileKeeps ==
  ASSUME SchedulerInv, HandleFile
  PROVE  SchedulerInv'
  <1>1. TypesInv /\ FileInv
    BY DEF SchedulerInv
  <1>2. /\ Head(files) \in Keys /\ files' \in Seq(Keys)
        /\ UNCHANGED <<clock, mode, wake, intervalNext, cronKey, since, starts, changes, hooks>>
    BY <1>1, FileStepDoes
  <1>3. PICK due : \E made \in Made(due) : FileStep(Head(files), due, made)
    BY <1>1, FileStepDoes
  <1>4. PICK made \in Made(due) : FileStep(Head(files), due, made)
    BY <1>3
  <1> DEFINE k == Head(files)
             f == [key |-> k, at |-> clock]
             booked == Booked(due, made)
  <1>5. /\ due \subseteq FileJobs /\ made \subseteq due /\ booked \subseteq due
        /\ made \subseteq booked /\ made \in SUBSET Jobs
        /\ fires' \in [Jobs -> Seq(Fire)] /\ Recorded(made, f)
        /\ faults' \in Nat /\ failed' \in [FileJobs -> SUBSET Change]
        /\ \A j \in FileJobs : failed[j] \subseteq failed'[j]
        /\ \A j \in booked \ made : \E c \in failed'[j] : c.key = k /\ c.at = clock
        /\ lastEmit' \in [FileJobs -> [Keys -> Nat]]
        /\ \A j \in FileJobs, x \in Keys : lastEmit'[j][x] =
              IF j \in booked /\ x = k THEN clock + Uptime ELSE lastEmit[j][x]
    <2>1. k \in Keys
      BY <1>2
    <2>2. FileStep(k, due, made)
      BY <1>4
    <2> HIDE DEF k
    <2> QED BY <1>1, <1>4, <2>1, <2>2, FileStepTakes
  <1>6. f.key = k /\ f.at = clock /\ k \in Keys
    BY <1>2
  <1> HIDE DEF k, f, booked
  <1>7. TypesInv'
    BY <1>1, <1>2, <1>5 DEF TypesInv
  <1>8. \A j \in CronJobs : fires'[j] = fires[j]
    BY <1>5, Kinds DEF Recorded
  <1>9. CronInv' /\ LoopInv'
    BY <1>2, <1>8, CronKept, LoopKept
  <1>10. FileInv'
    <2> SUFFICES ASSUME NEW j \in FileJobs, NEW x \in Keys
                 PROVE  /\ lastEmit'[j][x] <= clock + Uptime
                        /\ \A i \in 1 .. Len(fires'[j]) :
                              fires'[j][i].key = x => fires'[j][i].at + Uptime <= lastEmit'[j][x]
                        /\ lastEmit'[j][x] # 0 =>
                              \/ \E i \in 1 .. Len(fires'[j]) :
                                    /\ fires'[j][i].key = x
                                    /\ fires'[j][i].at + Uptime = lastEmit'[j][x]
                              \/ \E c \in failed'[j] : c.key = x /\ c.at + Uptime = lastEmit'[j][x]
      BY <1>2 DEF FileInv
    <2>0. j \in Jobs
      BY Kinds
    <2>1. /\ lastEmit[j][x] \in Nat /\ lastEmit[j][x] <= clock + Uptime
          /\ clock + Uptime \in Nat /\ Len(fires[j]) \in Nat
          /\ \A i \in 1 .. Len(fires[j]) :
                fires[j][i].at \in Nat /\ (fires[j][i].key = x => fires[j][i].at + Uptime <= lastEmit[j][x])
          /\ lastEmit[j][x] # 0 =>
                \/ \E i \in 1 .. Len(fires[j]) :
                      fires[j][i].key = x /\ fires[j][i].at + Uptime = lastEmit[j][x]
                \/ \E c \in failed[j] : c.key = x /\ c.at + Uptime = lastEmit[j][x]
      <3>1. lastEmit[j][x] \in Nat /\ clock + Uptime \in Nat
        BY <1>1, ClockType, BoundsType DEF TypesInv
      <3>2. Len(fires[j]) \in Nat /\ \A i \in 1 .. Len(fires[j]) : fires[j][i].at \in Nat
        BY <1>1, <2>0, FiresType, FireFields
      <3> QED BY <1>1, <3>1, <3>2 DEF FileInv
    <2>2. lastEmit'[j][x] = IF j \in booked /\ x = k THEN clock + Uptime ELSE lastEmit[j][x]
      BY <1>5
    <2>3. CASE j \notin made
      <3>1. fires'[j] = fires[j]
        BY <1>5, <2>0, <2>3 DEF Recorded
      <3>2. \/ lastEmit'[j][x] = lastEmit[j][x]
            \/ \E c \in failed'[j] : c.key = x /\ c.at + Uptime = lastEmit'[j][x]
        <4>1. CASE j \in booked /\ x = k
          <5>1. \E c \in failed'[j] : c.key = k /\ c.at = clock
            BY <1>5, <2>3, <4>1
          <5>2. lastEmit'[j][x] = clock + Uptime
            BY <2>2, <4>1
          <5> QED BY <4>1, <5>1, <5>2
        <4> QED BY <2>2, <4>1
      <3>3. lastEmit[j][x] <= lastEmit'[j][x] /\ lastEmit'[j][x] \in Nat
            /\ lastEmit'[j][x] <= clock + Uptime
        BY <2>1, <2>2
      <3>4. \A i \in 1 .. Len(fires[j]) : fires[j][i].key = x => fires[j][i].at + Uptime <= lastEmit'[j][x]
        BY SMTT(60), <2>1, <3>3, BoundsType
      <3>5. failed[j] \subseteq failed'[j]
        BY <1>5
      <3> QED BY <2>1, <3>1, <3>2, <3>3, <3>4, <3>5
    <2>4. CASE j \in made
      <3>1. /\ Len(fires'[j]) = Len(fires[j]) + 1 /\ fires'[j][Len(fires[j]) + 1] = f
            /\ \A i \in 1 .. Len(fires[j]) : fires'[j][i] = fires[j][i]
        BY <1>5, <2>4 DEF Recorded
      <3>2. CASE x = k
        <4>1. lastEmit'[j][x] = clock + Uptime
          BY <1>5, <2>2, <2>4, <3>2
        <4>2. Len(fires[j]) + 1 \in 1 .. Len(fires'[j])
          BY <2>1, <3>1
        <4>3. ASSUME NEW i \in 1 .. Len(fires'[j]), fires'[j][i].key = x
              PROVE  fires'[j][i].at + Uptime <= clock + Uptime
          <5>1. CASE i = Len(fires[j]) + 1
            BY <1>6, <2>1, <3>1, <5>1
          <5>2. CASE i # Len(fires[j]) + 1
            <6>1. i \in 1 .. Len(fires[j])
              BY <2>1, <3>1, <5>2
            <6>2. fires[j][i].key = x /\ fires'[j][i] = fires[j][i]
              BY <3>1, <4>3, <6>1
            <6>3. fires[j][i].at + Uptime <= lastEmit[j][x]
              BY <2>1, <6>1, <6>2
            <6> QED BY <2>1, <6>1, <6>2, <6>3, BoundsType
          <5> QED BY <5>1, <5>2
        <4> QED BY <1>6, <2>1, <3>1, <3>2, <4>1, <4>2, <4>3
      <3>3. CASE x # k
        <4>1. lastEmit'[j][x] = lastEmit[j][x]
          BY <1>5, <2>2, <3>3
        <4>2. ASSUME NEW i \in 1 .. Len(fires'[j]), fires'[j][i].key = x
              PROVE  fires'[j][i].at + Uptime <= lastEmit[j][x]
          <5>1. i # Len(fires[j]) + 1
            BY <1>6, <3>1, <3>3, <4>2
          <5>2. i \in 1 .. Len(fires[j])
            BY <2>1, <3>1, <5>1
          <5> QED BY <2>1, <3>1, <4>2, <5>2
        <4>3. \A i \in 1 .. Len(fires[j]) : i \in 1 .. Len(fires'[j]) /\ fires'[j][i] = fires[j][i]
          BY <2>1, <3>1
        <4>4. failed[j] \subseteq failed'[j]
          BY <1>5
        <4> QED BY <2>1, <4>1, <4>2, <4>3, <4>4
      <3> QED BY <3>2, <3>3
    <2> QED BY <2>3, <2>4
  <1> QED BY <1>7, <1>9, <1>10 DEF SchedulerInv

\* What a pass of the schedule loop does.
PassStep(due, made) ==
    /\ due = {j \in CronJobs \cup IntervalJobs : Due(j)} /\ made \in Made(due)
    /\ Raises(due, made)
    /\ wake' = IF made = due THEN clock + Poll ELSE Dead
    /\ intervalNext' = [j \in IntervalJobs |->
          IF j \in Booked(due, made) THEN clock + Seconds[j] ELSE intervalNext[j]]
    /\ cronKey' = [j \in CronJobs |->
          IF j \in Booked(due, made) THEN MinuteOf(clock) ELSE cronKey[j]]
    /\ Record(made, Plain, MinuteOf(clock))

LEMMA PassDoes ==
  ASSUME Pass
  PROVE  /\ \E due : \E made \in Made(due) : PassStep(due, made)
         /\ Scheduling /\ clock >= wake
         /\ UNCHANGED <<clock, mode, lastEmit, files, failed, since, starts, changes, hooks>>
  BY DEF Pass, PassStep, Scheduling

LEMMA PassTakes ==
  ASSUME TypesInv, NEW due, NEW made \in Made(due), PassStep(due, made),
         NEW f, f = [key |-> Plain, at |-> MinuteOf(clock)]
  PROVE  /\ due \subseteq CronJobs \cup IntervalJobs /\ made \subseteq due
         /\ Booked(due, made) \subseteq due /\ made \subseteq Booked(due, made)
         /\ fires' \in [Jobs -> Seq(Fire)] /\ Recorded(made, f)
         /\ faults' \in Nat /\ faults <= faults'
         /\ \/ wake' = Dead
            \/ wake' = clock + Poll /\ made = due /\ Booked(due, made) = due
         /\ intervalNext' \in [IntervalJobs -> Nat \cup {Never}]
         /\ cronKey' \in [CronJobs -> Nat \cup {Never}]
         /\ \A j \in CronJobs :
               cronKey'[j] = IF j \in Booked(due, made) THEN MinuteOf(clock) ELSE cronKey[j]
  <1>1. due \subseteq CronJobs \cup IntervalJobs
    BY DEF PassStep
  <1>2. /\ made \subseteq due /\ Booked(due, made) \subseteq due /\ made \subseteq Booked(due, made)
        /\ made = due => Booked(due, made) = due
    BY MadeType
  <1>3. made \in SUBSET Jobs
    BY <1>1, <1>2, Kinds
  <1>4. clock \in Nat /\ faults \in Nat /\ MinuteOf(clock) \in 0 .. MaxTime
    BY ClockType DEF TypesInv
  <1>5. fires' \in [Jobs -> Seq(Fire)] /\ Recorded(made, f)
    <2>1. Record(made, Plain, MinuteOf(clock)) /\ Plain \in Keys \cup {Plain}
      BY DEF PassStep
    <2> QED BY <1>3, <1>4, <2>1, RecordDoes
  <1>6. faults' \in Nat /\ faults <= faults'
    <2>1. Raises(due, made)
      BY DEF PassStep
    <2> QED BY <1>4, <2>1, RaisesDoes
  <1>7. \/ wake' = Dead
        \/ wake' = clock + Poll /\ made = due /\ Booked(due, made) = due
    BY <1>2 DEF PassStep
  <1>8. intervalNext' \in [IntervalJobs -> Nat \cup {Never}]
    <2>1. intervalNext' = [j \in IntervalJobs |->
             IF j \in Booked(due, made) THEN clock + Seconds[j] ELSE intervalNext[j]]
      BY DEF PassStep
    <2>2. \A j \in IntervalJobs : clock + Seconds[j] \in Nat
      BY <1>4, SchedulerAssumption
    <2> QED BY <2>1, <2>2 DEF TypesInv
  <1>9. /\ cronKey' \in [CronJobs -> Nat \cup {Never}]
        /\ \A j \in CronJobs :
              cronKey'[j] = IF j \in Booked(due, made) THEN MinuteOf(clock) ELSE cronKey[j]
    <2>1. cronKey' = [j \in CronJobs |->
             IF j \in Booked(due, made) THEN MinuteOf(clock) ELSE cronKey[j]]
      BY DEF PassStep
    <2>2. MinuteOf(clock) \in Nat
      BY <1>4
    <2> QED BY <2>1, <2>2 DEF TypesInv
  <1> QED BY <1>1, <1>2, <1>5, <1>6, <1>7, <1>8, <1>9

LEMMA PassKeeps ==
  ASSUME SchedulerInv, Pass
  PROVE  SchedulerInv'
  <1>1. TypesInv /\ CronInv /\ LoopInv /\ FileInv
    BY DEF SchedulerInv
  <1>2. /\ Scheduling /\ clock >= wake
        /\ UNCHANGED <<clock, mode, lastEmit, files, failed, since, starts, changes, hooks>>
    BY PassDoes
  <1>3. PICK due : \E made \in Made(due) : PassStep(due, made)
    BY PassDoes
  <1>4. PICK made \in Made(due) : PassStep(due, made)
    BY <1>3
  <1> DEFINE now == MinuteOf(clock)
             f == [key |-> Plain, at |-> now]
             booked == Booked(due, made)
  <1>5. /\ due \subseteq CronJobs \cup IntervalJobs /\ made \subseteq due /\ booked \subseteq due
        /\ made \subseteq booked
        /\ fires' \in [Jobs -> Seq(Fire)] /\ Recorded(made, f)
        /\ faults' \in Nat /\ faults <= faults'
        /\ \/ wake' = Dead
           \/ wake' = clock + Poll /\ made = due /\ booked = due
        /\ intervalNext' \in [IntervalJobs -> Nat \cup {Never}]
        /\ cronKey' \in [CronJobs -> Nat \cup {Never}]
        /\ \A j \in CronJobs : cronKey'[j] = IF j \in booked THEN now ELSE cronKey[j]
    BY <1>1, <1>4, PassTakes
  <1>6. f.at = now /\ now \in Nat /\ clock \in Nat /\ wake \in Nat /\ since \in Nat
    BY <1>1, <1>2, ClockType DEF TypesInv, Scheduling
  <1>7. \A j \in CronJobs : j \in due <=> (cronKey[j] # now /\ Matches(j, now))
    BY <1>4, Kinds DEF PassStep, Due
  <1> HIDE DEF f, booked, now
  <1>8. TypesInv'
    <2>1. wake' \in Nat \cup {Dead}
      BY <1>5, <1>6, BoundsType
    <2> QED BY <1>1, <1>2, <1>5, <2>1 DEF TypesInv
  <1>9. FileInv'
    <2>1. \A j \in FileJobs : fires'[j] = fires[j]
      BY <1>5, Kinds DEF Recorded
    <2> QED BY <1>2, <2>1, FileKept
  \* What the pass does of one cron job.
  <1>10. ASSUME NEW j \in CronJobs
         PROVE  /\ Len(fires[j]) \in Nat /\ cronKey[j] \in Nat \cup {Never}
                /\ \A i \in 1 .. Len(fires[j]) :
                      /\ i \in 1 .. Len(fires'[j]) /\ fires'[j][i] = fires[j][i]
                      /\ fires[j][i].at \in Nat
                /\ j \notin made => fires'[j] = fires[j]
                /\ j \in made =>
                      /\ Len(fires'[j]) = Len(fires[j]) + 1
                      /\ fires'[j][Len(fires[j]) + 1] = f
                      /\ cronKey'[j] = now /\ cronKey[j] # now /\ Matches(j, now)
    <2>1. Len(fires[j]) \in Nat /\ cronKey[j] \in Nat \cup {Never}
      BY <1>1, Kinds, FiresType DEF TypesInv
    <2>2. j \notin made => fires'[j] = fires[j]
      BY <1>5, Kinds DEF Recorded
    <2>3. j \in made =>
             /\ Len(fires'[j]) = Len(fires[j]) + 1
             /\ fires'[j][Len(fires[j]) + 1] = f
             /\ \A i \in 1 .. Len(fires[j]) : fires'[j][i] = fires[j][i]
      BY <1>5 DEF Recorded
    <2>4. j \in made => cronKey'[j] = now /\ cronKey[j] # now /\ Matches(j, now)
      BY <1>5, <1>7
    <2>5. \A i \in 1 .. Len(fires[j]) : fires[j][i].at \in Nat
      BY <1>1, Kinds, FiresType, FireFields
    <2> QED BY <2>1, <2>2, <2>3, <2>4, <2>5
  <1>11. CronInv'
    <2> SUFFICES ASSUME NEW j \in CronJobs
                 PROVE  /\ cronKey'[j] <= now
                        /\ \A i \in 1 .. Len(fires'[j]) :
                              fires'[j][i].at <= cronKey'[j] /\ Matches(j, fires'[j][i].at)
                        /\ \A i, h \in 1 .. Len(fires'[j]) :
                              fires'[j][i].at = fires'[j][h].at => i = h
      BY <1>2 DEF CronInv, Matches, now
    <2>1. /\ cronKey[j] <= now
          /\ \A i \in 1 .. Len(fires[j]) :
                fires[j][i].at <= cronKey[j] /\ Matches(j, fires[j][i].at)
          /\ \A i, h \in 1 .. Len(fires[j]) : fires[j][i].at = fires[j][h].at => i = h
      BY <1>1 DEF CronInv, now
    <2>2. cronKey[j] <= cronKey'[j] /\ cronKey'[j] <= now
      BY <1>5, <1>6, <1>10, <2>1 DEF Never
    <2>3. CASE j \notin made
      <3>1. cronKey'[j] \in Nat \cup {Never}
        BY <1>5
      <3>2. \A i \in 1 .. Len(fires[j]) : fires[j][i].at <= cronKey'[j]
        BY <1>10, <2>1, <2>2, <3>1 DEF Never
      <3> QED BY <1>10, <2>1, <2>2, <2>3, <3>2
    <2>4. CASE j \in made
      <3>1. cronKey[j] < now
        BY <1>6, <1>10, <2>1, <2>4 DEF Never
      <3>2. \A i \in 1 .. Len(fires[j]) :
               /\ fires'[j][i] = fires[j][i] /\ fires[j][i].at < now
               /\ Matches(j, fires[j][i].at)
        BY <1>6, <1>10, <2>1, <3>1 DEF Never
      <3>3. \A i \in 1 .. Len(fires'[j]) : i \in 1 .. Len(fires[j]) \/ i = Len(fires[j]) + 1
        BY <1>10, <2>4
      <3>4. /\ fires'[j][Len(fires[j]) + 1].at = now /\ cronKey'[j] = now /\ Matches(j, now)
        BY <1>6, <1>10, <2>4
      <3>5. ASSUME NEW i \in 1 .. Len(fires'[j])
            PROVE  fires'[j][i].at <= now /\ Matches(j, fires'[j][i].at)
        <4>1. CASE i \in 1 .. Len(fires[j])
          BY <1>6, <1>10, <3>2, <4>1
        <4>2. CASE i = Len(fires[j]) + 1
          BY <1>6, <3>4, <4>2
        <4> QED BY <3>3, <4>1, <4>2
      <3>6. ASSUME NEW i \in 1 .. Len(fires'[j]), NEW h \in 1 .. Len(fires'[j]),
                   fires'[j][i].at = fires'[j][h].at
            PROVE  i = h
        <4>1. CASE i \in 1 .. Len(fires[j]) /\ h \in 1 .. Len(fires[j])
          BY <2>1, <3>2, <3>6, <4>1
        <4>2. CASE i = Len(fires[j]) + 1 /\ h \in 1 .. Len(fires[j])
          BY SMTT(60), <1>6, <1>10, <3>2, <3>4, <3>6, <4>2
        <4>3. CASE i \in 1 .. Len(fires[j]) /\ h = Len(fires[j]) + 1
          BY SMTT(60), <1>6, <1>10, <3>2, <3>4, <3>6, <4>3
        <4> QED BY <3>3, <4>1, <4>2, <4>3
      <3> QED BY <2>2, <3>4, <3>5, <3>6
    <2> QED BY <2>3, <2>4
  <1>12. LoopInv'
    <2> SUFFICES ASSUME wake' # Dead
                 PROVE  /\ since <= clock /\ clock <= wake' + MaxLate
                        /\ \A j \in CronJobs : cronKey'[j] # Never =>
                              \E i \in 1 .. Len(fires'[j]) : fires'[j][i].at = cronKey'[j]
                        /\ since <= wake' - Poll /\ wake' - Poll <= clock
                        /\ \A j \in CronJobs : \A m \in MinuteOf(since) + 1 .. MinuteOf(wake' - Poll) :
                              Matches(j, m) => \E i \in 1 .. Len(fires'[j]) : fires'[j][i].at = m
      BY <1>2 DEF LoopInv, Scheduling, Fired, Matches
    <2>1. wake' = clock + Poll /\ made = due /\ booked = due
      BY <1>5
    <2>2. /\ since <= clock /\ clock <= wake + MaxLate
          /\ \A j \in CronJobs : cronKey[j] # Never => Fired(j, cronKey[j])
          /\ \/ wake = since
             \/ /\ since <= wake - Poll /\ wake - Poll <= clock
                /\ \A j \in CronJobs : \A m \in MinuteOf(since) + 1 .. MinuteOf(wake - Poll) :
                      Matches(j, m) => Fired(j, m)
      BY <1>1, <1>2 DEF LoopInv
    <2>3. clock <= wake' + MaxLate /\ wake' - Poll = clock
      BY <1>6, <2>1, BoundsType
    <2>4. ASSUME NEW j \in CronJobs, NEW m, Fired(j, m)
          PROVE  \E i \in 1 .. Len(fires'[j]) : fires'[j][i].at = m
      BY <1>10, <2>4 DEF Fired
    <2>5. ASSUME NEW j \in CronJobs, j \in made
          PROVE  \E i \in 1 .. Len(fires'[j]) : fires'[j][i].at = now
      BY <1>6, <1>10, <2>5
    <2>6. ASSUME NEW j \in CronJobs, cronKey'[j] # Never
          PROVE  \E i \in 1 .. Len(fires'[j]) : fires'[j][i].at = cronKey'[j]
      <3>1. CASE j \in made
        BY <1>10, <2>5, <3>1
      <3>2. CASE j \notin made
        BY <1>5, <2>1, <2>2, <2>4, <2>6, <3>2
      <3> QED BY <3>1, <3>2
    <2>7. ASSUME NEW j \in CronJobs, NEW m \in MinuteOf(since) + 1 .. now, Matches(j, m)
          PROVE  \E i \in 1 .. Len(fires'[j]) : fires'[j][i].at = m
      <3>1. MinuteOf(since) \in Nat /\ m \in Nat /\ m <= now /\ MinuteOf(since) < m
        BY <1>6, MinuteType
      <3>2. CASE m = now
        <4>1. CASE j \in made
          BY <2>5, <3>2, <4>1
        <4>2. CASE j \notin made
          <5>1. cronKey[j] = now /\ now # Never
            BY <1>6, <1>7, <2>1, <2>7, <3>2, <4>2 DEF Never
          <5> QED BY <2>2, <2>4, <3>2, <5>1
        <4> QED BY <4>1, <4>2
      <3>3. CASE m # now
        \* The pass before this one was no more than a minute ago.
        <4>1. CASE wake = since
          <5>1. clock <= since + MinuteLen
            BY <1>6, <2>2, <4>1, BoundsType, KeepsUp
          <5>2. now <= MinuteOf(since) + 1
            BY <1>6, <5>1, NextMinute DEF now
          <5> QED BY <1>6, <3>1, <3>3, <5>2
        <4>2. CASE /\ since <= wake - Poll /\ wake - Poll <= clock
                   /\ \A l \in CronJobs : \A n \in MinuteOf(since) + 1 .. MinuteOf(wake - Poll) :
                         Matches(l, n) => Fired(l, n)
          <5>1. wake - Poll \in Nat /\ clock <= (wake - Poll) + MinuteLen
            BY <1>6, <2>2, <4>2, BoundsType, KeepsUp
          <5>2. now <= MinuteOf(wake - Poll) + 1 /\ MinuteOf(wake - Poll) \in Nat
            BY <1>6, <5>1, NextMinute, MinuteType DEF now
          <5>3. m \in MinuteOf(since) + 1 .. MinuteOf(wake - Poll)
            BY <1>6, <3>1, <3>3, <5>2
          <5> QED BY <2>4, <2>7, <4>2, <5>3
        <4> QED BY <2>2, <4>1, <4>2
      <3> QED BY <3>2, <3>3
    <2>8. MinuteOf(wake' - Poll) = now
      BY <2>3 DEF now
    <2>9. \A j \in CronJobs : \A m \in MinuteOf(since) + 1 .. MinuteOf(wake' - Poll) :
             Matches(j, m) => \E i \in 1 .. Len(fires'[j]) : fires'[j][i].at = m
      BY <2>7, <2>8
    <2>10. since <= wake' - Poll /\ wake' - Poll <= clock
      BY <1>6, <2>2, <2>3
    <2> QED BY <2>2, <2>3, <2>6, <2>9, <2>10
  <1> QED BY <1>8, <1>9, <1>11, <1>12 DEF SchedulerInv

LEMMA InvStep == SchedulerInv /\ [Next]_vars => SchedulerInv'
  <1> SUFFICES ASSUME SchedulerInv, [Next]_vars PROVE SchedulerInv'
    OBVIOUS
  <1>1. CASE UNCHANGED vars
    BY <1>1, StutterKeeps
  <1>2. CASE Tick \/ Stop \/ Pass \/ HandleFile
    BY <1>2, TickKeeps, StopKeeps, PassKeeps, HandleFileKeeps
  <1>3. CASE Start
    <2>1. starts' \in Nat
      BY <1>3 DEF Start, SchedulerInv, TypesInv
    <2> QED BY <1>3, <2>1, ForgetKeeps DEF Start
  <1>4. CASE Exit
    <2>1. starts' \in Nat
      BY <1>4 DEF Exit, SchedulerInv, TypesInv
    <2> QED BY <1>4, <2>1, ForgetKeeps DEF Exit
  <1>5. ASSUME NEW k \in Keys, FileChange(k) PROVE SchedulerInv'
    BY <1>5, FileChangeKeeps
  <1>6. ASSUME NEW token \in Tokens \cup {NoToken}, Webhook(token) PROVE SchedulerInv'
    BY <1>6, WebhookKeeps
  <1> QED BY <1>1, <1>2, <1>3, <1>4, <1>5, <1>6 DEF Next

-----------------------------------------------------------------------------
(* What a step may do to the events of a file job.                         *)

Emits(j, k) ==
    /\ Emitted(j, k)' \ Emitted(j, k) # {} =>
         \A t \in Emitted(j, k) : clock - t >= Debounce[j]
    /\ HandleFile /\ Head(files) = k =>
         \/ clock \in Emitted(j, k)'
         \/ faults' # faults
         \/ clock + Uptime < Debounce[j]
         \/ \E t \in Emitted(j, k) \cup Failed(j, k) : clock - t < Debounce[j]

LEMMA EmittedIs ==
  ASSUME NEW j, NEW k
  PROVE  /\ \A t : t \in Emitted(j, k) <=>
               \E i \in 1 .. Len(fires[j]) : fires[j][i].key = k /\ fires[j][i].at = t
         /\ \A t : t \in Emitted(j, k)' <=>
               \E i \in 1 .. Len(fires'[j]) : fires'[j][i].key = k /\ fires'[j][i].at = t
  BY DEF Emitted

\* Any step but the task of a file change makes no event of a file job.
LEMMA OthersEmitNothing ==
  ASSUME SchedulerInv, Next, ~HandleFile, NEW j \in FileJobs
  PROVE  fires'[j] = fires[j] \/ fires'[j] = <<>>
  <1>1. TypesInv /\ j \in Jobs /\ j \notin CronJobs \cup IntervalJobs \cup HookJobs
    BY Kinds DEF SchedulerInv
  <1>2. CASE Tick \/ Stop \/ \E k \in Keys : FileChange(k)
    BY <1>2 DEF Tick, Stop, FileChange, memory
  <1>3. CASE Start \/ Exit
    BY <1>1, <1>3 DEF Start, Exit, Forget
  <1>4. CASE Pass
    <2>1. PICK due : \E made \in Made(due) : PassStep(due, made)
      BY <1>4, PassDoes
    <2>2. PICK made \in Made(due) : PassStep(due, made)
      BY <2>1
    <2>3. j \notin made
      BY <1>1, <2>2, MadeType DEF PassStep
    <2>4. Record(made, Plain, MinuteOf(clock))
      BY <2>2 DEF PassStep
    <2> QED BY <1>1, <2>3, <2>4 DEF Record
  <1>5. ASSUME NEW token \in Tokens \cup {NoToken}, Webhook(token)
        PROVE  fires'[j] = fires[j]
    <2> DEFINE due == {l \in HookJobs : Token[l] \in {NoToken, token}}
    <2>1. PICK made \in Made(due) : Record(made, Plain, clock)
      BY <1>5 DEF Webhook
    <2>2. j \notin made
      BY <1>1, <2>1, MadeType
    <2> QED BY <1>1, <2>1, <2>2 DEF Record
  <1> QED BY <1>2, <1>3, <1>4, <1>5 DEF Next

LEMMA FilesServed ==
  ASSUME SchedulerInv, Next, NEW j \in FileJobs, NEW k \in Watches[j]
  PROVE  Emits(j, k)
  <1>1. TypesInv /\ FileInv /\ j \in Jobs /\ k \in Keys /\ Debounce[j] \in Nat
    BY Kinds, SchedulerAssumption DEF SchedulerInv
  <1>2. CASE ~HandleFile
    <2>1. fires'[j] = fires[j] \/ fires'[j] = <<>>
      BY <1>2, OthersEmitNothing
    <2>2. Len(fires'[j]) = 0 \/ fires'[j] = fires[j]
      BY <2>1
    <2>3. \A t : t \in Emitted(j, k)' => t \in Emitted(j, k)
      BY <2>2, EmittedIs
    <2> QED BY <1>2, <2>3 DEF Emits
  <1>3. CASE HandleFile
    <2>1. Head(files) \in Keys /\ clock' = clock
      BY <1>1, <1>3, FileStepDoes
    <2>2. PICK due : \E made \in Made(due) : FileStep(Head(files), due, made)
      BY <1>1, <1>3, FileStepDoes
    <2>3. PICK made \in Made(due) : FileStep(Head(files), due, made)
      BY <2>2
    <2> DEFINE x == Head(files)
               f == [key |-> x, at |-> clock]
    <2>4. /\ made \subseteq due /\ Recorded(made, f)
          /\ made # due => faults' # faults
      BY <1>1, <2>1, <2>3, FileStepTakes
    <2>5. f.key = x /\ f.at = clock
      OBVIOUS
    <2>6. j \in due <=> x \in Watches[j] /\ ~Debounced(j, x)
      BY <2>3 DEF FileStep
    <2> HIDE DEF f, x
    <2>7. /\ lastEmit[j][k] \in Nat /\ lastEmit[j][k] <= clock + Uptime
          /\ clock \in Nat /\ Uptime \in Nat /\ Len(fires[j]) \in Nat
          /\ \A t \in Emitted(j, k) : t \in Nat /\ t + Uptime <= lastEmit[j][k]
          /\ lastEmit[j][k] # 0 => lastEmit[j][k] - Uptime \in Emitted(j, k) \cup Failed(j, k)
      <3>1. lastEmit[j][k] \in Nat /\ lastEmit[j][k] <= clock + Uptime
        BY <1>1 DEF FileInv, TypesInv
      <3>2. clock \in Nat /\ Uptime \in Nat /\ Len(fires[j]) \in Nat
        BY <1>1, ClockType, BoundsType, FiresType
      <3>3. \A i \in 1 .. Len(fires[j]) :
               fires[j][i].at \in Nat /\ (fires[j][i].key = k => fires[j][i].at + Uptime <= lastEmit[j][k])
        BY <1>1, FiresType, FireFields DEF FileInv
      <3>4. lastEmit[j][k] # 0 =>
               \/ \E i \in 1 .. Len(fires[j]) :
                     fires[j][i].key = k /\ fires[j][i].at + Uptime = lastEmit[j][k]
               \/ \E c \in failed[j] : c.key = k /\ c.at + Uptime = lastEmit[j][k]
        BY <1>1 DEF FileInv
      <3>5. \A t \in Emitted(j, k) : t \in Nat /\ t + Uptime <= lastEmit[j][k]
        BY <3>3, EmittedIs
      <3>6. ASSUME lastEmit[j][k] # 0
            PROVE  lastEmit[j][k] - Uptime \in Emitted(j, k) \cup Failed(j, k)
        <4>1. CASE \E i \in 1 .. Len(fires[j]) :
                      fires[j][i].key = k /\ fires[j][i].at + Uptime = lastEmit[j][k]
          <5>1. PICK i \in 1 .. Len(fires[j]) :
                   fires[j][i].key = k /\ fires[j][i].at + Uptime = lastEmit[j][k]
            BY <4>1
          <5>2. fires[j][i].at = lastEmit[j][k] - Uptime
            BY <3>2, <3>3, <5>1
          <5> QED BY <5>1, <5>2, EmittedIs
        <4>2. CASE \E c \in failed[j] : c.key = k /\ c.at + Uptime = lastEmit[j][k]
          <5>1. PICK c \in failed[j] : c.key = k /\ c.at + Uptime = lastEmit[j][k]
            BY <4>2
          <5>2. c.at \in Nat
            BY <1>1, <5>1, BoundsType DEF TypesInv, Change
          <5>3. c.at = lastEmit[j][k] - Uptime
            BY <3>2, <5>1, <5>2
          <5> QED BY <5>1, <5>3 DEF Failed
        <4> QED BY <3>4, <3>6, <4>1, <4>2
      <3> QED BY <3>1, <3>2, <3>5, <3>6
    <2>8. ASSUME Emitted(j, k)' \ Emitted(j, k) # {}, NEW t \in Emitted(j, k)
          PROVE  clock - t >= Debounce[j]
      <3>1. j \in made /\ x = k
        <4>1. PICK i \in 1 .. Len(fires'[j]) :
                 fires'[j][i].key = k /\ fires'[j][i].at \notin Emitted(j, k)
          BY <2>8, EmittedIs
        <4>2. ~(i \in 1 .. Len(fires[j]) /\ fires'[j][i] = fires[j][i])
          BY <4>1, EmittedIs
        <4>3. j \in made
          BY <1>1, <2>4, <4>2 DEF Recorded
        <4>4. i = Len(fires[j]) + 1 /\ fires'[j][i] = f
          BY <2>4, <2>7, <4>2, <4>3 DEF Recorded
        <4> QED BY <2>5, <4>1, <4>3, <4>4
      <3>2. ~Debounced(j, k)
        BY <2>4, <2>6, <3>1
      <3>3. t \in Nat /\ t + Uptime <= lastEmit[j][k]
        BY <2>7, <2>8
      <3>4. Debounce[j] = 0 \/ clock + Uptime - lastEmit[j][k] >= Debounce[j]
        BY SMTT(60), <1>1, <2>7, <3>2 DEF Debounced, Monotonic
      <3> QED BY <1>1, <2>7, <3>3, <3>4
    <2>9. ASSUME x = k, faults' = faults
          PROVE  \/ clock \in Emitted(j, k)'
                 \/ clock + Uptime < Debounce[j]
                 \/ \E t \in Emitted(j, k) \cup Failed(j, k) : clock - t < Debounce[j]
      <3>1. CASE Debounced(j, k)
        <4>1. clock + Uptime - lastEmit[j][k] < Debounce[j]
          BY <1>1, <2>7, <3>1 DEF Debounced, Monotonic
        <4>2. CASE lastEmit[j][k] = 0
          BY <2>7, <4>1, <4>2
        <4>3. CASE lastEmit[j][k] # 0
          <5>1. lastEmit[j][k] - Uptime \in Emitted(j, k) \cup Failed(j, k)
            BY <2>7, <4>3
          <5>2. clock - (lastEmit[j][k] - Uptime) < Debounce[j]
            BY <1>1, <2>7, <4>1
          <5> QED BY <5>1, <5>2
        <4> QED BY <4>2, <4>3
      <3>2. CASE ~Debounced(j, k)
        <4>1. j \in made
          BY <2>4, <2>6, <2>9, <3>2
        <4>2. fires'[j][Len(fires[j]) + 1] = f /\ Len(fires[j]) + 1 \in 1 .. Len(fires'[j])
          BY <2>4, <2>7, <4>1 DEF Recorded
        <4>3. clock \in Emitted(j, k)'
          BY <2>5, <2>9, <4>2, EmittedIs
        <4> QED BY <4>3
      <3> QED BY <3>1, <3>2
    <2> QED BY <2>8, <2>9 DEF Emits, x
  <1> QED BY <1>2, <1>3

-----------------------------------------------------------------------------
(* The theorems.                                                           *)

\* The inductive invariant: types, the minute each cron job is booked for, the
\* minutes the schedule loop has been through, and the latest event of a change
\* (_schedule_loop, _handle_file_event).
THEOREM SchedulerInductive == Spec => []SchedulerInv
  BY InitInv, InvStep, PTL DEF Spec

\* Types, and what a cron job is booked for (_cron_last_key).
THEOREM TypeCorrect == Spec => []TypeOK
  <1>1. SchedulerInv => TypeOK
    BY DEF SchedulerInv, TypesInv, CronInv, TypeOK, Fire, Change
  <1> QED BY <1>1, SchedulerInductive, PTL

\* A cron job fires once in each minute its expression names and in no other, as
\* long as its loop lives and resumes within a minute of its last pass, although
\* it polls many times a minute (_schedule_loop, cron_matches).
THEOREM CronOncePerMinuteHolds == Spec => []CronOncePerMinute
  <1>1. SchedulerInv => CronOncePerMinute
    <2> SUFFICES ASSUME SchedulerInv, NEW j \in CronJobs, Scheduling,
                        NEW m \in MinuteOf(since) + 1 .. MinuteOf(clock) - 1, Matches(j, m)
                 PROVE  Fired(j, m)
      BY DEF SchedulerInv, CronInv, CronOncePerMinute, Fired
    <2>1. TypesInv /\ LoopInv
      BY DEF SchedulerInv
    <2>2. /\ clock \in Nat /\ since \in Nat /\ MinuteOf(clock) \in Nat /\ MinuteOf(since) \in Nat
          /\ wake \in Nat
      BY <2>1, ClockType DEF TypesInv, Scheduling
    <2>3. m \in Nat /\ MinuteOf(since) < m /\ m < MinuteOf(clock)
      BY <2>2
    <2>4. clock <= wake + MaxLate
      BY <2>1 DEF LoopInv
    <2>5. CASE wake = since
      <3>1. clock <= since + MinuteLen
        BY <2>2, <2>4, <2>5, BoundsType, KeepsUp
      <3>2. MinuteOf(clock) <= MinuteOf(since) + 1
        BY <2>2, <3>1, NextMinute
      <3> QED BY <2>2, <2>3, <3>2
    <2>6. CASE /\ since <= wake - Poll /\ wake - Poll <= clock
               /\ \A l \in CronJobs : \A n \in MinuteOf(since) + 1 .. MinuteOf(wake - Poll) :
                     Matches(l, n) => Fired(l, n)
      <3>1. wake - Poll \in Nat /\ clock <= (wake - Poll) + MinuteLen
        BY <2>2, <2>4, <2>6, BoundsType, KeepsUp
      <3>2. MinuteOf(clock) <= MinuteOf(wake - Poll) + 1 /\ MinuteOf(wake - Poll) \in Nat
        BY <2>2, <3>1, NextMinute, MinuteType
      <3>3. m \in MinuteOf(since) + 1 .. MinuteOf(wake - Poll)
        BY <2>2, <2>3, <3>2
      <3> QED BY <2>6, <3>3
    <2> QED BY <2>1, <2>5, <2>6 DEF LoopInv
  <1> QED BY <1>1, SchedulerInductive, PTL

\* Events of a file job for one change lie debounce_seconds apart, and a change
\* whose task does not raise and makes no event comes that soon after one with an
\* event, or after one whose event could not be created, or after the boot
\* (_handle_file_event, _file_last_emit).
THEOREM FileChangesServedHolds == Spec => FileChangesServed
  <1> DEFINE A == \A j \in FileJobs : \A k \in Watches[j] :
                /\ Emitted(j, k)' \ Emitted(j, k) # {} =>
                     \A t \in Emitted(j, k) : clock - t >= Debounce[j]
                /\ HandleFile /\ Head(files) = k =>
                     \/ clock \in Emitted(j, k)'
                     \/ faults' # faults
                     \/ clock + Uptime < Debounce[j]
                     \/ \E t \in Emitted(j, k) \cup Failed(j, k) : clock - t < Debounce[j]
  <1>1. SchedulerInv /\ Next => A
    BY FilesServed DEF Emits
  <1>2. FileChangesServed <=> [][A]_vars
    BY DEF FileChangesServed
  <1> HIDE DEF A
  <1>3. SchedulerInv /\ [Next]_vars => [A]_vars
    BY <1>1
  <1> QED BY <1>2, <1>3, SchedulerInductive, PTL DEF Spec
=============================================================================
