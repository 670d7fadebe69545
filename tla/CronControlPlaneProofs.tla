------------------------ MODULE CronControlPlaneProofs ------------------------
(***************************************************************************)
(* Proofs about CronControlPlane, for any number of processes, jobs, starts, *)
(* edits and faults: its types, that the runtime row tells the truth while *)
(* daemons do not overlap, and that an undisturbed registration has taken  *)
(* effect when it returns.                                                 *)
(*                                                                         *)
(* The inductive invariant PlaneInv says, beyond the properties, what each *)
(* process holds between two of its transactions: the row a heartbeat got, *)
(* and how far a registration has come.                                    *)
(***************************************************************************)
EXTENDS CronControlPlane, TLAPS

-----------------------------------------------------------------------------
(* The inductive invariant.                                                *)

Stored == [job : Jobs, rev : {1, 2}, target : Targets]
RuntimeRows == [pid : Procs, status : {"running", "stopped"}]
Requests == [kind : {"none", "daemon", "load", "register"}, job : Jobs \cup {All},
             target : Spellings, entries : SUBSET Stored, apply : BOOLEAN]

\* Types of what the processes hold in memory.
HeldOK ==
    /\ todo \in [Procs -> SUBSET Stored]
    /\ later \in [Procs -> SUBSET Stored]
    /\ request \in [Procs -> Requests]
    /\ solo \in [Procs -> BOOLEAN] /\ together \in BOOLEAN
    /\ seen \in [Procs -> RuntimeRows \cup {Unread}]
    /\ \A p \in Procs : at[p] \in Daemonic => runtime \in RuntimeRows
    /\ \A p \in Procs : at[p] \in {"beating", "stopping"} => seen[p] \in RuntimeRows

RunningRow(p) == [pid |-> p, status |-> "running"]

\* While daemons have not overlapped, the row is that of the daemon that is up,
\* and so is the copy that its heartbeat or stop will write back.
RowInv ==
    ~together =>
        /\ \A p \in Procs : at[p] \in Daemonic => runtime = RunningRow(p)
        /\ \A p \in Procs : at[p] \in {"beating", "stopping"} => seen[p] = RunningRow(p)
        /\ faults = 0 /\ runtime.status = "running" => \E p \in Procs : at[p] \in Daemonic

\* An undisturbed registration is the only one there is.
AloneInv ==
    \A p, q \in Procs : solo[p] /\ at[p] \in Registering /\ at[q] \in Registering => p = q

\* A registration holds one entry per job, of the job asked for; a target that
\* rows can have is the target of its entries.
Asked(p) ==
    /\ \A e, f \in request[p].entries : e.job = f.job => e = f
    /\ \A e \in request[p].entries :
          /\ request[p].job \in {All, e.job}
          /\ request[p].target \in Targets => request[p].target = e.target

\* Every entry is a row; every matching row has its file; the crontab is the file
\* of an applied job.
Synced(p) == \A e \in request[p].entries : rows[e.job] = e

Written(p) == \A r \in Matching(p) : files[Path(r)] = r

InTab(p) == \E j \in applied[p] : crontab = rows[j] /\ rows[j].target = "linux_cron"

\* What holds where, of a registration that nobody disturbed.
Progress(p) ==
    /\ at[p] = "sync" =>
          /\ later[p] \subseteq request[p].entries
          /\ todo[p] # {} => later[p] = request[p].entries
          /\ \A e \in request[p].entries : e \in later[p] \/ rows[e.job] = e
    /\ at[p] \in Registering \ {"sync"} => Synced(p)
    /\ at[p] \in Generating =>
          \A r \in Matching(p) : r \in todo[p] \/ files[Path(r)] = r
    /\ at[p] \in Generating => todo[p] \subseteq Matching(p)
    /\ at[p] \in {"applying", "apply"} => Written(p)
    /\ at[p] \in {"regenerate", "applying", "apply"} => later[p] \subseteq Matching(p)
    /\ at[p] # "apply" => applied[p] = {}
    /\ applied[p] # {} => InTab(p)

DeployInv ==
    /\ AloneInv
    /\ \A p \in Procs : Asked(p)
    /\ \A p \in Procs : solo[p] /\ at[p] \in Registering => Progress(p)

PlaneInv == TypeOK /\ HeldOK /\ RowInv /\ DeployInv

-----------------------------------------------------------------------------
(* The operators.                                                          *)

\* Distinct jobs have distinct files, and every row that is stored has a file.
LEMMA PathsApart ==
    /\ \A r \in Stored : Path(r) \in Paths
    /\ \A r, s \in Stored : Path(r) = Path(s) => r.job = s.job
  <1>1. ASSUME NEW r \in Stored PROVE Path(r) = Path([job |-> r.job, target |-> r.target])
    BY DEF Path
  <1>2. ASSUME NEW r \in Stored PROVE Path(r) \in Paths
    BY <1>1, r.job \in Jobs, r.target \in Targets DEF Stored, Paths
  <1>3. ASSUME NEW r \in Stored, NEW s \in Stored, Path(r) = Path(s) PROVE r.job = s.job
    <2>1. /\ r.job \in Jobs /\ r.target \in Targets
          /\ s.job \in Jobs /\ s.target \in Targets
      BY DEF Stored
    <2>2. Path([job |-> r.job, target |-> r.target]) = Path([job |-> s.job, target |-> s.target])
      BY <1>1, <1>3
    <2>3. \A i, j \in Jobs, t, u \in Targets :
             Path([job |-> i, target |-> t]) = Path([job |-> j, target |-> u]) => i = j
      BY ControlAssumption
    <2> HIDE DEF Path
    <2> QED BY <2>1, <2>2, <2>3
  <1> QED BY <1>2, <1>3

LEMMA StoredRows == Stored \subseteq Rows /\ Missing \notin Stored /\ Missing \in Rows
  BY DEF Stored, Rows, Missing

\* What callers write comes to a target or none; the adapters' word for it, where
\* it is a target, is that target.
LEMMA TargetsNamed ==
  ASSUME NEW t \in Given
  PROVE  /\ Resolved(t) \in Targets \cup {Own} /\ Literal(t) \in Spellings
         /\ Literal(t) \in Targets => Resolved(t) = Literal(t)
  <1>1. t \in Spellings
    BY ControlAssumption
  <1> QED BY <1>1 DEF Spellings, Resolved, Literal, Targets, Own

\* What is selected is one row for each job, of a job and target asked for.
LEMMA SelectedRows ==
  ASSUME TypeOK, NEW j \in Jobs \cup {All}, NEW t \in Targets \cup {Own}
  PROVE  /\ Selected(j, t) \subseteq Stored
         /\ \A e, f \in Selected(j, t) : e.job = f.job => e = f
         /\ \A e \in Selected(j, t) : j \in {All, e.job} /\ t \in {Own, e.target}
  <1>1. ASSUME NEW n \in Declared
        PROVE  Entry(n, t) \in Stored /\ Entry(n, t).job = n /\ t \in {Own, Entry(n, t).target}
    <2>1. n \in Jobs /\ code[n] \in {1, 2}
      BY DEF Declared, TypeOK
    <2>2. Home[n] \in Targets
      BY <2>1, ControlAssumption
    <2> QED BY <2>1, <2>2 DEF Entry, Stored
  <1> QED BY <1>1 DEF Selected

\* The matching rows are rows of the table, each under its own job.
LEMMA MatchingRows ==
  ASSUME TypeOK, NEW p \in Procs
  PROVE  /\ Matching(p) \subseteq Stored
         /\ \A r \in Matching(p) : r.job \in Jobs /\ rows[r.job] = r
  <1>1. ASSUME NEW n \in Jobs, rows[n] # Missing PROVE rows[n] \in Stored /\ rows[n].job = n
    BY <1>1 DEF TypeOK, Rows, Stored
  <1> QED BY <1>1 DEF Matching

-----------------------------------------------------------------------------
(* Types.                                                                  *)

LEMMA BeginTypes ==
  ASSUME TypeOK, HeldOK, NEW p \in Procs, NEW req \in Requests, NEW first \in SUBSET Stored,
         Begin(p, req, first)
  PROVE  TypeOK' /\ HeldOK'
  <1>1. starts' \in 0 .. MaxStarts
    BY ControlAssumption DEF Begin, TypeOK
  <1>2. TypeOK'
    BY <1>1 DEF TypeOK, Begin, plane, Registering
  <1>3. \A q \in Procs : at'[q] \in Daemonic => at'[q] = at[q]
    BY DEF Begin, TypeOK, Daemonic
  <1>4. HeldOK'
    BY <1>3, <1>2 DEF HeldOK, Begin, plane, Requests, Daemonic, TypeOK
  <1> QED BY <1>2, <1>4

LEMMA AbandonTypes ==
  ASSUME TypeOK, HeldOK, NEW p \in Procs, Abandon(p)
  PROVE  /\ at' \in [Procs -> Registering \cup Daemonic \cup {"idle"}]
         /\ applied' \in [Procs -> SUBSET Jobs]
         /\ todo' \in [Procs -> SUBSET Stored] /\ later' \in [Procs -> SUBSET Stored]
         /\ request' \in [Procs -> Requests] /\ solo' \in [Procs -> BOOLEAN]
         /\ seen' \in [Procs -> RuntimeRows \cup {Unread}]
         /\ at'[p] = "idle"
         /\ \A q \in Procs \ {p} : at'[q] = at[q] /\ seen'[q] = seen[q]
  BY DEF TypeOK, HeldOK, Abandon, Requests, NoRequest, Spellings

LEMMA TypesStep == TypeOK /\ HeldOK /\ [Next]_vars => TypeOK' /\ HeldOK'
  <1> SUFFICES ASSUME TypeOK, HeldOK, [Next]_vars PROVE TypeOK' /\ HeldOK'
    OBVIOUS
  <1> USE DEF Daemonic
  <1>1. ASSUME NEW j \in Jobs, Edit(j) PROVE TypeOK' /\ HeldOK'
    <2>1. edits' \in 0 .. MaxEdits
      BY <1>1, ControlAssumption DEF Edit, TypeOK
    <2> QED BY <1>1, <2>1 DEF Edit, TypeOK, HeldOK
  <1> SUFFICES ASSUME NEW p \in Procs PROVE
        /\ StartDaemon(p) \/ LoadProject(p) => TypeOK' /\ HeldOK'
        /\ (\E j \in Jobs \cup {All}, t \in Given, apply \in BOOLEAN :
                Register(p, j, t, apply)) => TypeOK' /\ HeldOK'
        /\ SyncWrite(p) => TypeOK' /\ HeldOK'
        /\ WriteFile(p) => TypeOK' /\ HeldOK'
        /\ ApplyOne(p) => TypeOK' /\ HeldOK'
        /\ Generate(p) \/ Apply(p) \/ Regenerate(p) \/ Regenerated(p) => TypeOK' /\ HeldOK'
        /\ Upsert(p) => TypeOK' /\ HeldOK'
        /\ Bind(p) \/ BeatRead(p) \/ StopRead(p) \/ BeatWrite(p) => TypeOK' /\ HeldOK'
        /\ Report(p) \/ BindFails(p) \/ StopWrite(p) \/ Crash(p) => TypeOK' /\ HeldOK'
    <2>1. CASE UNCHANGED vars
      BY <2>1 DEF vars, plane, counters, TypeOK, HeldOK
    <2> QED BY <1>1, <2>1 DEF Next
  <1>2. ASSUME StartDaemon(p) \/ LoadProject(p) PROVE TypeOK' /\ HeldOK'
    <2>1. \A kind \in {"daemon", "load"} : [NoRequest EXCEPT !.kind = kind] \in Requests
      BY DEF NoRequest, Requests, Spellings
    <2> QED BY <1>2, <2>1, SelectedRows, BeginTypes DEF StartDaemon, LoadProject
  <1>3. ASSUME NEW j \in Jobs \cup {All}, NEW t \in Given, NEW apply \in BOOLEAN,
               Register(p, j, t, apply)
        PROVE  TypeOK' /\ HeldOK'
    <2>1. [kind |-> "register", job |-> j, target |-> Literal(t),
           entries |-> Selected(j, Resolved(t)), apply |-> apply] \in Requests
      BY TargetsNamed, SelectedRows DEF Requests
    <2>2. Selected(All, Own) \in SUBSET Stored
      BY SelectedRows
    <2> QED BY <1>3, <2>1, <2>2, BeginTypes DEF Register
  <1>4. ASSUME SyncWrite(p) PROVE TypeOK' /\ HeldOK'
    <2>1. PICK r \in todo[p] \cup later[p] :
             (TakesNow(p, r) \/ TakesLater(p, r)) /\ rows' = [rows EXCEPT ![r.job] = r]
      BY <1>4 DEF SyncWrite
    <2>2. r \in Stored /\ r.job \in Jobs /\ r \in Rows
      BY <2>1, StoredRows DEF HeldOK, Stored
    <2>3. todo' \in [Procs -> SUBSET Stored] /\ later' \in [Procs -> SUBSET Stored]
      BY <2>1 DEF HeldOK, TakesNow, TakesLater
    <2>4. TypeOK'
      BY <1>4, <2>1, <2>2 DEF SyncWrite, TypeOK, counters
    <2> QED BY <1>4, <2>3, <2>4 DEF SyncWrite, HeldOK, counters
  <1>5. ASSUME WriteFile(p) PROVE TypeOK' /\ HeldOK'
    <2>1. PICK r \in todo[p] : TakesNow(p, r) /\ files' = [files EXCEPT ![Path(r)] = r]
      BY <1>5 DEF WriteFile
    <2>2. r \in Stored /\ r \in Rows /\ Path(r) \in Paths
      BY StoredRows, PathsApart DEF HeldOK
    <2>3. todo' \in [Procs -> SUBSET Stored] /\ later' \in [Procs -> SUBSET Stored]
      BY <2>1 DEF HeldOK, TakesNow
    <2>4. TypeOK'
      BY <1>5, <2>1, <2>2 DEF WriteFile, TypeOK, counters
    <2> QED BY <1>5, <2>3, <2>4 DEF WriteFile, HeldOK, counters
  <1>6. ASSUME ApplyOne(p) PROVE TypeOK' /\ HeldOK'
    <2>1. PICK r \in later[p] :
          /\ TakesLater(p, r)
          /\ \/ /\ files[Path(r)] # Missing
                /\ crontab' = files[Path(r)]
                /\ applied' = [applied EXCEPT ![p] = @ \cup {r.job}]
                /\ faults' = faults
             \/ /\ \/ faults < MaxFaults /\ faults' = faults + 1
                   \/ faults' = faults
                /\ UNCHANGED <<crontab, applied>>
      BY <1>6 DEF ApplyOne
    <2>2. r \in Stored /\ r.job \in Jobs /\ Path(r) \in Paths
      BY PathsApart DEF HeldOK, Stored
    <2>3. files[Path(r)] \in Rows
      BY <2>2 DEF TypeOK
    <2>4. faults' \in 0 .. MaxFaults
      BY <2>1, ControlAssumption DEF TypeOK
    <2>5. todo' \in [Procs -> SUBSET Stored] /\ later' \in [Procs -> SUBSET Stored]
      BY <2>1 DEF HeldOK, TakesLater
    <2>6. crontab' \in Rows /\ applied' \in [Procs -> SUBSET Jobs]
      BY <2>1, <2>2, <2>3 DEF TypeOK
    <2>7. TypeOK'
      BY <1>6, <2>4, <2>6 DEF ApplyOne, TypeOK
    <2> QED BY <1>6, <2>5, <2>7 DEF ApplyOne, HeldOK
  <1>7. ASSUME Generate(p) \/ Apply(p) \/ Regenerate(p) \/ Regenerated(p)
        PROVE  TypeOK' /\ HeldOK'
    <2>1. \E from, to \in Registering : ReadRows(p, from, to)
      BY <1>7 DEF Generate, Apply, Regenerate, Regenerated, Registering, Generating
    <2>2. todo' \in [Procs -> SUBSET Stored] /\ later' \in [Procs -> SUBSET Stored]
      BY <1>7, MatchingRows DEF Generate, Apply, Regenerate, Regenerated, HeldOK
    <2>3. TypeOK'
      BY <2>1 DEF ReadRows, TypeOK, plane, counters
    <2>4. \A q \in Procs : at'[q] \in Daemonic => at'[q] = at[q]
      BY <2>1 DEF ReadRows, TypeOK, Registering, Generating
    <2> QED BY <2>1, <2>2, <2>3, <2>4 DEF ReadRows, HeldOK, plane, counters
  <1>8. ASSUME Upsert(p) PROVE TypeOK' /\ HeldOK'
    <2>1. runtime' \in RuntimeRows
      BY <1>8 DEF Upsert, Claim, RuntimeRows
    <2>2. at' = [at EXCEPT ![p] = "binding"]
      BY <1>8 DEF Upsert, DaemonStep
    <2>3. TypeOK'
      BY <1>8, <2>1, <2>2 DEF Upsert, DaemonStep, TypeOK, RuntimeRows
    <2>4. \A q \in Procs : at'[q] \in {"beating", "stopping"} => at'[q] = at[q]
      BY <2>2 DEF TypeOK
    <2>5. together' \in BOOLEAN
      BY <1>8 DEF Upsert, HeldOK
    <2> QED BY <1>8, <2>1, <2>3, <2>4, <2>5 DEF Upsert, DaemonStep, HeldOK
  <1>9. ASSUME Bind(p) \/ BeatRead(p) \/ StopRead(p) \/ BeatWrite(p) PROVE TypeOK' /\ HeldOK'
    <2>1. at[p] \in Daemonic /\ \E to \in Daemonic : at' = [at EXCEPT ![p] = to]
      BY <1>9 DEF Bind, BeatRead, StopRead, BeatWrite, DaemonStep
    <2>2. runtime \in RuntimeRows
      BY <2>1 DEF HeldOK
    <2>3. /\ runtime' \in RuntimeRows
          /\ seen' \in [Procs -> RuntimeRows \cup {Unread}]
          /\ \A q \in Procs : at'[q] \in {"beating", "stopping"} => seen'[q] \in RuntimeRows
      BY <1>9, <2>2 DEF Bind, BeatRead, StopRead, BeatWrite, DaemonStep, ReadRow, HeldOK, TypeOK
    <2>4. TypeOK'
      BY <1>9, <2>1, <2>3
      DEF Bind, BeatRead, StopRead, BeatWrite, DaemonStep, ReadRow, TypeOK, RuntimeRows
    <2> QED BY <1>9, <2>3, <2>4
        DEF Bind, BeatRead, StopRead, BeatWrite, DaemonStep, ReadRow, HeldOK
  <1>10. ASSUME Report(p) \/ BindFails(p) \/ StopWrite(p) \/ Crash(p) PROVE TypeOK' /\ HeldOK'
    <2>1. Abandon(p)
      BY <1>10 DEF Report, BindFails, StopWrite, Crash
    <2>2. faults' \in 0 .. MaxFaults
      BY <1>10, ControlAssumption DEF Report, BindFails, StopWrite, Crash, TypeOK, plane, counters
    <2>3. runtime' = runtime \/ runtime' \in RuntimeRows
      <3>1. CASE StopWrite(p)
        BY <3>1 DEF StopWrite, HeldOK, RuntimeRows
      <3> QED BY <1>10, <3>1 DEF Report, BindFails, Crash, plane
    <2>4. UNCHANGED <<code, rows, files, crontab, together, starts, edits>>
      BY <1>10 DEF Report, BindFails, StopWrite, Crash, plane, counters
    <2>5. TypeOK'
      BY <2>1, <2>2, <2>3, <2>4, AbandonTypes DEF TypeOK, RuntimeRows
    <2> QED BY <2>1, <2>3, <2>4, <2>5, AbandonTypes DEF HeldOK
  <1> QED BY <1>2, <1>3, <1>4, <1>5, <1>6, <1>7, <1>8, <1>9, <1>10

-----------------------------------------------------------------------------
(* The runtime row.                                                        *)

\* A step that touches neither the row nor the processes that own it.
LEMMA RowQuiet ==
  ASSUME TypeOK, RowInv, runtime' = runtime, together' = together, faults' = 0 => faults = 0,
         \A q \in Procs : at'[q] \in Daemonic <=> at[q] \in Daemonic,
         \A q \in Procs : at'[q] \in {"beating", "stopping"} => at'[q] = at[q] /\ seen'[q] = seen[q]
  PROVE  RowInv'
  <1> HIDE DEF Daemonic
  <1> QED BY DEF RowInv, RunningRow

LEMMA RowStep == TypeOK /\ HeldOK /\ RowInv /\ [Next]_vars => RowInv'
  <1> SUFFICES ASSUME TypeOK, HeldOK, RowInv, [Next]_vars PROVE RowInv'
    OBVIOUS
  <1> DEFINE Same(q) ==
        /\ at'[q] \in Daemonic <=> at[q] \in Daemonic
        /\ at'[q] \in {"beating", "stopping"} => at'[q] = at[q] /\ seen'[q] = seen[q]
  <1>1. ASSUME NEW j \in Jobs, Edit(j) PROVE RowInv'
    BY <1>1, RowQuiet DEF Edit
  <1> SUFFICES ASSUME NEW p \in Procs PROVE
        /\ (\E req, first : Begin(p, req, first)) => RowInv'
        /\ SyncWrite(p) \/ WriteFile(p) \/ ApplyOne(p) => RowInv'
        /\ Generate(p) \/ Apply(p) \/ Regenerate(p) \/ Regenerated(p) => RowInv'
        /\ Report(p) => RowInv'
        /\ Bind(p) => RowInv'
        /\ Upsert(p) => RowInv'
        /\ BeatRead(p) \/ StopRead(p) => RowInv'
        /\ BeatWrite(p) => RowInv'
        /\ StopWrite(p) => RowInv'
        /\ BindFails(p) \/ Crash(p) => RowInv'
    <2>1. CASE UNCHANGED vars
      BY <2>1, RowQuiet DEF vars, plane, counters
    <2>2. ASSUME NEW p \in Procs, StartDaemon(p) \/ LoadProject(p)
          PROVE  \E req, first : Begin(p, req, first)
      BY <2>2 DEF StartDaemon, LoadProject
    <2>3. ASSUME NEW p \in Procs, NEW j \in Jobs \cup {All}, NEW t \in Given, NEW apply \in BOOLEAN,
                 Register(p, j, t, apply)
          PROVE  \E req, first : Begin(p, req, first)
      BY <2>3 DEF Register
    <2> QED BY <1>1, <2>1, <2>2, <2>3 DEF Next
  <1>2. ASSUME NEW req, NEW first, Begin(p, req, first) PROVE RowInv'
    <2>1. \A q \in Procs : Same(q)
      BY <1>2 DEF Begin, TypeOK, Daemonic
    <2> QED BY <1>2, <2>1, RowQuiet DEF Begin, plane
  <1>3. ASSUME SyncWrite(p) \/ WriteFile(p) \/ ApplyOne(p) PROVE RowInv'
    <2>1. UNCHANGED <<runtime, together, at, seen>>
      BY <1>3 DEF SyncWrite, WriteFile, ApplyOne
    <2>2. faults' = faults \/ faults' = faults + 1
      BY <1>3 DEF SyncWrite, WriteFile, ApplyOne, counters
    <2>3. faults' = 0 => faults = 0
      BY <2>2 DEF TypeOK
    <2> QED BY <2>1, <2>3, RowQuiet
  <1>4. ASSUME Generate(p) \/ Apply(p) \/ Regenerate(p) \/ Regenerated(p) PROVE RowInv'
    <2>1. \E from, to \in Registering : ReadRows(p, from, to)
      BY <1>4 DEF Generate, Apply, Regenerate, Regenerated, Registering, Generating
    <2>2. \A q \in Procs : Same(q)
      BY <2>1 DEF ReadRows, TypeOK, Registering, Generating, Daemonic
    <2> QED BY <2>1, <2>2, RowQuiet DEF ReadRows, plane, counters
  <1>5. ASSUME Report(p) PROVE RowInv'
    <2>1. at[p] \notin Daemonic
      BY <1>5 DEF Report, Done, Loaded, Daemonic
    <2>2. \A q \in Procs : Same(q)
      BY <1>5, <2>1, AbandonTypes DEF Report, Daemonic
    <2> QED BY <1>5, <2>2, RowQuiet DEF Report, plane, counters
  <1>6. ASSUME Bind(p) PROVE RowInv'
    <2>1. \A q \in Procs : Same(q)
      BY <1>6 DEF Bind, DaemonStep, TypeOK, Daemonic
    <2> QED BY <1>6, <2>1, RowQuiet DEF Bind
  <1>7. ASSUME Upsert(p) PROVE RowInv'
    <2>1. together' \/ \A q \in Procs : at'[q] \in Daemonic <=> q = p
      BY <1>7 DEF Upsert, DaemonStep, TypeOK, Daemonic
    <2>2. runtime' = RunningRow(p)
      BY <1>7 DEF Upsert, Claim, RunningRow
    <2>3. at'[p] = "binding"
      BY <1>7 DEF Upsert, DaemonStep, TypeOK
    <2> QED BY <2>1, <2>2, <2>3 DEF RowInv, RunningRow, Daemonic
  <1> DEFINE Owner(q) == at[q] \in Daemonic /\ runtime = RunningRow(q)
  <1>8. ASSUME ~together, at[p] \in Daemonic
        PROVE  Owner(p) /\ \A q \in Procs \ {p} : at[q] \notin Daemonic
    BY <1>8 DEF RowInv, RunningRow
  <1>9. ASSUME BeatRead(p) \/ StopRead(p) PROVE RowInv'
    <2>1. at[p] = "running" /\ at'[p] \in Daemonic /\ \A q \in Procs \ {p} : at'[q] = at[q]
      BY <1>9 DEF BeatRead, StopRead, DaemonStep, TypeOK, Daemonic
    <2>2. UNCHANGED <<runtime, together, faults>> /\ seen'[p] = runtime
      BY <1>9 DEF BeatRead, StopRead, ReadRow, HeldOK
    <2> QED BY <1>8, <2>1, <2>2 DEF RowInv, RunningRow, Daemonic
  <1>10. ASSUME BeatWrite(p) PROVE RowInv'
    <2>1. at[p] = "beating" /\ at'[p] = "running" /\ \A q \in Procs \ {p} : at'[q] = at[q]
      BY <1>10 DEF BeatWrite, DaemonStep, TypeOK
    <2>2. UNCHANGED <<together, faults>> /\ runtime' = seen[p]
      BY <1>10 DEF BeatWrite
    <2> QED BY <1>8, <2>1, <2>2 DEF RowInv, RunningRow, Daemonic
  <1>11. ASSUME StopWrite(p) PROVE RowInv'
    <2>1. at[p] = "stopping" /\ at'[p] = "idle" /\ \A q \in Procs \ {p} : at'[q] = at[q]
      BY <1>11, AbandonTypes DEF StopWrite
    <2>2. together' = together /\ runtime'.status = "stopped"
      BY <1>11 DEF StopWrite
    <2> QED BY <1>8, <2>1, <2>2 DEF RowInv, Daemonic
  <1>12. ASSUME BindFails(p) \/ Crash(p) PROVE RowInv'
    <2>1. at'[p] = "idle" /\ \A q \in Procs \ {p} : at'[q] = at[q] /\ seen'[q] = seen[q]
      BY <1>12, AbandonTypes DEF BindFails, Crash
    <2>2. UNCHANGED <<runtime, together>>
      BY <1>12 DEF BindFails, Crash, plane
    <2>3. together \/ faults' = faults + 1
      <3>1. ASSUME PortTaken, at[p] = "binding" PROVE together
        BY <1>8, <3>1 DEF PortTaken, Daemonic
      <3> QED BY <1>12, <3>1 DEF BindFails, Crash
    <2>4. together \/ faults' # 0
      BY <2>3 DEF TypeOK
    <2> QED BY <2>1, <2>2, <2>4 DEF RowInv, Daemonic, RunningRow
  <1> QED BY <1>2, <1>3, <1>4, <1>5, <1>6, <1>7, <1>9, <1>10, <1>11, <1>12

-----------------------------------------------------------------------------
(* Registrations.                                                          *)

\* Everything a registration rests on is as it was.
LEMMA ProgressKept ==
  ASSUME NEW p \in Procs, Progress(p), UNCHANGED <<rows, files, crontab>>,
         at'[p] = at[p], todo'[p] = todo[p], later'[p] = later[p],
         request'[p] = request[p], applied'[p] = applied[p]
  PROVE  Progress(p)'
  <1>1. Matching(p)' = Matching(p)
    BY DEF Matching
  <1>2. Synced(p)' <=> Synced(p)
    BY DEF Synced
  <1>3. Written(p)' <=> Written(p)
    BY <1>1 DEF Written
  <1>4. InTab(p)' <=> InTab(p)
    BY DEF InTab
  <1> QED BY <1>1, <1>2, <1>3, <1>4 DEF Progress

\* A step that only carries on with registrations that were there.
LEMMA AloneKept ==
  ASSUME AloneInv,
         \A q \in Procs : at'[q] \in Registering =>
             at[q] \in Registering /\ (solo'[q] => solo[q])
  PROVE  AloneInv'
  BY DEF AloneInv

\* The steps of a process p that is not registering, and what they leave alone.
LEMMA OwnOnly ==
  ASSUME TypeOK, HeldOK, NEW p \in Procs, Abandon(p)
  PROVE  /\ \A q \in Procs : at'[q] \in Registering => q # p
         /\ \A q \in Procs \ {p} :
               /\ at'[q] = at[q] /\ todo'[q] = todo[q] /\ later'[q] = later[q]
               /\ request'[q] = request[q] /\ applied'[q] = applied[q] /\ solo'[q] = solo[q]
         /\ request'[p] = NoRequest
  BY DEF Abandon, TypeOK, HeldOK, Registering, Generating

LEMMA BeginDeploys ==
  ASSUME TypeOK, HeldOK, DeployInv, NEW p \in Procs, NEW req \in Requests,
         NEW first \in SUBSET Stored, Begin(p, req, first),
         \A e, f \in req.entries : e.job = f.job => e = f,
         \A e \in req.entries :
            req.job \in {All, e.job} /\ (req.target \in Targets => req.target = e.target)
  PROVE  DeployInv'
  <1> DEFINE others == {q \in Procs \ {p} : at[q] \in Registering}
  <1>1. /\ at'[p] = "sync" /\ later'[p] = req.entries /\ request'[p] = req /\ applied'[p] = {}
        /\ solo'[p] = (others = {})
    BY DEF Begin, TypeOK, HeldOK
  <1>2. ASSUME NEW q \in Procs \ {p}
        PROVE  /\ at'[q] = at[q] /\ todo'[q] = todo[q] /\ later'[q] = later[q]
               /\ request'[q] = request[q] /\ applied'[q] = applied[q]
               /\ solo'[q] /\ at[q] \in Registering => FALSE
    BY DEF Begin, TypeOK, HeldOK
  <1>3. AloneInv'
    BY <1>1, <1>2 DEF AloneInv
  <1>4. \A q \in Procs : Asked(q)'
    BY <1>1, <1>2 DEF Asked, DeployInv
  <1>5. Progress(p)'
    BY <1>1 DEF Progress, Registering, Generating
  <1> QED BY <1>2, <1>3, <1>4, <1>5 DEF DeployInv

LEMMA DeployStep == TypeOK /\ HeldOK /\ DeployInv /\ [Next]_vars => DeployInv'
  <1> SUFFICES ASSUME TypeOK, HeldOK, DeployInv, [Next]_vars PROVE DeployInv'
    OBVIOUS
  <1>1. ASSUME UNCHANGED <<rows, files, crontab, at, todo, later, request, applied, solo>>
        PROVE  DeployInv'
    <2>1. \A q \in Procs : Asked(q)'
      BY <1>1 DEF Asked, DeployInv
    <2>2. AloneInv'
      BY <1>1, AloneKept DEF DeployInv
    <2>3. \A q \in Procs : solo'[q] /\ at'[q] \in Registering => Progress(q)'
      BY <1>1, ProgressKept DEF DeployInv
    <2> QED BY <2>1, <2>2, <2>3 DEF DeployInv
  <1>2. ASSUME NEW j \in Jobs, Edit(j) PROVE DeployInv'
    BY <1>1, <1>2 DEF Edit
  <1> SUFFICES ASSUME NEW p \in Procs PROVE
        /\ StartDaemon(p) \/ LoadProject(p) => DeployInv'
        /\ (\E j \in Jobs \cup {All}, t \in Given, apply \in BOOLEAN :
                Register(p, j, t, apply)) => DeployInv'
        /\ SyncWrite(p) \/ WriteFile(p) \/ ApplyOne(p) => DeployInv'
        /\ Generate(p) \/ Apply(p) \/ Regenerate(p) \/ Regenerated(p) => DeployInv'
        /\ Upsert(p) \/ Bind(p) \/ BeatRead(p) \/ StopRead(p) \/ BeatWrite(p) => DeployInv'
        /\ Report(p) \/ BindFails(p) \/ StopWrite(p) \/ Crash(p) => DeployInv'
    <2>1. CASE UNCHANGED vars
      BY <1>1, <2>1 DEF vars, plane, counters
    <2> QED BY <1>2, <2>1 DEF Next
  <1>3. ASSUME StartDaemon(p) \/ LoadProject(p) PROVE DeployInv'
    <2>1. PICK kind \in {"daemon", "load"} :
             Begin(p, [NoRequest EXCEPT !.kind = kind], Selected(All, Own))
      BY <1>3 DEF StartDaemon, LoadProject
    <2> DEFINE req == [NoRequest EXCEPT !.kind = kind]
    <2>2. req \in Requests /\ req.entries = {}
      BY DEF NoRequest, Requests, Spellings
    <2>3. Selected(All, Own) \in SUBSET Stored
      BY SelectedRows
    <2> HIDE DEF req
    <2> QED BY <2>1, <2>2, <2>3, BeginDeploys DEF req
  <1>4. ASSUME NEW j \in Jobs \cup {All}, NEW t \in Given, NEW apply \in BOOLEAN,
               Register(p, j, t, apply)
        PROVE  DeployInv'
    <2> DEFINE req == [kind |-> "register", job |-> j, target |-> Literal(t),
                       entries |-> Selected(j, Resolved(t)), apply |-> apply]
    <2>1. req \in Requests
      BY TargetsNamed, SelectedRows DEF Requests
    <2>2. PICK first \in SUBSET Stored : Begin(p, req, first)
      BY <1>4, SelectedRows DEF Register
    <2>3. /\ \A e, f \in req.entries : e.job = f.job => e = f
          /\ \A e \in req.entries :
                req.job \in {All, e.job} /\ (req.target \in Targets => req.target = e.target)
      <3>1. Own \notin Targets
        BY DEF Own, Targets
      <3> QED BY <3>1, TargetsNamed, SelectedRows
    <2> HIDE DEF req
    <2> QED BY <2>1, <2>2, <2>3, BeginDeploys
  <1>5. ASSUME Report(p) \/ BindFails(p) \/ StopWrite(p) \/ Crash(p) PROVE DeployInv'
    <2>1. Abandon(p) /\ UNCHANGED <<rows, files, crontab>>
      BY <1>5 DEF Report, BindFails, StopWrite, Crash, plane
    <2>2. AloneInv'
      BY <2>1, AloneKept, OwnOnly DEF DeployInv
    <2>3. \A q \in Procs : Asked(q)'
      BY <2>1, OwnOnly DEF DeployInv, Asked, NoRequest
    <2>4. \A q \in Procs : solo'[q] /\ at'[q] \in Registering => Progress(q)'
      BY <2>1, OwnOnly, ProgressKept DEF DeployInv
    <2> QED BY <2>2, <2>3, <2>4 DEF DeployInv
  \* The steps below change nothing that another registration reads of its own.
  <1> DEFINE Kept(q) ==
        /\ at'[q] = at[q] /\ todo'[q] = todo[q] /\ later'[q] = later[q]
        /\ request'[q] = request[q] /\ applied'[q] = applied[q] /\ solo'[q] = solo[q]
  <1>6. ASSUME Upsert(p) \/ Bind(p) \/ BeatRead(p) \/ StopRead(p) \/ BeatWrite(p)
        PROVE  DeployInv'
    <2>1. \E to \in Daemonic : at' = [at EXCEPT ![p] = to]
      BY <1>6 DEF Upsert, Bind, BeatRead, StopRead, BeatWrite, DaemonStep, Daemonic
    <2>2. UNCHANGED <<rows, files, crontab, todo, later, request, applied, solo>>
      BY <1>6 DEF Upsert, Bind, BeatRead, StopRead, BeatWrite, DaemonStep
    <2>3. \A q \in Procs : at'[q] \in Registering => Kept(q)
      BY <2>1, <2>2 DEF TypeOK, Registering, Generating, Daemonic
    <2>4. AloneInv'
      BY <2>3, AloneKept DEF DeployInv
    <2>5. \A q \in Procs : Asked(q)'
      BY <2>2 DEF DeployInv, Asked
    <2>6. \A q \in Procs : solo'[q] /\ at'[q] \in Registering => Progress(q)'
      BY <2>2, <2>3, ProgressKept DEF DeployInv
    <2> QED BY <2>4, <2>5, <2>6 DEF DeployInv
  \* The steps of a registration: what is left is that it makes progress itself.
  <1>7. ASSUME at[p] \in Registering, at'[p] \in Registering,
               \A q \in Procs \ {p} : Kept(q), UNCHANGED <<request, solo>>,
               solo[p] /\ Progress(p) => Progress(p)'
        PROVE  DeployInv'
    <2>1. \A q \in Procs : at'[q] \in Registering => at[q] \in Registering
      BY <1>7
    <2>2. AloneInv'
      BY <1>7, <2>1, AloneKept DEF DeployInv
    <2>3. \A q \in Procs : Asked(q)'
      BY <1>7 DEF DeployInv, Asked
    <2>4. ASSUME NEW q \in Procs, solo'[q], at'[q] \in Registering PROVE Progress(q)'
      <3>1. solo[q] /\ at[q] \in Registering
        BY <1>7, <2>1, <2>4
      <3>2. q = p
        BY <1>7, <3>1 DEF DeployInv, AloneInv
      <3> QED BY <1>7, <3>1, <3>2 DEF DeployInv
    <2> QED BY <2>2, <2>3, <2>4 DEF DeployInv
  <1>8. ASSUME SyncWrite(p) PROVE DeployInv'
    <2>1. PICK r \in todo[p] \cup later[p] :
             (TakesNow(p, r) \/ TakesLater(p, r)) /\ rows' = [rows EXCEPT ![r.job] = r]
      BY <1>8 DEF SyncWrite
    <2>2. UNCHANGED <<at, request, solo, applied>> /\ at[p] = "sync"
      BY <1>8 DEF SyncWrite
    <2>3. \A q \in Procs \ {p} : Kept(q)
      BY <2>1, <2>2 DEF TakesNow, TakesLater, HeldOK
    <2>4. ASSUME Progress(p) PROVE Progress(p)'
      <3>1. /\ later[p] \subseteq request[p].entries
            /\ todo[p] # {} => later[p] = request[p].entries
            /\ \A e \in request[p].entries : e \in later[p] \/ rows[e.job] = e
            /\ applied[p] = {}
        BY <2>2, <2>4 DEF Progress
      <3>2. /\ later'[p] \subseteq request[p].entries
            /\ todo'[p] # {} => later'[p] = request[p].entries
        BY <2>1, <3>1 DEF TakesNow, TakesLater, HeldOK
      <3>3. r.job \in Jobs /\ rows'[r.job] = r /\ \A j \in Jobs \ {r.job} : rows'[j] = rows[j]
        BY <2>1 DEF TypeOK, HeldOK, Stored
      <3>4. ASSUME NEW e \in request[p].entries PROVE e \in later'[p] \/ rows'[e.job] = e
        <4>1. CASE TakesNow(p, r)
          BY <3>1, <4>1 DEF TakesNow, FirstOf
        <4>2. CASE TakesLater(p, r)
          <5>1. r \in later[p] /\ later'[p] = later[p] \ {r}
            BY <4>2 DEF TakesLater, FirstOf, HeldOK
          <5>2. e.job = r.job => e = r
            BY <5>1, <3>1 DEF DeployInv, Asked
          <5>3. e.job \in Jobs
            BY DEF HeldOK, Requests, Stored
          <5> QED BY <3>1, <3>3, <5>1, <5>2, <5>3
        <4> QED BY <2>1, <4>1, <4>2
      <3> QED BY <2>2, <3>1, <3>2, <3>4 DEF Progress, Registering, Generating
    <2> QED BY <1>7, <2>2, <2>3, <2>4 DEF Registering
  <1>9. ASSUME WriteFile(p) PROVE DeployInv'
    <2>1. PICK r \in todo[p] : TakesNow(p, r) /\ files' = [files EXCEPT ![Path(r)] = r]
      BY <1>9 DEF WriteFile
    <2>2. UNCHANGED <<rows, crontab, at, request, solo, applied, later>> /\ at[p] \in Generating
      BY <1>9, <2>1 DEF WriteFile, TakesNow
    <2>3. \A q \in Procs \ {p} : Kept(q)
      BY <2>1, <2>2 DEF TakesNow, HeldOK
    <2>4. ASSUME Progress(p) PROVE Progress(p)'
      <3>1. Matching(p)' = Matching(p) /\ (Synced(p)' <=> Synced(p)) /\ (InTab(p)' <=> InTab(p))
        BY <2>2 DEF Matching, Synced, InTab
      <3>2. /\ todo[p] \subseteq Matching(p)
            /\ \A s \in Matching(p) : s \in todo[p] \/ files[Path(s)] = s
        BY <2>2, <2>4 DEF Progress
      <3>3. todo'[p] = todo[p] \ {r}
        BY <2>1 DEF TakesNow, HeldOK
      <3>4. r \in Stored /\ Path(r) \in Paths /\ files'[Path(r)] = r
        BY <2>1, PathsApart DEF HeldOK, TypeOK
      <3>5. ASSUME NEW s \in Matching(p) PROVE s \in todo'[p] \/ files'[Path(s)] = s
        <4>1. s \in Stored /\ Path(s) \in Paths /\ rows[s.job] = s /\ rows[r.job] = r
          BY <3>2, MatchingRows, PathsApart
        <4>2. Path(s) = Path(r) => s = r
          <5> HIDE DEF Path
          <5> QED BY <3>4, <4>1, PathsApart
        <4>3. Path(s) # Path(r) => files'[Path(s)] = files[Path(s)]
          BY <2>1, <4>1 DEF TypeOK
        <4> QED BY <3>2, <3>3, <3>4, <4>2, <4>3
      <3>6. at[p] \notin {"sync", "applying", "apply"} /\ at[p] # "apply"
        BY <2>2 DEF Generating
      <3> QED BY <2>2, <2>4, <3>1, <3>2, <3>3, <3>5, <3>6 DEF Progress
    <2> QED BY <1>7, <2>2, <2>3, <2>4 DEF Registering
  <1>10. ASSUME ApplyOne(p) PROVE DeployInv'
    <2>1. PICK r \in later[p] :
          /\ TakesLater(p, r)
          /\ \/ /\ r.target = "linux_cron"
                /\ crontab' = files[Path(r)]
                /\ applied' = [applied EXCEPT ![p] = @ \cup {r.job}]
             \/ UNCHANGED <<crontab, applied>>
      BY <1>10 DEF ApplyOne
    <2>2. UNCHANGED <<rows, files, at, request, solo>> /\ at[p] = "apply"
      BY <1>10 DEF ApplyOne
    <2>3. \A q \in Procs \ {p} : Kept(q)
      BY <2>1, <2>2 DEF TakesLater, HeldOK, TypeOK
    <2>4. ASSUME Progress(p) PROVE Progress(p)'
      <3>1. Matching(p)' = Matching(p) /\ (Synced(p)' <=> Synced(p)) /\ (Written(p)' <=> Written(p))
        BY <2>2 DEF Matching, Synced, Written
      <3>2. Synced(p) /\ Written(p) /\ later[p] \subseteq Matching(p)
        BY <2>2, <2>4 DEF Progress, Registering
      <3>3. later'[p] \subseteq Matching(p)
        BY <2>1, <3>2 DEF TakesLater, HeldOK
      <3>4. applied'[p] # {} => InTab(p)'
        <4>1. CASE UNCHANGED <<crontab, applied>>
          BY <2>2, <2>4, <4>1 DEF Progress, InTab
        <4>2. CASE /\ r.target = "linux_cron"
                   /\ crontab' = files[Path(r)]
                   /\ applied' = [applied EXCEPT ![p] = @ \cup {r.job}]
          <5>1. r \in Matching(p) /\ files[Path(r)] = r
            BY <3>2 DEF Written
          <5>2. crontab' = rows'[r.job] /\ rows'[r.job].target = "linux_cron"
            BY <2>2, <4>2, <5>1, MatchingRows
          <5>3. r.job \in applied'[p]
            BY <4>2 DEF TypeOK
          <5> QED BY <5>2, <5>3 DEF InTab
        <4> QED BY <2>1, <4>1, <4>2
      <3> QED BY <2>2, <3>1, <3>2, <3>3, <3>4 DEF Progress, Generating
    <2> QED BY <1>7, <2>2, <2>3, <2>4 DEF Registering
  <1>11. ASSUME Generate(p) \/ Apply(p) \/ Regenerate(p) \/ Regenerated(p) PROVE DeployInv'
    <2>1. UNCHANGED <<rows, files, crontab, request, applied, solo>>
      BY <1>11 DEF Generate, Apply, Regenerate, Regenerated, ReadRows, plane
    <2>2. at[p] \in Registering /\ at'[p] \in Registering
      BY <1>11 DEF Generate, Apply, Regenerate, Regenerated, ReadRows, Registering, Generating, TypeOK
    <2>3. \A q \in Procs \ {p} : Kept(q)
      BY <1>11 DEF Generate, Apply, Regenerate, Regenerated, ReadRows, plane, TypeOK, HeldOK
    <2>4. ASSUME Progress(p) PROVE Progress(p)'
      <3>1. /\ Matching(p)' = Matching(p) /\ (Synced(p)' <=> Synced(p))
            /\ (Written(p)' <=> Written(p)) /\ (InTab(p)' <=> InTab(p))
        BY <2>1 DEF Matching, Synced, Written, InTab
      <3>2. CASE Generate(p)
        <4>1. at[p] = "sync" /\ at'[p] = "generate" /\ todo'[p] = Matching(p) /\ later[p] = {}
          BY <3>2 DEF Generate, ReadRows, TypeOK, HeldOK
        <4>2. Synced(p) /\ applied[p] = {}
          BY <2>4, <4>1 DEF Progress, Synced
        <4> QED BY <2>1, <3>1, <4>1, <4>2 DEF Progress
      <3>3. CASE Apply(p)
        <4>1. /\ at[p] = "generate" /\ at'[p] = "applying" /\ todo[p] = {}
              /\ later'[p] = Matching(p)
          BY <3>3 DEF Apply, ReadRows, TypeOK, HeldOK
        <4>2. Synced(p) /\ applied[p] = {} /\ Written(p)
          BY <2>4, <4>1 DEF Progress, Written, Registering, Generating
        <4> QED BY <2>1, <3>1, <4>1, <4>2 DEF Progress, Generating
      <3>4. CASE Regenerate(p)
        <4>1. /\ at[p] = "applying" /\ at'[p] = "regenerate" /\ todo'[p] = Matching(p)
              /\ later'[p] = later[p]
          BY <3>4 DEF Regenerate, ReadRows, TypeOK, HeldOK
        <4>2. Synced(p) /\ applied[p] = {} /\ later[p] \subseteq Matching(p)
          BY <2>4, <4>1 DEF Progress, Registering
        <4> QED BY <2>1, <3>1, <4>1, <4>2 DEF Progress
      <3>5. CASE Regenerated(p)
        <4>1. /\ at[p] = "regenerate" /\ at'[p] = "apply" /\ todo[p] = {} /\ later'[p] = later[p]
          BY <3>5 DEF Regenerated, ReadRows, TypeOK, HeldOK
        <4>2. Synced(p) /\ applied[p] = {} /\ later[p] \subseteq Matching(p) /\ Written(p)
          BY <2>4, <4>1 DEF Progress, Registering, Generating, Written
        <4> QED BY <2>1, <3>1, <4>1, <4>2 DEF Progress, Generating
      <3> QED BY <1>11, <3>2, <3>3, <3>4, <3>5
    <2> QED BY <1>7, <2>1, <2>2, <2>3, <2>4
  <1> QED BY <1>3, <1>4, <1>5, <1>6, <1>8, <1>9, <1>10, <1>11

-----------------------------------------------------------------------------
(* The theorems.                                                           *)

LEMMA InitInv == Init => PlaneInv
  <1> SUFFICES ASSUME Init PROVE PlaneInv
    OBVIOUS
  <1>1. TypeOK
    BY ControlAssumption, StoredRows DEF Init, TypeOK, NoRow
  <1>2. HeldOK
    BY DEF Init, HeldOK, Requests, NoRequest, Spellings, Daemonic
  <1>3. RowInv
    BY DEF Init, RowInv, NoRow, Daemonic
  <1>4. DeployInv
    BY DEF Init, DeployInv, AloneInv, Asked, NoRequest, Registering, Generating
  <1> QED BY <1>1, <1>2, <1>3, <1>4 DEF PlaneInv

LEMMA InvStep == PlaneInv /\ [Next]_vars => PlaneInv'
  BY TypesStep, RowStep, DeployStep DEF PlaneInv

\* What the rows, the files, the crontab, the runtime row and the processes hold
\* agrees in every state, for any number of daemons and registrations.
THEOREM PlaneInductive == Spec => []PlaneInv
  BY InitInv, InvStep, PTL DEF Spec

\* A row is only ever stored under its own job and a file at a path of its own
\* job, whatever processes sync, generate and crash in between.
THEOREM TypeCorrect == Spec => []TypeOK
  <1>1. PlaneInv => TypeOK
    BY DEF PlaneInv
  <1> QED BY <1>1, PlaneInductive, PTL

\* As long as daemons do not overlap, upsert_runtime, heartbeat_runtime and
\* mark_runtime_stopped leave a row that names the daemon that is up, and none
\* that is gone unless one crashed or failed to bind.
THEOREM RowTellsTruthHolds == Spec => []RowTellsTruth
  <1>1. PlaneInv => RowTellsTruth
    BY DEF PlaneInv, RowInv, RowTellsTruth, Up, Daemonic, RunningRow
  <1> QED BY <1>1, PlaneInductive, PTL

\* When an undisturbed register_jobs returns, its entries are the rows; unless its
\* target was spelled otherwise than rows spell it, their files are made from them;
\* and the crontab is the file of a job reported applied (register_jobs,
\* _filter_jobs, generate_artifacts, apply_artifacts).
THEOREM RegistrationTakesEffectHolds == Spec => []RegistrationTakesEffect
  <1>1. ASSUME PlaneInv, NEW p \in Procs, solo[p], Done(p)
        PROVE  /\ \A e \in request[p].entries :
                     /\ rows[e.job] = e
                     /\ request[p].target \in {Own} \cup Targets => files[Path(e)] = e
               /\ applied[p] # {} =>
                     \E j \in applied[p] : crontab = rows[j] /\ rows[j].target = "linux_cron"
    <2>1. at[p] \in Registering \ {"sync"}
      BY <1>1 DEF Done, Registering, Generating
    <2>2. Progress(p) /\ Asked(p) /\ HeldOK
      BY <1>1, <2>1 DEF PlaneInv, DeployInv
    <2>3. Synced(p) /\ Written(p)
      BY <1>1, <2>1, <2>2 DEF Progress, Done, Generating, Written
    <2>4. ASSUME NEW e \in request[p].entries, request[p].target \in {Own} \cup Targets
          PROVE  e \in Matching(p)
      <3>1. e \in Stored
        BY <2>2 DEF HeldOK, Requests
      <3>2. e.job \in Jobs /\ rows[e.job] = e /\ e # Missing
        BY <2>3, <3>1, StoredRows DEF Synced, Stored
      <3>3. request[p].job \in {All, e.job} /\ request[p].target \in {Own, e.target}
        BY <2>2, <2>4 DEF Asked
      <3> QED BY <3>2, <3>3 DEF Matching
    <2> QED BY <2>2, <2>3, <2>4 DEF Synced, Written, Progress, InTab
  <1>2. PlaneInv => RegistrationTakesEffect
    BY <1>1 DEF RegistrationTakesEffect
  <1> QED BY <1>2, PlaneInductive, PTL

=============================================================================
