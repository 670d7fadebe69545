--------------------------- MODULE CronControlPlane ---------------------------
(***************************************************************************)
(* What registers.cron persists besides events: fx_cron_jobs, which every  *)
(* daemon and every registration rewrites from its own copy of the project *)
(* code; the deployment files and the crontab made from it; and the        *)
(* fx_cron_runtime row, which tells whether a daemon runs.                 *)
(*                                                                         *)
(* Every transaction of a process is an action; processes interleave       *)
(* freely.  The revision of a job stands for everything its row and its    *)
(* files say about it.  The host is a Linux one.                           *)
(***************************************************************************)
EXTENDS Integers

CONSTANTS
    Procs,          \* processes on one project root
    Jobs,           \* the jobs the project may declare
    Rank,           \* job -> its place among them when they are handled one by one
    Given,          \* the targets that callers of register_jobs name
    Home,           \* job -> the target its decorator names
    DeploymentFile, \* job -> deployment_file, or NoFile for the default path
    NoFile,
    Serves,         \* the project has a webhook job, so that daemons need the port
    MaxStarts, MaxEdits, MaxFaults       \* bounds

Targets == {"linux_cron", "local_async"}
All == "all jobs"
Own == "own target"

\* What a caller may name as the target: nothing (Own: None or blank), a target
\* as VALID_TARGETS spells it or in capitals, "default", or "auto" (so are
\* "platform" and "persistent").
Spellings == Targets \cup {Own, "LINUX_CRON", "LOCAL_ASYNC", "default", "auto"}

Path(r) == IF DeploymentFile[r.job] = NoFile THEN <<r.job, r.target>> ELSE DeploymentFile[r.job]
Paths == {Path([job |-> j, target |-> t]) : j \in Jobs, t \in Targets}

\* No two jobs are configured to share a deployment file.
ASSUME ControlAssumption ==
    /\ Rank \in [Jobs -> Nat] /\ \A i, j \in Jobs : Rank[i] = Rank[j] => i = j
    /\ Given \subseteq Spellings /\ Home \in [Jobs -> Targets]
    /\ \A i, j \in Jobs, s, t \in Targets :
          Path([job |-> i, target |-> s]) = Path([job |-> j, target |-> t]) => i = j
    /\ Serves \in BOOLEAN /\ {MaxStarts, MaxEdits, MaxFaults} \subseteq Nat

VARIABLES
    code,      \* the project: revision of each declared job, 0 if not declared
    rows,      \* fx_cron_jobs
    files,     \* deployment files
    crontab,   \* the user's crontab
    runtime,   \* fx_cron_runtime: the row of this root
    at,        \* where each process is
    todo,      \* rows it still has to sync as it loads the project; then the rows
               \* to write files of
    later,     \* rows it still has to sync as it registers them; then those to apply
    seen,      \* what the get of a heartbeat or a stop returned
    request,   \* what it is at: kind, and of a registration job, target, entries, apply
    applied,   \* AdapterReport.applied
    solo,      \* observation: no other process synced or registered meanwhile
    together,  \* observation: two daemons have been up at one time
    starts, edits, faults

plane == <<code, rows, files, crontab, runtime>>
counters == <<starts, edits, faults>>
vars == <<plane, at, todo, later, seen, request, applied, solo, together, counters>>

Missing == [job |-> All, rev |-> 0, target |-> Own]
NoRow == [pid |-> All, status |-> "none"]
Unread == [job |-> All, rev |-> -1, target |-> Own]
NoRequest == [kind |-> "none", job |-> All, target |-> Own, entries |-> {}, apply |-> FALSE]

Generating == {"generate", "regenerate"}
Registering == Generating \cup {"sync", "applying", "apply"}
Daemonic == {"binding", "running", "beating", "stopping"}

Init ==
    /\ code = [j \in Jobs |-> 1]
    /\ rows = [j \in Jobs |-> Missing]
    /\ files = [x \in Paths |-> Missing] /\ crontab = Missing
    /\ runtime = NoRow
    /\ at = [p \in Procs |-> "idle"] /\ todo = [p \in Procs |-> {}]
    /\ later = [p \in Procs |-> {}]
    /\ seen = [p \in Procs |-> Unread]
    /\ request = [p \in Procs |-> NoRequest] /\ applied = [p \in Procs |-> {}]
    /\ solo = [p \in Procs |-> TRUE] /\ together = FALSE
    /\ starts = 0 /\ edits = 0 /\ faults = 0

\* Somebody changes a job of the project, adds it or removes it.
Edit(j) ==
    /\ edits < MaxEdits
    /\ \E rev \in {0, 2} : rev # code[j] /\ code' = [code EXCEPT ![j] = rev]
    /\ edits' = edits + 1
    /\ UNCHANGED <<rows, files, crontab, runtime, at, todo, later, seen, request, applied,
                   solo, together, starts, faults>>

-----------------------------------------------------------------------------
(* Syncing the registry to fx_cron_jobs.                                   *)

\* load_project_jobs: the registry is cleared and the modules of the project are
\* imported anew, so that it holds the jobs they declare now.
Declared == {j \in Jobs : code[j] # 0}

Entry(j, t) == [job |-> j, rev |-> code[j], target |-> IF t = Own THEN Home[j] ELSE t]

\* Sensitivity: registry.all keeps what the project no longer declares.
SelectedStale(j, t) == {Entry(n, t) : n \in {i \in Jobs : j \in {All, i}}}

\* The target that replaces that of an entry: in lower case, "default" being none.
Resolved(t) ==
    CASE t \in {Own, "default"} -> Own
      [] t \in {"auto", "LINUX_CRON", "linux_cron"} -> "linux_cron"
      [] t \in {"LOCAL_ASYNC", "local_async"} -> "local_async"

\* The target that the adapters are told: as it was given, but for "auto".
Literal(t) == IF t = "auto" THEN "linux_cron" ELSE t

\* _entries_for_registration: one job or all, with its target replaced.
Selected(j, t) == {Entry(n, t) : n \in {i \in Declared : j \in {All, i}}}

Begin(p, req, first) ==
    /\ at[p] = "idle" /\ starts < MaxStarts
    /\ at' = [at EXCEPT ![p] = "sync"]
    /\ todo' = [todo EXCEPT ![p] = first]
    /\ later' = [later EXCEPT ![p] = req.entries]
    /\ request' = [request EXCEPT ![p] = req]
    /\ applied' = [applied EXCEPT ![p] = {}]
    /\ LET others == {q \in Procs \ {p} : at[q] \in Registering} IN
       solo' = [q \in Procs |-> IF q = p THEN others = {} ELSE solo[q] /\ q \notin others]
    /\ starts' = starts + 1
    /\ UNCHANGED <<plane, seen, together, edits, faults>>

\* run_forever first loads the project and syncs all its jobs.
StartDaemon(p) ==
    Begin(p, [NoRequest EXCEPT !.kind = "daemon"], Selected(All, Own))

\* sync_project_jobs; and all that is left of a register_jobs that raises, for
\* its job or its target is unknown, in a process whose registry was empty.
LoadProject(p) ==
    Begin(p, [NoRequest EXCEPT !.kind = "load"], Selected(All, Own))

\* register_jobs; a process whose registry is empty loads the project and syncs
\* all its jobs before it syncs those it registers.
Register(p, j, t, apply) ==
    /\ j # All => j \in Declared
    /\ \E first \in {{}, Selected(All, Own)} :
          Begin(p, [kind |-> "register", job |-> j, target |-> Literal(t),
                    entries |-> Selected(j, Resolved(t)), apply |-> apply], first)

Abandon(p) ==
    /\ at' = [at EXCEPT ![p] = "idle"]
    /\ todo' = [todo EXCEPT ![p] = {}]
    /\ later' = [later EXCEPT ![p] = {}]
    /\ seen' = [seen EXCEPT ![p] = Unread]
    /\ request' = [request EXCEPT ![p] = NoRequest]
    /\ applied' = [applied EXCEPT ![p] = {}]
    /\ solo' = [solo EXCEPT ![p] = TRUE]

FirstOf(r, rest) == r \in rest /\ \A s \in rest : Rank[r.job] <= Rank[s.job]

TakesNow(p, r) ==
    /\ FirstOf(r, todo[p])
    /\ todo' = [todo EXCEPT ![p] = @ \ {r}] /\ UNCHANGED later

TakesLater(p, r) ==
    /\ todo[p] = {} /\ FirstOf(r, later[p])
    /\ later' = [later EXCEPT ![p] = @ \ {r}] /\ UNCHANGED todo

\* Sensitivity: an existing row keeps what it said.
SyncInsertOnly(p) ==
    /\ at[p] = "sync"
    /\ \E r \in todo[p] \cup later[p] :
          /\ TakesNow(p, r) \/ TakesLater(p, r)
          /\ rows' = IF rows[r.job] = Missing THEN [rows EXCEPT ![r.job] = r] ELSE rows
    /\ UNCHANGED <<code, files, crontab, runtime, at, seen, request, applied, solo, together, counters>>

\* sync_registry_to_state, one entry.  The get before the upsert only serves id
\* and created_at: an insert that meets a new row of the same job updates it.
SyncWrite(p) ==
    /\ at[p] = "sync"
    /\ \E r \in todo[p] \cup later[p] :
          /\ TakesNow(p, r) \/ TakesLater(p, r)
          /\ rows' = [rows EXCEPT ![r.job] = r]
    /\ UNCHANGED <<code, files, crontab, runtime, at, seen, request, applied, solo, together, counters>>

-----------------------------------------------------------------------------
(* Deployment: generate_artifacts and apply_artifacts.  Both read all rows *)
(* of the root, those of jobs the project no longer has included.          *)

\* _filter_jobs: the target of a row is compared with the one given as it stands.
Matching(p) ==
    {rows[n] : n \in {i \in Jobs : /\ rows[i] # Missing
                                  /\ request[p].job \in {All, i}
                                  /\ request[p].target \in {Own, rows[i].target}}}

ReadRows(p, from, to) ==
    /\ at[p] = from
    /\ at' = [at EXCEPT ![p] = to]
    /\ UNCHANGED <<plane, seen, request, applied, solo, together, counters>>

Generate(p) ==
    /\ todo[p] = {} /\ later[p] = {} /\ request[p].kind = "register"
    /\ ReadRows(p, "sync", "generate")
    /\ todo' = [todo EXCEPT ![p] = Matching(p)] /\ UNCHANGED later

WriteFile(p) ==
    /\ at[p] \in Generating
    /\ \E r \in todo[p] : TakesNow(p, r) /\ files' = [files EXCEPT ![Path(r)] = r]
    /\ UNCHANGED <<code, rows, crontab, runtime, at, seen, request, applied, solo, together, counters>>

Apply(p) ==
    /\ at[p] = "generate" /\ todo[p] = {} /\ request[p].apply
    /\ ReadRows(p, "generate", "applying")
    /\ later' = [later EXCEPT ![p] = Matching(p)] /\ UNCHANGED todo

\* apply_artifacts generates once more, from rows it reads again.
Regenerate(p) ==
    /\ ReadRows(p, "applying", "regenerate")
    /\ todo' = [todo EXCEPT ![p] = Matching(p)] /\ UNCHANGED later

Regenerated(p) ==
    /\ ReadRows(p, "regenerate", "apply")
    /\ todo[p] = {}
    /\ UNCHANGED <<todo, later>>

\* `crontab PATH` makes the file the whole crontab.  A job of another target
\* is skipped.  A command that fails, for one because the file is not there,
\* is an error of this job only.
ApplyOne(p) ==
    /\ at[p] = "apply"
    /\ \E r \in later[p] :
       /\ TakesLater(p, r)
       /\ \/ /\ r.target = "linux_cron"
             /\ files[Path(r)] # Missing
             /\ crontab' = files[Path(r)]
             /\ applied' = [applied EXCEPT ![p] = @ \cup {r.job}]
             /\ faults' = faults
          \/ /\ r.target = "linux_cron"
             /\ \/ faults < MaxFaults /\ faults' = faults + 1
                \/ files[Path(r)] = Missing /\ faults' = faults
             /\ UNCHANGED <<crontab, applied>>
          \/ r.target # "linux_cron" /\ UNCHANGED <<crontab, applied, faults>>
    /\ UNCHANGED <<code, rows, files, runtime, at, seen, request, solo, together, starts, edits>>

Done(p) ==
    \/ at[p] = "generate" /\ todo[p] = {} /\ ~request[p].apply
    \/ at[p] = "apply" /\ later[p] = {}

Loaded(p) == at[p] = "sync" /\ todo[p] = {} /\ later[p] = {} /\ request[p].kind = "load"

Report(p) ==
    /\ Done(p) \/ Loaded(p)
    /\ Abandon(p)
    /\ UNCHANGED <<plane, together, counters>>

-----------------------------------------------------------------------------
(* A daemon and its row.                                                   *)

DaemonStep(p, from, to) ==
    /\ at[p] = from /\ at' = [at EXCEPT ![p] = to]
    /\ UNCHANGED <<code, rows, files, crontab, todo, later, request, applied, solo, starts, edits>>

\* Sensitivity: the row keeps the pid it was created with.
ClaimKeepsPid(p) ==
    runtime' = [pid |-> IF runtime = NoRow THEN p ELSE runtime.pid, status |-> "running"]

Claim(p) == runtime' = [pid |-> p, status |-> "running"]

\* upsert_runtime
Upsert(p) ==
    /\ todo[p] = {} /\ later[p] = {} /\ request[p].kind = "daemon"
    /\ DaemonStep(p, "sync", "binding")
    /\ Claim(p)
    /\ together' = (together \/ \E q \in Procs : at[q] \in Daemonic)
    /\ UNCHANGED <<seen, faults>>

\* The server is closed before the row is marked stopped.
PortTaken == Serves /\ \E q \in Procs : at[q] \in {"running", "beating"}

Bind(p) ==
    /\ ~PortTaken
    /\ DaemonStep(p, "binding", "running")
    /\ UNCHANGED <<runtime, seen, together, faults>>

\* start_server raises before the try: nobody marks the row.
BindFails(p) ==
    /\ at[p] = "binding" /\ Serves
    /\ \/ PortTaken /\ faults' = faults
       \/ faults < MaxFaults /\ faults' = faults + 1
    /\ Abandon(p)
    /\ UNCHANGED <<plane, together, starts, edits>>

\* The heartbeat and the stop write the whole row that they got before.
ReadRow(p) == seen' = [seen EXCEPT ![p] = runtime] /\ UNCHANGED <<runtime, together, faults>>

\* heartbeat_runtime does not yield between its get and its upsert, so that the
\* daemon itself cannot stop in between; other processes run.
BeatRead(p) == DaemonStep(p, "running", "beating") /\ ReadRow(p)

BeatWrite(p) ==
    /\ DaemonStep(p, "beating", "running")
    /\ runtime' = seen[p]
    /\ seen' = [seen EXCEPT ![p] = Unread]
    /\ UNCHANGED <<together, faults>>

\* mark_runtime_stopped
StopRead(p) == DaemonStep(p, "running", "stopping") /\ ReadRow(p)

StopWrite(p) ==
    /\ at[p] = "stopping"
    /\ runtime' = [pid |-> seen[p].pid, status |-> "stopped"]
    /\ Abandon(p)
    /\ UNCHANGED <<code, rows, files, crontab, together, counters>>

\* Any process may be killed.
Crash(p) ==
    /\ at[p] # "idle" /\ faults < MaxFaults /\ faults' = faults + 1
    /\ Abandon(p)
    /\ UNCHANGED <<plane, together, starts, edits>>

-----------------------------------------------------------------------------
Next ==
    \/ \E j \in Jobs : Edit(j)
    \/ \E p \in Procs :
          \/ StartDaemon(p) \/ LoadProject(p)
          \/ \E j \in Jobs \cup {All}, t \in Given, apply \in BOOLEAN :
                Register(p, j, t, apply)
          \/ SyncWrite(p)
          \/ Generate(p) \/ WriteFile(p) \/ Apply(p) \/ Regenerate(p) \/ Regenerated(p)
          \/ ApplyOne(p) \/ Report(p)
          \/ Upsert(p) \/ Bind(p) \/ BindFails(p)
          \/ BeatRead(p) \/ BeatWrite(p) \/ StopRead(p) \/ StopWrite(p)
          \/ Crash(p)

Spec == Init /\ [][Next]_vars

-----------------------------------------------------------------------------
Rows == [job : Jobs, rev : {1, 2}, target : Targets] \cup {Missing}

\* Types of everything a process or the database holds; a row is only ever
\* stored under its own job, a deployment file only at a path of its own job.
TypeOK ==
    /\ code \in [Jobs -> 0 .. 2]
    /\ rows \in [Jobs -> Rows] /\ \A j \in Jobs : rows[j] = Missing \/ rows[j].job = j
    /\ files \in [Paths -> Rows] /\ \A x \in Paths : files[x] = Missing \/ Path(files[x]) = x
    /\ crontab \in Rows
    /\ runtime \in [pid : Procs, status : {"running", "stopped"}] \cup {NoRow}
    /\ at \in [Procs -> Registering \cup Daemonic \cup {"idle"}]
    /\ applied \in [Procs -> SUBSET Jobs]
    /\ starts \in 0 .. MaxStarts /\ edits \in 0 .. MaxEdits /\ faults \in 0 .. MaxFaults

Up(p) == at[p] \in {"binding", "running", "beating", "stopping"}

\* As long as daemons of one root do not run at one time, the row of
\* fx_cron_runtime that `fx-tool cron status` shows tells the truth: it says
\* running, with the pid of the daemon, while one is up (after upsert_runtime of
\* run_forever, through heartbeat_runtime and up to mark_runtime_stopped); and
\* without a crash or a failed bind it says so of no daemon that is gone.
RowTellsTruth ==
    ~together =>
        /\ \A p \in Procs : Up(p) => runtime = [pid |-> p, status |-> "running"]
        /\ faults = 0 /\ runtime.status = "running" => \E p \in Procs : Up(p)

\* When register_jobs of a process that no other one disturbed returns, every
\* entry it selected is in fx_cron_jobs as declared and with the target asked
\* for; if the target was given as rows spell it, or not at all, the deployment
\* file of the entry is made from that row; and where apply_artifacts reports jobs
\* applied, the crontab is the file of one of them, as it is now.
RegistrationTakesEffect ==
    \A p \in Procs : solo[p] /\ Done(p) =>
        /\ \A e \in request[p].entries :
              /\ rows[e.job] = e
              /\ request[p].target \in {Own} \cup Targets => files[Path(e)] = e
        /\ applied[p] # {} => \E j \in applied[p] : crontab = rows[j] /\ rows[j].target = "linux_cron"

=============================================================================
