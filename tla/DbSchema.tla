------------------------------ MODULE DbSchema ------------------------------
(***************************************************************************)
(* Engines, tables and DDL of registers.db: threads of several processes   *)
(* register models on one database, rename and migrate its tables, and     *)
(* dispose of the engine.                                                  *)
(*                                                                         *)
(* A statement, and a section under a lock, is one action.  A table of the *)
(* database is its columns and the id of the CREATE that made it; a Table  *)
(* object of SQLAlchemy is its name, its columns and its own id.           *)
(***************************************************************************)
EXTENDS Integers, Sequences, FiniteSets

CONSTANTS
    Processes, Threads,
    Home,              \* thread -> its process
    Models,
    Columns,           \* model -> its columns
    TableName,         \* model -> table_name of its registration
    AutoCreate,        \* models registered with auto_create
    Imported,          \* the model every process has registered when it starts
    Names,             \* table names in use
    OldIds,            \* ids of tables of an earlier deployment are 1 .. OldIds
    Old,               \* those tables: name -> table, or NoTable
    MaxOps, MaxFaults  \* bounds: calls, and failures of the database or of a process

AllColumns == UNION {Columns[m] : m \in Models}

NoTable == [id |-> 0, cols |-> {}]

ASSUME SchemaAssumption ==
    /\ Home \in [Threads -> Processes]
    /\ Columns \in [Models -> SUBSET AllColumns \ {{}}]
    /\ TableName \in [Models -> Names] /\ AutoCreate \subseteq Models /\ Imported \in Models
    /\ {OldIds, MaxOps, MaxFaults} \subseteq Nat
    /\ Old \in [Names -> [id : 1 .. OldIds, cols : SUBSET AllColumns] \cup {NoTable}]
    /\ \A n, k \in Names : Old[n] # NoTable /\ Old[n].id = Old[k].id => n = k

VARIABLES
    live,      \* tables of the database
    ledger,    \* registers_schema_migrations: who recorded which column of which table
    contexts,  \* process -> the DatabaseContexts it has made
    cached,    \* process -> index of the one in _contexts, or 0
    engines,   \* process -> the engines it has made: whether dispose() was called
    engine,    \* process -> index of the one in _engines, or 0
    mgr,       \* process -> model -> its manager
    op,        \* thread -> the call it is in
    applied,   \* observation: columns added by migrate, as in ledger
    excused,   \* observation: those of them whose migrate raised, or could not record
    claimed,   \* observation: processes and ids of Table objects shared, kept by a
               \* manager whose new name was another's, or restored by one of several
               \* threads that renamed a manager at one time
    serial,    \* ids given out
    ops, faults

database == <<live, ledger, applied, excused>>
cache == <<contexts, cached, engines, engine>>
objects == <<mgr, serial, claimed>>
vars == <<database, cache, objects, op, ops, faults>>

NoObject == [name |-> "", cols |-> {}, id |-> 0]
NoManager == [ctx |-> 0, name |-> "", table |-> NoObject]
Idle == [at |-> "idle"]

Exists(n) == live[n] # NoTable
Proc(t) == Home[t]
Goto(t, record) == op' = [op EXCEPT ![t] = record]
Return(t) == Goto(t, Idle)

\* A call that may fail does so by the database, for no reason of its own.
Fails == faults < MaxFaults /\ faults' = faults + 1
Works == faults' = faults

Call(t) == op[t] = Idle /\ ops < MaxOps /\ ops' = ops + 1
Registered(t, m) == mgr[Proc(t)][m] # NoManager

NoObjects == [n \in Names |-> NoObject]

Init ==
    LET n == TableName[Imported]
        table == [name |-> n, cols |-> Columns[Imported], id |-> OldIds + 1]
        imported == [ctx |-> 1, name |-> n, table |-> table] IN
    /\ live = Old
    /\ ledger = {} /\ applied = {} /\ excused = {}
    /\ contexts = [p \in Processes |->
          <<[engine |-> 1, disposed |-> FALSE, tables |-> [NoObjects EXCEPT ![n] = table]]>>]
    /\ cached = [p \in Processes |-> 1]
    /\ engines = [p \in Processes |-> <<FALSE>>] /\ engine = [p \in Processes |-> 1]
    /\ mgr = [p \in Processes |-> [m \in Models |-> IF m = Imported THEN imported ELSE NoManager]]
    /\ op = [t \in Threads |-> Idle]
    /\ claimed = {} /\ serial = OldIds + 1 /\ ops = 0 /\ faults = 0

-----------------------------------------------------------------------------
(* The engine cache.                                                       *)

\* get_db_context, under _lock: the context shares the cached engine, if any.
GetContext(p) ==
    IF cached[p] # 0 THEN UNCHANGED cache
    ELSE LET e == IF engine[p] # 0 THEN engine[p] ELSE Len(engines[p]) + 1 IN
         /\ engines' = [engines EXCEPT ![p] = IF engine[p] # 0 THEN @ ELSE Append(@, FALSE)]
         /\ engine' = [engine EXCEPT ![p] = e]
         /\ contexts' = [contexts EXCEPT ![p] =
                Append(@, [engine |-> e, disposed |-> FALSE, tables |-> NoObjects])]
         /\ cached' = [cached EXCEPT ![p] = Len(contexts[p]) + 1]

MarkCached(p) ==
    contexts' = [contexts EXCEPT ![p] = [i \in DOMAIN @ |->
        IF i = cached[p] THEN [@[i] EXCEPT !.disposed = TRUE] ELSE @[i]]]

\* Sensitivity: the context stays in the cache.
EvictEngine(t) ==
    LET p == Proc(t) IN
    /\ MarkCached(p)
    /\ engine' = [engine EXCEPT ![p] = 0]
    /\ Goto(t, IF engine[p] = 0 THEN Idle ELSE [at |-> "close", engine |-> engine[p]])
    /\ UNCHANGED <<engines, cached>>

\* dispose_engine, under _lock.
Evict(t) ==
    LET p == Proc(t) IN
    /\ MarkCached(p)
    /\ cached' = [cached EXCEPT ![p] = 0]
    /\ engine' = [engine EXCEPT ![p] = 0]
    /\ Goto(t, IF engine[p] = 0 THEN Idle ELSE [at |-> "close", engine |-> engine[p]])
    /\ UNCHANGED engines

\* manager.dispose and registry.dispose_all are dispose_engine of their urls.
Dispose(t) ==
    /\ Call(t)
    /\ Evict(t)
    /\ UNCHANGED <<database, objects, faults>>

\* dispose_all marks every context and goes on to dispose_engine.
DisposeAll(t) ==
    LET p == Proc(t) IN
    /\ Call(t) /\ engine[p] # 0
    /\ MarkCached(p)
    /\ cached' = [cached EXCEPT ![p] = 0]
    /\ Goto(t, [at |-> "evict"])
    /\ UNCHANGED <<database, engines, engine, objects, faults>>

\* Sensitivity: dispose_all disposes of the engines it has listed itself.
DisposeNextItself(t) ==
    /\ op[t].at = "evict"
    /\ engine' = [engine EXCEPT ![Proc(t)] = 0]
    /\ Goto(t, IF engine[Proc(t)] = 0 THEN Idle ELSE [at |-> "close", engine |-> engine[Proc(t)]])
    /\ UNCHANGED <<database, contexts, cached, engines, objects, ops, faults>>

DisposeNext(t) ==
    /\ op[t].at = "evict"
    /\ Evict(t)
    /\ UNCHANGED <<database, objects, ops, faults>>

Close(t) ==
    /\ op[t].at = "close"
    /\ engines' = [engines EXCEPT ![Proc(t)][op[t].engine] = TRUE]
    /\ Return(t)
    /\ UNCHANGED <<database, contexts, cached, engine, objects, ops, faults>>

-----------------------------------------------------------------------------
(* Table objects of a context.                                             *)

Objects(p, i) == contexts[p][i].tables
Fresh(n, m) == [name |-> n, cols |-> Columns[m], id |-> serial + 1]

\* Sensitivity: who comes second takes the table as it is.
CompatibleAlways(known, n, m) == TRUE

\* _build_table: a table another model has built is shared if its columns agree.
Compatible(known, n, m) == known[n] = NoObject \/ known[n].cols = Columns[m]
Built(known, n, m) == IF known[n] = NoObject THEN Fresh(n, m) ELSE known[n]

\* Sensitivity: whatever has the name is removed.
DetachedByName(known, n, table) == [known EXCEPT ![n] = NoObject]

\* _detach_table_from_context
Detached(known, n, table) ==
    IF known[n] = table THEN [known EXCEPT ![n] = NoObject] ELSE known

SetObjects(p, i, known) ==
    /\ contexts' = [contexts EXCEPT ![p][i].tables = known]
    /\ UNCHANGED <<cached, engines, engine>>

\* Binds the manager to name n, after its old table has left the context.  When
\* the table of that name is not compatible, _table and _schema stay.
Bind(p, m, n) ==
    LET g == mgr[p][m]
        left == Detached(Objects(p, g.ctx), g.name, g.table) IN
    IF Compatible(left, n, m)
    THEN /\ SetObjects(p, g.ctx, [left EXCEPT ![n] = Built(left, n, m)])
         /\ claimed' = claimed \cup {<<p, left[n].id>>}
         /\ mgr' = [mgr EXCEPT ![p][m] = [g EXCEPT !.name = n, !.table = Built(left, n, m)]]
         /\ serial' = serial + 1
    ELSE /\ SetObjects(p, g.ctx, left)
         /\ claimed' = claimed \cup {<<p, g.table.id>>}
         /\ mgr' = [mgr EXCEPT ![p][m] = [g EXCEPT !.name = n]]
         /\ serial' = serial

Binds(p, m, n) ==
    LET g == mgr[p][m] IN Compatible(Detached(Objects(p, g.ctx), g.name, g.table), n, m)

-----------------------------------------------------------------------------
(* Registration and the creation of tables.                                *)

\* _ManagerBase.__init__ takes the context.  A class is decorated once.
Register(t, m) ==
    LET p == Proc(t) IN
    /\ Call(t) /\ ~Registered(t, m)
    /\ \A u \in Threads : Home[u] = p /\ op[u].at \in {"build", "check", "create"} => op[u].model # m
    /\ GetContext(p)
    /\ Goto(t, [at |-> "build", model |-> m,
                ctx |-> IF cached[p] # 0 THEN cached[p] ELSE Len(contexts[p]) + 1])
    /\ UNCHANGED <<database, objects, faults>>

Attach(p, m, ctx, table) ==
    mgr' = [mgr EXCEPT ![p][m] = [ctx |-> ctx, name |-> TableName[m], table |-> table]]

\* With auto_create it goes on to create every table of its context.
Build(t) ==
    LET p == Proc(t)
        m == op[t].model
        i == op[t].ctx
        there == Objects(p, i)
        n == TableName[m] IN
    /\ op[t].at = "build"
    /\ IF ~Compatible(there, n, m)
       THEN Return(t) /\ UNCHANGED <<cache, objects>>
       ELSE /\ SetObjects(p, i, [there EXCEPT ![n] = Built(there, n, m)])
            /\ serial' = serial + 1
            /\ claimed' = claimed \cup {<<p, there[n].id>>}
            /\ IF m \in AutoCreate
               THEN /\ Goto(t, [at |-> "check", model |-> m, ctx |-> i, attach |-> TRUE,
                                table |-> Built(there, n, m)])
                    /\ UNCHANGED mgr
               ELSE Attach(p, m, i, Built(there, n, m)) /\ Return(t)
    /\ UNCHANGED <<database, ops, faults>>

\* create_schema creates the table of its manager; registry.create_all those of
\* its context, after the ledger.
CreateSchema(t, m) ==
    /\ Call(t) /\ Registered(t, m)
    /\ \E all \in BOOLEAN :
          Goto(t, [at |-> "check", model |-> m, attach |-> FALSE, table |-> mgr[Proc(t)][m].table,
                   ctx |-> IF all THEN mgr[Proc(t)][m].ctx ELSE 0])
    /\ UNCHANGED <<database, cache, objects, faults>>

\* MetaData.create_all looks up which tables are missing, and then creates them.
CheckTables(t) ==
    LET o == op[t]
        known == IF o.ctx = 0 THEN {o.table}
                 ELSE {Objects(Proc(t), o.ctx)[n] : n \in Names} \ {NoObject} IN
    /\ op[t].at = "check"
    /\ Goto(t, [at |-> "create", model |-> o.model, ctx |-> o.ctx, attach |-> o.attach,
                table |-> o.table, todo |-> {x \in known : ~Exists(x.name)}])
    /\ UNCHANGED <<database, cache, objects, ops, faults>>

CreateTable(t, x) ==
    /\ op[t].at = "create" /\ x \in op[t].todo
    /\ IF Exists(x.name)
       THEN Return(t) /\ Works /\ UNCHANGED <<live, serial>>
       ELSE \/ /\ live' = [live EXCEPT ![x.name] = [id |-> serial + 1, cols |-> x.cols]]
               /\ serial' = serial + 1
               /\ Goto(t, [op[t] EXCEPT !.todo = @ \ {x}]) /\ Works
            \/ Return(t) /\ Fails /\ UNCHANGED <<live, serial>>
    /\ UNCHANGED <<ledger, applied, excused, cache, mgr, claimed, ops>>

Created(t) ==
    /\ op[t].at = "create" /\ op[t].todo = {}
    /\ IF op[t].attach THEN Attach(Proc(t), op[t].model, op[t].ctx, op[t].table) ELSE mgr' = mgr
    /\ Return(t)
    /\ UNCHANGED <<database, cache, serial, claimed, ops, faults>>

DropSchema(t, m) ==
    LET n == mgr[Proc(t)][m].table.name IN
    /\ Call(t) /\ Registered(t, m)
    /\ Exists(n)
    /\ live' = [live EXCEPT ![n] = NoTable]
    /\ UNCHANGED <<ledger, applied, excused, cache, objects, op, faults>>

-----------------------------------------------------------------------------
(* rename_table                                                            *)

\* While _restore_table_state has detached a manager's Table and not yet replaced it.
Restoring(t) == op[t].at \in {"reset", "rebuild", "assign"}
Renaming(t) ==
    op[t].at \in {"alter", "rebind", "verify", "rollback", "restore"} \/ Restoring(t)
Rivals(t, m) == {u \in Threads \ {t} : Home[u] = Proc(t) /\ Renaming(u) /\ op[u].model = m}

\* alone: no other thread of the process renames this manager meanwhile.
RenameTable(t, m, target) ==
    LET g == mgr[Proc(t)][m] IN
    /\ Call(t) /\ Registered(t, m)
    /\ target # g.name /\ ~Exists(target)
    /\ op' = [u \in Threads |->
          IF u = t THEN [at |-> "alter", model |-> m, from |-> g.name, target |-> target,
                         alone |-> Rivals(t, m) = {}, moved |-> FALSE, table |-> NoObject]
          ELSE IF u \in Rivals(t, m) THEN [op[u] EXCEPT !.alone = FALSE] ELSE op[u]]
    /\ UNCHANGED <<database, cache, objects, faults>>

Move(from, target) == live' = [live EXCEPT ![from] = NoTable, ![target] = live[from]]

\* SchemaManager.rename_table; an error is raised as a MigrationError.
Alter(t) ==
    LET n == mgr[Proc(t)][op[t].model].table.name IN
    /\ op[t].at = "alter"
    /\ \/ /\ Exists(n) /\ ~Exists(op[t].target)
          /\ Move(n, op[t].target)
          /\ Goto(t, [op[t] EXCEPT !.at = "rebind", !.moved = TRUE]) /\ Works
       \/ /\ IF Exists(n) /\ ~Exists(op[t].target) THEN Fails ELSE Works
          /\ Return(t) /\ live' = live
    /\ UNCHANGED <<ledger, applied, excused, cache, objects, ops>>

\* _rebind_table_state is one step for all who take the lock of the context; who
\* reads the metadata without it, as create_all does, may find neither Table meanwhile.
Rebind(t) ==
    LET p == Proc(t)
        m == op[t].model IN
    /\ op[t].at = "rebind"
    /\ Bind(p, m, op[t].target)
    /\ Goto(t, [op[t] EXCEPT !.at = IF Binds(p, m, op[t].target) THEN "verify" ELSE "rollback"])
    /\ UNCHANGED <<database, ops, faults>>

\* schema_exists looks for the table the manager is bound to now.
Verify(t) ==
    LET n == mgr[Proc(t)][op[t].model].table.name IN
    /\ op[t].at = "verify"
    /\ \/ Exists(n) /\ Return(t) /\ Works
       \/ /\ Goto(t, [op[t] EXCEPT !.at = "rollback"])
          /\ IF Exists(n) THEN Fails ELSE Works
    /\ UNCHANGED <<database, cache, objects, ops>>

Rollback(t) ==
    LET o == op[t] IN
    /\ o.at = "rollback"
    /\ \/ /\ Exists(o.target) /\ ~Exists(o.from)
          /\ Move(o.target, o.from)
          /\ Goto(t, [o EXCEPT !.at = "restore", !.moved = FALSE]) /\ Works
       \/ /\ IF Exists(o.target) /\ ~Exists(o.from) THEN Fails ELSE Works
          /\ Goto(t, [o EXCEPT !.at = "restore"])
          /\ live' = live
    /\ UNCHANGED <<ledger, applied, excused, cache, objects, ops>>

\* _restore_table_state, whether the rollback worked or not. It holds no lock but
\* that of _build_table: the Table is detached, the name is set back, a Table for the
\* name is built or found, and the manager takes it.
Restore(t) ==
    LET p == Proc(t)
        g == mgr[p][op[t].model] IN
    /\ op[t].at = "restore"
    /\ SetObjects(p, g.ctx, Detached(Objects(p, g.ctx), g.name, g.table))
    /\ Goto(t, [op[t] EXCEPT !.at = "reset"])
    /\ UNCHANGED <<database, objects, ops, faults>>

Reset(t) ==
    /\ op[t].at = "reset"
    /\ mgr' = [mgr EXCEPT ![Proc(t)][op[t].model].name = op[t].from]
    /\ Goto(t, [op[t] EXCEPT !.at = "rebuild"])
    /\ UNCHANGED <<database, cache, serial, claimed, ops, faults>>

\* It raises when the table of that name is not compatible: _table stays.
Rebuild(t) ==
    LET p == Proc(t)
        m == op[t].model
        g == mgr[p][m]
        there == Objects(p, g.ctx) IN
    /\ op[t].at = "rebuild"
    /\ IF Compatible(there, g.name, m)
       THEN /\ SetObjects(p, g.ctx, [there EXCEPT ![g.name] = Built(there, g.name, m)])
            /\ claimed' = claimed \cup {<<p, there[g.name].id>>}
            /\ serial' = serial + 1
            /\ Goto(t, [op[t] EXCEPT !.at = "assign", !.table = Built(there, g.name, m)])
       ELSE /\ claimed' = claimed \cup {<<p, g.table.id>>}
            /\ Return(t)
            /\ UNCHANGED <<cache, serial>>
    /\ UNCHANGED <<database, mgr, ops, faults>>

\* Sensitivity: the manager keeps its Table.
AssignNothing(t) ==
    /\ op[t].at = "assign"
    /\ Return(t)
    /\ UNCHANGED <<database, cache, objects, ops, faults>>

Assign(t) ==
    LET p == Proc(t) IN
    /\ op[t].at = "assign"
    /\ mgr' = [mgr EXCEPT ![p][op[t].model].table = op[t].table]
    /\ claimed' = claimed \cup IF op[t].alone THEN {} ELSE {<<p, op[t].table.id>>}
    /\ Return(t)
    /\ UNCHANGED <<database, cache, serial, ops, faults>>

-----------------------------------------------------------------------------
(* Added columns.                                                          *)

Table(t) == live[mgr[Proc(t)][op[t].model].table.name]

\* migrate reads the diff; of a missing table ensure_column raises.
MissingColumns(table) == table.cols \ live[table.name].cols

\* migrate has nothing to do without a difference; ensure_column raises at once
\* of a table that is not there.
Migrate(t, m) ==
    LET table == mgr[Proc(t)][m].table IN
    /\ Call(t) /\ Registered(t, m)
    /\ Exists(table.name) /\ MissingColumns(table) # {}
    /\ Goto(t, [at |-> "ensure", model |-> m, record |-> TRUE, added |-> {},
                todo |-> MissingColumns(table)])
    /\ UNCHANGED <<database, cache, objects, faults>>

\* A call of ensure_column or add_column itself records nothing.
EnsureColumn(t, m, c) ==
    /\ Call(t) /\ Registered(t, m)
    /\ Goto(t, [at |-> "ensure", model |-> m, record |-> FALSE, added |-> {}, todo |-> {c}])
    /\ UNCHANGED <<database, cache, objects, faults>>

\* What a migrate that raises has added stays, and stays out of the ledger.
Raise(t) == Return(t) /\ excused' = excused \cup op[t].added

\* Sensitivity: a column that is there counts as added.
EnsureReportsAll(t, c) ==
    /\ op[t].at = "ensure" /\ c \in op[t].todo
    /\ IF Table(t) = NoTable THEN Raise(t)
       ELSE /\ Goto(t, IF c \in Table(t).cols
                       THEN [op[t] EXCEPT !.todo = @ \ {c}, !.added = @ \cup {<<Table(t).id, c, t>>}]
                       ELSE [at |-> "add", model |-> op[t].model, record |-> op[t].record,
                             added |-> op[t].added, todo |-> op[t].todo, col |-> c])
            /\ UNCHANGED excused
    /\ UNCHANGED <<live, ledger, applied, cache, objects, ops, faults>>

\* ensure_column looks whether the column is there.
Ensure(t, c) ==
    /\ op[t].at = "ensure" /\ c \in op[t].todo
    /\ IF Table(t) = NoTable THEN Raise(t)
       ELSE /\ Goto(t, IF c \in Table(t).cols THEN [op[t] EXCEPT !.todo = @ \ {c}]
                       ELSE [at |-> "add", model |-> op[t].model, record |-> op[t].record,
                             added |-> op[t].added, todo |-> op[t].todo, col |-> c])
            /\ UNCHANGED excused
    /\ UNCHANGED <<live, ledger, applied, cache, objects, ops, faults>>

\* add_column looks again, and raises if the column has come meanwhile.
AddColumn(t) ==
    LET o == op[t]
        n == mgr[Proc(t)][o.model].table.name
        entry == <<live[n].id, o.col, t>> IN
    /\ o.at = "add"
    /\ \/ /\ Exists(n) /\ o.col \notin live[n].cols
          /\ live' = [live EXCEPT ![n].cols = @ \cup {o.col}]
          /\ applied' = IF o.record THEN applied \cup {entry} ELSE applied
          /\ Goto(t, [at |-> "ensure", model |-> o.model, record |-> o.record,
                      added |-> o.added \cup {entry}, todo |-> o.todo \ {o.col}])
          /\ Works /\ UNCHANGED excused
       \/ /\ IF Exists(n) /\ o.col \notin live[n].cols THEN Fails ELSE Works
          /\ Raise(t)
          /\ UNCHANGED <<live, applied>>
    /\ UNCHANGED <<ledger, cache, objects, ops>>

\* _record_migration; a failure is logged only.
Record(t) ==
    LET o == op[t] IN
    /\ o.at = "ensure" /\ o.todo = {}
    /\ \/ /\ ledger' = IF o.record THEN ledger \cup o.added ELSE ledger
          /\ Works /\ UNCHANGED excused
       \/ /\ o.record /\ o.added # {}
          /\ excused' = excused \cup o.added
          /\ Fails /\ UNCHANGED ledger
    /\ Return(t)
    /\ UNCHANGED <<live, applied, cache, objects, ops>>

-----------------------------------------------------------------------------
\* A process ends; it starts again with nothing.
Crash(p) ==
    /\ contexts[p] # <<>> /\ Fails
    /\ contexts' = [contexts EXCEPT ![p] = <<>>] /\ cached' = [cached EXCEPT ![p] = 0]
    /\ engines' = [engines EXCEPT ![p] = <<>>] /\ engine' = [engine EXCEPT ![p] = 0]
    /\ mgr' = [mgr EXCEPT ![p] = [m \in Models |-> NoManager]]
    /\ excused' = excused \cup UNION {op[t].added : t \in {u \in Threads : Home[u] = p /\ op[u].at \in {"ensure", "add"}}}
    /\ op' = [t \in Threads |-> IF Home[t] = p THEN Idle ELSE op[t]]
    /\ UNCHANGED <<live, ledger, applied, serial, claimed, ops>>

Next ==
    \/ \E p \in Processes : Crash(p)
    \/ \E t \in Threads :
          \/ Dispose(t) \/ DisposeAll(t) \/ DisposeNext(t) \/ Close(t)
          \/ Build(t) \/ CheckTables(t) \/ Created(t)
          \/ op[t].at = "create" /\ \E x \in op[t].todo : CreateTable(t, x)
          \/ Alter(t) \/ Rebind(t) \/ Verify(t) \/ Rollback(t)
          \/ Restore(t) \/ Reset(t) \/ Rebuild(t) \/ Assign(t)
          \/ AddColumn(t) \/ Record(t)
          \/ \E c \in AllColumns : Ensure(t, c)
          \/ \E m \in Models :
                \/ Register(t, m) \/ CreateSchema(t, m) \/ DropSchema(t, m) \/ Migrate(t, m)
                \/ \E n \in Names : RenameTable(t, m, n)
                \/ \E c \in Columns[m] : EnsureColumn(t, m, c)

Spec == Init /\ [][Next]_vars

-----------------------------------------------------------------------------
\* Types; and the cached context, which every new manager gets from
\* get_db_context, is not disposed and works on the cached engine.
TypeOK ==
    /\ live \in [Names -> [id : Nat, cols : SUBSET AllColumns]]
    /\ ledger \subseteq Nat \X AllColumns \X Threads
    /\ \A p \in Processes :
          /\ cached[p] \in 0 .. Len(contexts[p]) /\ engine[p] \in 0 .. Len(engines[p])
          /\ cached[p] # 0 => ~contexts[p][cached[p]].disposed /\ contexts[p][cached[p]].engine = engine[p]
          /\ \A m \in Models : mgr[p][m].ctx \in 0 .. Len(contexts[p])
    /\ ops \in 0 .. MaxOps /\ faults \in 0 .. MaxFaults

\* A manager never goes on silently after its engine was disposed: every context
\* on that engine is marked, which _connection_scope checks, although dispose_all
\* lets others take contexts between its two passes.
DisposedIsMarked ==
    \A p \in Processes : \A i \in 1 .. Len(contexts[p]) :
        engines[p][contexts[p][i].engine] => contexts[p][i].disposed

\* "Either the rename fully succeeds (DDL + in-memory rebinding), or the registry
\* remains bound to the original table" (schema_ops.py:77): when rename_table
\* ends the manager is bound to the name its ALTERs left the table with, and so
\* is its Table, unless its rollback failed or another model has claimed the
\* original name, which it reports, or another thread renamed the same manager
\* meanwhile.
RenameIsAtomic ==
    [][\A t \in Threads : LET o == op[t]
                              g == mgr'[Home[t]][o.model] IN
          /\ Renaming(t) /\ op'[t] = Idle /\ g # NoManager
          /\ o.alone /\ o.at # "rebuild" /\ (o.at = "assign" => ~o.moved)
          => /\ g.name = IF o.moved THEN o.target ELSE o.from
             /\ o.at # "alter" => g.table.name = g.name]_vars

\* The Table a manager writes through has the columns of its model, although
\* models share tables by name and rename_table moves Tables between names
\* (_build_table, _assert_compatible_with_existing_table, _rebind_table_state).
OwnColumns ==
    \A p \in Processes : \A m \in Models :
        mgr[p][m] # NoManager => mgr[p][m].table.cols = Columns[m]

\* The ledger tells who added which column: each at most once although several
\* migrate at one time, and none is missing but those whose migrate raised after
\* adding it or could not write the ledger (migrate, ensure_column,
\* _record_migration).
LedgerIsExact ==
    /\ ledger \subseteq applied
    /\ \A x, y \in ledger : x[1] = y[1] /\ x[2] = y[2] => x = y
    /\ \A x \in applied \ (ledger \cup excused) :
          op[x[3]].at \in {"ensure", "add"} /\ x \in op[x[3]].added

Unbound(p, m) == \E t \in Threads : Home[t] = p /\ Restoring(t) /\ op[t].model = m

Found(p, m) == LET g == mgr[p][m] IN contexts[p][g.ctx].tables[g.name] = g.table
Unclaimed(p, m) == mgr[p][m] # NoManager /\ <<p, mgr[p][m].table.id>> \notin claimed

\* Every manager's Table is in the metadata of its context, where create_all and
\* foreign keys find it whenever the lock of the context is free, unless it is shared
\* with one that moved it away; and but for the moment in which a rename that failed
\* is being undone, which takes no lock (_construct_table, _detach_table_from_context,
\* _rebind_table_state, _restore_table_state).
InMetadata ==
    \A p \in Processes : \A m \in Models : Unclaimed(p, m) /\ ~Unbound(p, m) => Found(p, m)

=============================================================================
