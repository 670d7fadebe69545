------------------------------ MODULE DbStore ------------------------------
(***************************************************************************)
(* The write path of registers.db: manager calls of several clients on     *)
(* soft-deleting models, some of them versioned; the transactions that     *)
(* bind calls together; and the instances clients hold meanwhile.          *)
(*                                                                         *)
(* One statement is one action.  A database has one writer at a time,      *)
(* which keeps the lock until its transaction ends; others read what is    *)
(* committed.  The id of a write stands for the values it wrote.           *)
(***************************************************************************)
EXTENDS Integers, Sequences, FiniteSets, Functions

CONSTANTS
    Clients,
    Keys,           \* primary keys the clients use
    Versioned,      \* those of models with a version_field
    Url,            \* key -> database_url of its model
    Managers,       \* the database urls of one DatabaseRegistry, in its order
    Existing,       \* rows that are there when the clients start
    GivenVersions,  \* the versions callers give in creates and update_wheres
    LookupByKey,    \* get_or_create looks up the primary key, not unique_fields
    Nobody, NoKey,
    MaxWrites, MaxBlocks,    \* bounds: writes of each key, blocks entered
    MaxEffort, MaxFaults     \* bounds: writes and blocks together, faults

Databases == {Managers[i] : i \in 1 .. Len(Managers)}

ASSUME StoreAssumption ==
    /\ Versioned \subseteq Keys /\ Existing \subseteq Keys /\ Url \in [Keys -> Databases]
    /\ Managers \in Seq(Databases)
    /\ \A i, j \in 1 .. Len(Managers) : Managers[i] = Managers[j] => i = j
    /\ GivenVersions \subseteq Nat /\ LookupByKey \in BOOLEAN /\ Nobody \notin Clients /\ NoKey \notin Keys
    /\ MaxWrites \in [Keys -> Nat] /\ \A k \in Existing : MaxWrites[k] > 0
    /\ {MaxBlocks, MaxEffort, MaxFaults} \subseteq Nat

VARIABLES
    disk,      \* committed rows
    draft,     \* rows as the writer of their database sees them
    writer,    \* database -> the client whose transaction has written to it
    pending,   \* database -> writes of that transaction
    scopes,    \* client -> open transaction() blocks, each the urls it has opened
    inst,      \* client -> key -> the instance it holds
    call,      \* client -> the call it is in the middle of
    event,     \* observation: what the step has answered
    claims,    \* observation: key -> writes answered with "created"
    undone,    \* observation: writes rolled back
    gone,      \* observation: keys that have been deleted
    unit,      \* observation: client -> writes inside its outermost block
    torn,      \* observation: client -> a block of that unit ended on its own
    writes, blocks, faults

tables == <<disk, draft, writer, pending>>
history == <<claims, gone>>
vars == <<tables, scopes, inst, call, event, history, undone, unit, torn, writes, blocks, faults>>

\* ver: version_field.  by: the operation that wrote it.  epoch: the write its
\* versions count from, which has created the row or given it its version.
Absent == [wid |-> 0, ver |-> 0, deleted |-> FALSE, by |-> "nobody", epoch |-> 0]

\* wid: the write whose values it holds.  ver: the version stamped on it.
Unloaded == [wid |-> 0, ver |-> 0, deleted |-> FALSE]
Idle == [op |-> "none", keys |-> {}]
Silence == [key |-> NoKey, says |-> "none", met |-> Absent, basis |-> 0]

Effort == FoldFunction(+, 0, writes) + blocks

Fresh(k) == writes[k] + 1
Row(k, ver, deleted, by, epoch) ==
    [wid |-> Fresh(k), ver |-> IF k \in Versioned THEN ver ELSE 0,
     deleted |-> deleted, by |-> by, epoch |-> epoch]

Init ==
    /\ writes = [k \in Keys |-> IF k \in Existing THEN 1 ELSE 0]
    /\ disk = [k \in Keys |-> IF k \in Existing THEN [Row(k, 1, FALSE, "create", 1) EXCEPT !.wid = 1] ELSE Absent]
    /\ draft = disk
    /\ writer = [d \in Databases |-> Nobody] /\ pending = [d \in Databases |-> {}]
    /\ scopes = [c \in Clients |-> <<>>]
    /\ inst = [c \in Clients |-> [k \in Keys |-> Unloaded]]
    /\ call = [c \in Clients |-> Idle]
    /\ event = Silence /\ claims = [k \in Keys |-> {}]
    /\ undone = {} /\ gone = {}
    /\ unit = [c \in Clients |-> {}] /\ torn = [c \in Clients |-> FALSE]
    /\ blocks = 0 /\ faults = 0

-----------------------------------------------------------------------------
(* Connections: _connection_scope, _read_connection_scope.                 *)

Open(c) == UNION {Range(scopes[c][i]) : i \in 1 .. Len(scopes[c])}

View(c, k) == IF writer[Url[k]] = c THEN draft[k] ELSE disk[k]
Live(r) == r # Absent /\ ~r.deleted

\* _with_policy_criteria: deleted rows are left out unless include_deleted.
Finds(r, includeDeleted) == r # Absent /\ (includeDeleted \/ ~r.deleted)

\* A write waits for the lock of the database.  Inside a transaction of its
\* database it joins it, otherwise it commits on its own.
Write(c, k, row) ==
    LET d == Url[k]
        w == <<k, Fresh(k)>> IN
    /\ writer[d] \in {Nobody, c} /\ writes[k] < MaxWrites[k] /\ Effort < MaxEffort
    /\ writes' = [writes EXCEPT ![k] = @ + 1]
    /\ draft' = [draft EXCEPT ![k] = row]
    /\ IF d \in Open(c)
       THEN /\ writer' = [writer EXCEPT ![d] = c]
            /\ pending' = [pending EXCEPT ![d] = @ \cup {w}]
            /\ unit' = [unit EXCEPT ![c] = @ \cup {w}]
            /\ disk' = disk
       ELSE disk' = [disk EXCEPT ![k] = row] /\ UNCHANGED <<writer, pending, unit>>

\* _row_to_model.  Which write an unversioned row is of is not followed.
Hydrated(k, row) ==
    [wid |-> IF k \in Versioned THEN row.wid ELSE 0, ver |-> row.ver, deleted |-> row.deleted]

\* Sensitivity: a save leaves the stamp of the load.
StampOnce(c, k, row) ==
    inst' = [inst EXCEPT ![c][k] = IF @.wid = 0 THEN Hydrated(k, row)
                                   ELSE [Hydrated(k, row) EXCEPT !.ver = inst[c][k].ver]]

\* _stamp_identity
Stamp(c, k, row) == inst' = [inst EXCEPT ![c][k] = Hydrated(k, row)]

Says(k, says, met, basis) == event' = [key |-> k, says |-> says, met |-> met, basis |-> basis]
Silent == event' = Silence
Quiet == UNCHANGED <<scopes, undone, torn, blocks, faults>>

-----------------------------------------------------------------------------
(* transaction() of one manager, or of the registry.                       *)

\* A block opens a transaction on each of its urls that has none yet: these, by
\* their place in the order of opening.
Opening(c, urls) == [i \in {j \in 1 .. Len(urls) : urls[j] \notin Open(c)} |-> urls[i]]

Enter(c, urls) ==
    /\ call[c] = Idle /\ blocks < MaxBlocks /\ Effort < MaxEffort
    /\ blocks' = blocks + 1
    /\ scopes' = [scopes EXCEPT ![c] = Append(@, Opening(c, urls))]
    /\ Silent /\ UNCHANGED <<tables, inst, call, history, undone, unit, torn, writes, faults>>

Front(s) == SubSeq(s, 1, Len(s) - 1)
Top(c) == scopes[c][Len(scopes[c])]
SetTop(c, opened) == scopes' = [scopes EXCEPT ![c][Len(scopes[c])] = opened]
Closed(c) == DOMAIN Top(c) = {}
Exiting == [op |-> "exit", keys |-> {}]

\* Sensitivity: the connection is left open.
ReleaseNone(ds) ==
    /\ writer' = writer
    /\ pending' = [d \in Databases |-> IF d \in ds THEN {} ELSE pending[d]]

Release(ds) ==
    /\ writer' = [d \in Databases |-> IF d \in ds THEN Nobody ELSE writer[d]]
    /\ pending' = [d \in Databases |-> IF d \in ds THEN {} ELSE pending[d]]

\* Leaving a block that has opened nothing, or nothing more.
Leave(c) ==
    /\ call[c] \in {Idle, Exiting} /\ scopes[c] # <<>> /\ Closed(c)
    /\ scopes' = [scopes EXCEPT ![c] = Front(@)]
    /\ call' = [call EXCEPT ![c] = Idle]
    /\ IF Len(scopes[c]) = 1
       THEN unit' = [unit EXCEPT ![c] = {}] /\ torn' = [torn EXCEPT ![c] = FALSE]
       ELSE UNCHANGED <<unit, torn>>
    /\ Silent /\ UNCHANGED <<tables, inst, history, undone, writes, blocks, faults>>

\* The ExitStack commits what the block has opened in reverse order.  What an
\* inner block commits is committed on its own.
Commit(c) ==
    /\ call[c] \in {Idle, Exiting} /\ scopes[c] # <<>> /\ ~Closed(c)
    /\ \E last \in DOMAIN Top(c) :
          LET mine == {d \in {Top(c)[last]} : writer[d] = c} IN
          /\ \A i \in DOMAIN Top(c) : i <= last
          /\ Release(mine)
          /\ disk' = [k \in Keys |-> IF Url[k] \in mine THEN draft[k] ELSE disk[k]]
          /\ SetTop(c, Restrict(Top(c), DOMAIN Top(c) \ {last}))
    /\ call' = [call EXCEPT ![c] = Exiting]
    /\ torn' = [torn EXCEPT ![c] = @ \/ Len(scopes[c]) > 1]
    /\ Silent /\ UNCHANGED <<draft, inst, history, undone, unit, writes, blocks, faults>>

\* Sensitivity: the url a commit failed on is rolled back, the others are left.
RollbackOne(c) ==
    LET last == {i \in DOMAIN Top(c) : \A j \in DOMAIN Top(c) : j <= i}
        mine == {d \in {Top(c)[i] : i \in last} : writer[d] = c} IN
    /\ Release(mine)
    /\ draft' = [k \in Keys |-> IF Url[k] \in mine THEN disk[k] ELSE draft[k]]
    /\ undone' = undone \cup UNION {pending[d] : d \in mine}
    /\ disk' = [k \in Keys |-> IF writer[Url[k]] = c /\ Url[k] \notin mine THEN draft[k] ELSE disk[k]]

Rollback(c) ==
    LET mine == {d \in Range(Top(c)) : writer[d] = c} IN
    /\ Release(mine)
    /\ draft' = [k \in Keys |-> IF Url[k] \in mine THEN disk[k] ELSE draft[k]]
    /\ undone' = undone \cup UNION {pending[d] : d \in mine}
    /\ disk' = disk

\* The block raises, or one of its commits does: what it has opened and not
\* committed is rolled back.  The caller may go on in the block around it.
Raise(c) ==
    /\ scopes[c] # <<>> /\ ~Closed(c)
    /\ \/ call[c] = Idle /\ faults' = faults
       \/ call[c] = Exiting /\ faults < MaxFaults /\ faults' = faults + 1
    /\ Rollback(c)
    /\ SetTop(c, <<>>)
    /\ call' = [call EXCEPT ![c] = Exiting]
    /\ torn' = [torn EXCEPT ![c] = @ \/ call[c] = Exiting \/ Len(scopes[c]) > 1]
    /\ Silent /\ UNCHANGED <<inst, history, unit, writes, blocks>>

-----------------------------------------------------------------------------
(* Calls of one statement.                                                 *)

\* get, filter, refresh
Load(c, k, includeDeleted) ==
    /\ call[c] = Idle /\ Finds(View(c, k), includeDeleted)
    /\ Stamp(c, k, View(c, k))
    /\ Silent /\ UNCHANGED <<tables, scopes, call, history, undone, unit, torn, writes, blocks, faults>>

Update(c, k, row) ==
    /\ call[c] = Idle
    /\ Write(c, k, row)
    /\ Silent /\ Quiet /\ UNCHANGED <<inst, call, history>>

\* Sensitivity: a bulk update leaves the version.
UpdateWhereInPlace(c, k) ==
    /\ Finds(View(c, k), TRUE)
    /\ Update(c, k, Row(k, View(c, k).ver, View(c, k).deleted, "update", View(c, k).epoch))

\* update_where moves the version of what it finds, include_deleted or not; the
\* models it returns are not kept here.
UpdateWhere(c, k) ==
    /\ Finds(View(c, k), TRUE)
    /\ Update(c, k, Row(k, View(c, k).ver + 1, View(c, k).deleted, "update", View(c, k).epoch))

\* With the version field among the updates it is set as the caller says.
UpdateVersion(c, k, ver) ==
    /\ k \in Versioned /\ Finds(View(c, k), TRUE)
    /\ Update(c, k, Row(k, ver, View(c, k).deleted, "update", Fresh(k)))

Forget(k) == gone' = gone \cup {k} /\ claims' = [claims EXCEPT ![k] = {}]

\* delete: a get, for the hooks, and an update_where of live rows.
Delete(c, k) ==
    /\ call[c] = Idle /\ Live(View(c, k))
    /\ Write(c, k, Row(k, View(c, k).ver + 1, TRUE, "delete", View(c, k).epoch))
    /\ Forget(k)
    /\ Silent /\ Quiet /\ UNCHANGED <<inst, call>>

\* delete_where of a soft-deleting model: the version stays.
DeleteWhere(c, k) ==
    /\ call[c] = Idle /\ Live(View(c, k))
    /\ Write(c, k, Row(k, View(c, k).ver, TRUE, "delete_where", View(c, k).epoch))
    /\ Forget(k)
    /\ Silent /\ Quiet /\ UNCHANGED <<inst, call>>

Restore(c, k) ==
    /\ Finds(View(c, k), TRUE)
    /\ Update(c, k, Row(k, View(c, k).ver + 1, FALSE, "restore", View(c, k).epoch))

Erase(c, k) ==
    /\ Write(c, k, Absent)
    /\ Forget(k)
    /\ Silent /\ Quiet /\ UNCHANGED inst

HardDelete(c, k) ==
    /\ call[c] = Idle /\ Finds(View(c, k), TRUE)
    /\ Erase(c, k) /\ UNCHANGED call

\* _prepare_create_values: a row starts at version 1 unless the caller gives one.
FirstVersions == {1} \cup GivenVersions
Created(k, ver) == Row(k, ver, FALSE, "create", Fresh(k))

\* Sensitivity: the INSERT replaces a row it conflicts with.
InsertOver(c, k) ==
    \E ver \in FirstVersions : Write(c, k, Created(k, ver)) /\ Stamp(c, k, Created(k, ver))

Insert(c, k) ==
    /\ View(c, k) = Absent
    /\ \E ver \in FirstVersions : Write(c, k, Created(k, ver)) /\ Stamp(c, k, Created(k, ver))

Create(c, k) ==
    /\ call[c] = Idle
    /\ Insert(c, k)
    /\ Silent /\ Quiet /\ UNCHANGED <<call, history>>

\* INSERT ... ON CONFLICT DO UPDATE, on unique_fields while the key is not
\* generated; a dialect without it looks for the row under a lock first.
\* Neither looks at what it replaces.
Upserted(c, k, deleted) ==
    Row(k, 0, deleted, "save", IF View(c, k) = Absent THEN Fresh(k) ELSE View(c, k).epoch)

\* upsert of an instance without a version.
Upsert(c, k) ==
    /\ call[c] = Idle /\ k \notin Versioned
    /\ Write(c, k, Upserted(c, k, inst[c][k].deleted))
    /\ Stamp(c, k, Upserted(c, k, inst[c][k].deleted))
    /\ Silent /\ Quiet /\ UNCHANGED <<call, history>>

\* Sensitivity: the UPDATE names the key only.
MatchesKey(row, i) == row # Absent

Matches(row, i) == row # Absent /\ row.ver = i.ver

\* _versioned_upsert_with_conn of an instance that was loaded or saved before.
\* The values include deleted_at, so that a save can undo a soft delete.
Save(c, k) ==
    LET i == inst[c][k]
        row == Row(k, i.ver + 1, i.deleted, "save", View(c, k).epoch) IN
    /\ call[c] = Idle /\ k \in Versioned /\ i # Unloaded
    /\ Matches(View(c, k), i)
    /\ Write(c, k, row)
    /\ Stamp(c, k, row)
    /\ Says(k, "saved", View(c, k), i.wid)
    /\ Quiet /\ UNCHANGED <<call, history>>

StaleData(c, k) ==
    LET i == inst[c][k] IN
    /\ call[c] = Idle /\ k \in Versioned /\ i # Unloaded
    /\ ~Matches(View(c, k), i)
    /\ writer[Url[k]] \in {Nobody, c}
    /\ Says(k, IF View(c, k) = Absent THEN "row_deleted" ELSE "version_conflict", View(c, k), i.wid)
    /\ UNCHANGED <<tables, scopes, inst, call, history, undone, unit, torn, writes, blocks, faults>>

\* The instance is stamped before the audit row is written and the transaction
\* committed; when one of them fails nothing is saved and the stamp stays.
SaveFails(c, k) ==
    LET i == inst[c][k]
        row == Row(k, i.ver + 1, i.deleted, "save", View(c, k).epoch) IN
    /\ call[c] = Idle /\ k \in Versioned /\ i # Unloaded
    /\ Url[k] \notin Open(c) /\ writer[Url[k]] = Nobody
    /\ Matches(View(c, k), i)
    /\ faults < MaxFaults /\ faults' = faults + 1
    /\ writes[k] < MaxWrites[k] /\ Effort < MaxEffort /\ writes' = [writes EXCEPT ![k] = @ + 1]
    /\ Stamp(c, k, row)
    /\ undone' = undone \cup {<<k, row.wid>>}
    /\ Silent /\ UNCHANGED <<tables, scopes, call, history, unit, torn, blocks>>

-----------------------------------------------------------------------------
(* Calls of several statements.  A SELECT does not lock.                   *)

Start(c, op, keys) == call' = [call EXCEPT ![c] = [op |-> op, keys |-> keys]]

\* The loop of a call over its keys goes on, or was at its last one.
Proceed(c, k, end) ==
    IF call[c].keys = {k} THEN call' = [call EXCEPT ![c] = end]
                          ELSE Start(c, call[c].op, call[c].keys \ {k})

\* purge_deleted lists the deleted rows and hard_deletes them one by one.
Purge(c) ==
    /\ call[c] = Idle
    /\ \E keys \in {{k \in Keys : View(c, k).deleted /\ Url[k] = d} : d \in Databases} :
          keys # {} /\ Start(c, "purge", keys)
    /\ Silent /\ UNCHANGED <<tables, scopes, inst, history, undone, unit, torn, writes, blocks, faults>>

PurgeOne(c) ==
    /\ call[c].op = "purge"
    /\ \E k \in call[c].keys :
          /\ IF View(c, k) = Absent THEN Silent /\ Quiet /\ UNCHANGED <<tables, inst, history, unit, writes>>
             ELSE Erase(c, k)
          /\ Proceed(c, k, Idle)

\* get_or_create and update_or_create: a get, and a create if it finds nothing.
\* The update of what it finds is a Load and a Save or an Upsert.
Lookup(c, k) ==
    /\ call[c] = Idle /\ ~Finds(View(c, k), FALSE)
    /\ Start(c, "lookup", {k})
    /\ Silent /\ UNCHANGED <<tables, scopes, inst, history, undone, unit, torn, writes, blocks, faults>>

LookupCreates(c) ==
    /\ call[c].op = "lookup"
    /\ \E k \in call[c].keys :
          /\ Insert(c, k)
          /\ claims' = [claims EXCEPT ![k] = @ \cup {<<k, Fresh(k)>>}]
    /\ call' = [call EXCEPT ![c] = Idle]
    /\ Silent /\ Quiet /\ UNCHANGED gone

\* get_or_create catches the UniqueConstraintError of the insert, not the
\* DuplicateKeyError; update_or_create catches none.
LookupLoses(c) ==
    /\ call[c].op = "lookup"
    /\ \E k \in call[c].keys :
          /\ View(c, k) # Absent /\ writer[Url[k]] \in {Nobody, c}
          /\ \/ call' = [call EXCEPT ![c] = Idle] /\ Says(k, "duplicate", View(c, k), 0)
             \/ ~LookupByKey /\ Start(c, "require", {k}) /\ Silent
    /\ UNCHANGED <<tables, scopes, inst, history, undone, unit, torn, writes, blocks, faults>>

Require(c) ==
    /\ call[c].op = "require"
    /\ \E k \in call[c].keys :
          IF Finds(View(c, k), FALSE)
          THEN Stamp(c, k, View(c, k)) /\ Silent
          ELSE Says(k, "not found", View(c, k), 0) /\ UNCHANGED inst
    /\ call' = [call EXCEPT ![c] = Idle]
    /\ UNCHANGED <<tables, scopes, history, undone, unit, torn, writes, blocks, faults>>

-----------------------------------------------------------------------------
(* bulk_create and bulk_upsert: the records of one model in one scope,     *)
(* which joins the block around it or commits on its own.                  *)

Batch(insert, keys) == [op |-> IF insert THEN "bulk_create" ELSE "bulk_upsert", keys |-> keys]
Batching(c) == call[c].op \in {"bulk_create", "bulk_upsert"}

\* All keys of one database here stand for records of one model.
Bulk(c, insert, d) ==
    /\ call[c] = Idle /\ blocks < MaxBlocks /\ Effort < MaxEffort
    /\ blocks' = blocks + 1
    /\ scopes' = [scopes EXCEPT ![c] = Append(@, Opening(c, <<d>>))]
    /\ call' = [call EXCEPT ![c] = Batch(insert, {k \in Keys : Url[k] = d})]
    /\ Silent /\ UNCHANGED <<tables, inst, history, undone, unit, torn, writes, faults>>

\* bulk_upsert constructs its instances anew: one with a version is inserted.
Inserts(c, k) == call[c].op = "bulk_create" \/ k \in Versioned

BulkOne(c) ==
    /\ Batching(c)
    /\ \E k \in call[c].keys :
          /\ Inserts(c, k) => View(c, k) = Absent
          /\ \E row \in IF Inserts(c, k) THEN {Created(k, ver) : ver \in FirstVersions}
                                         ELSE {Upserted(c, k, FALSE)} : Write(c, k, row)
          /\ Proceed(c, k, Exiting)
    /\ Silent /\ Quiet /\ UNCHANGED <<inst, history>>

\* A duplicate key or an error rolls back a scope of its own; in a block
\* around it the records written so far stay with the block.
BulkFails(c) ==
    /\ Batching(c)
    /\ \/ /\ \E k \in call[c].keys : Inserts(c, k) /\ View(c, k) # Absent /\ writer[Url[k]] \in {Nobody, c}
          /\ faults' = faults
       \/ faults < MaxFaults /\ faults' = faults + 1
    /\ Rollback(c)
    /\ SetTop(c, <<>>)
    /\ call' = [call EXCEPT ![c] = Exiting]
    /\ torn' = [torn EXCEPT ![c] = @ \/ Len(scopes[c]) > 1]
    /\ Silent /\ UNCHANGED <<inst, history, unit, writes, blocks>>

-----------------------------------------------------------------------------
Next ==
    \E c \in Clients :
       \/ \E urls \in {Managers} \cup {<<d>> : d \in Databases} : Enter(c, urls)
       \/ Leave(c) \/ Commit(c) \/ Raise(c)
       \/ \E insert \in BOOLEAN, d \in Databases : Bulk(c, insert, d)
       \/ BulkOne(c) \/ BulkFails(c)
       \/ Purge(c) \/ PurgeOne(c)
       \/ LookupCreates(c) \/ LookupLoses(c) \/ Require(c)
       \/ \E k \in Keys :
             \/ \E includeDeleted \in BOOLEAN : Load(c, k, includeDeleted)
             \/ \E ver \in GivenVersions : UpdateVersion(c, k, ver)
             \/ Create(c, k) \/ UpdateWhere(c, k) \/ Delete(c, k) \/ Restore(c, k)
             \/ HardDelete(c, k) \/ DeleteWhere(c, k)
             \/ Save(c, k) \/ StaleData(c, k) \/ SaveFails(c, k) \/ Upsert(c, k)
             \/ Lookup(c, k)

Spec == Init /\ [][Next]_vars

-----------------------------------------------------------------------------
RowType == [wid : Nat, ver : Nat, deleted : BOOLEAN, epoch : Nat,
            by : {"nobody", "create", "update", "save", "delete", "delete_where", "restore"}]

WriteIds == Keys \X Nat
Blocks == UNION {[places -> Databases] : places \in SUBSET (1 .. Len(Managers))}
Ops == {"none", "exit", "purge", "lookup", "require", "bulk_create", "bulk_upsert"}

\* Types; and a row that its database's writer sees differently from the others
\* belongs to an open transaction, which is released when its block is left.
TypeOK ==
    /\ disk \in [Keys -> RowType] /\ draft \in [Keys -> RowType]
    /\ writer \in [Databases -> Clients \cup {Nobody}] /\ pending \in [Databases -> SUBSET WriteIds]
    /\ scopes \in [Clients -> Seq(Blocks)]
    /\ \A k \in Keys : draft[k] # disk[k] => writer[Url[k]] # Nobody
    /\ \A d \in Databases : writer[d] # Nobody => d \in Open(writer[d])
    /\ inst \in [Clients -> [Keys -> [wid : Nat, ver : Nat, deleted : BOOLEAN]]]
    /\ call \in [Clients -> [op : Ops, keys : SUBSET Keys]]
    /\ claims \in [Keys -> SUBSET WriteIds] /\ undone \subseteq WriteIds /\ gone \subseteq Keys
    /\ unit \in [Clients -> SUBSET WriteIds] /\ torn \in [Clients -> BOOLEAN]
    /\ writes \in [Keys -> Nat] /\ \A k \in Keys : writes[k] <= MaxWrites[k]
    /\ blocks \in 0 .. MaxBlocks /\ faults \in 0 .. MaxFaults

\* A versioned save that succeeds replaces the values its instance was loaded
\* with or last wrote, except in the cases that the compare-and-swap of
\* _versioned_upsert_with_conn cannot tell: delete_where has left the version,
\* the instance is stamped by a save that was rolled back, or the version has
\* been started anew since - the row was deleted and created again, or an
\* update_where has set the version its caller gave.
SaveSeesLatest ==
    event.says = "saved" =>
        \/ event.met.wid = event.basis
        \/ event.met.by = "delete_where"
        \/ <<event.key, event.basis>> \in undone
        \/ event.basis < event.met.epoch

\* "If another writer got there first, zero rows match and the save raises
\* StaleDataError instead of silently overwriting them" (db/USAGE.md:968): a
\* save that succeeds replaces the very values its instance holds.
NoLostUpdate == event.says = "saved" => event.met.wid = event.basis

\* StaleDataError is raised only of a row that has been written since the
\* instance was loaded or saved, unless that save was rolled back: the version
\* on the instance is moved by each save that _stamp_identity sees.
RefusalIsJustified ==
    event.says = "version_conflict" => event.met.wid # event.basis \/ <<event.key, event.basis>> \in undone

\* get_or_create lets one of several callers create a row, unless its
\* transaction was rolled back or the row deleted; and when it loses the race by
\* a unique field it finds the row of the winner, unless that was deleted.
LookupsAgree ==
    /\ event.says = "not found" => event.key \in gone
    /\ \A k \in Keys : Cardinality(claims[k] \ undone) <= 1

\* The writes inside a transaction block, of one manager or of a registry over
\* several urls, are all kept or all rolled back, unless one of its commits
\* fails after another, or an inner block has ended on its own; and committed
\* rows never come from a write that was rolled back.
AllOrNothing ==
    /\ \A c \in Clients : Len(scopes[c]) = 1 /\ Closed(c) /\ ~torn[c] =>
           unit[c] \subseteq undone \/ unit[c] \cap undone = {}
    /\ \A k \in Keys : <<k, disk[k].wid>> \notin undone

\* The version of a committed row moves with every change of it, so that
\* instances loaded before are refused: only delete_where leaves it, and only a
\* row deleted and created again, or an update_where that is given the version,
\* starts it anew.
VersionsMove ==
    [][\A k \in Versioned :
          disk'[k] # disk[k] /\ disk'[k].epoch = disk[k].epoch /\ disk'[k].by # "delete_where"
          => disk'[k].ver > disk[k].ver]_vars

============================================================================
