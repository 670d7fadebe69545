---------------------------- MODULE DbSchemaProofs ----------------------------
(***************************************************************************)
(* Proofs about DbSchema, for any number of processes, threads, models,    *)
(* table names, calls and failures.                                        *)
(***************************************************************************)
EXTENDS DbSchema, TLAPS

-----------------------------------------------------------------------------
(* The inductive invariants.                                               *)

Object == [name : Names, cols : SUBSET AllColumns, id : Nat \ {0}]
Context == [engine : Nat, disposed : BOOLEAN, tables : [Names -> Object \cup {NoObject}]]
Manager == [ctx : Nat \ {0}, name : Names, table : Object]
Entries == Nat \X AllColumns \X Threads

Renamings == {"alter", "rebind", "verify", "rollback", "restore", "reset", "rebuild", "assign"}

RenameOps == [at : Renamings, model : Models, from : Names, target : Names,
              alone : BOOLEAN, moved : BOOLEAN, table : Object \cup {NoObject}]

\* The calls a thread may be in.
Ops ==
    {Idle}
    \cup [at : {"close"}, engine : Nat]
    \cup [at : {"evict"}]
    \cup [at : {"build"}, model : Models, ctx : Nat]
    \cup [at : {"check"}, model : Models, attach : BOOLEAN, table : Object, ctx : Nat]
    \cup [at : {"create"}, model : Models, attach : BOOLEAN, table : Object, ctx : Nat,
          todo : SUBSET Object]
    \cup RenameOps
    \cup [at : {"ensure"}, model : Models, record : BOOLEAN, added : SUBSET Entries,
          todo : SUBSET AllColumns]
    \cup [at : {"add"}, model : Models, record : BOOLEAN, added : SUBSET Entries,
          todo : SUBSET AllColumns, col : AllColumns]

TypesInv ==
    /\ live \in [Names -> [id : Nat, cols : SUBSET AllColumns]]
    /\ ledger \subseteq Entries /\ applied \subseteq Entries /\ excused \subseteq Entries
    /\ contexts \in [Processes -> Seq(Context)] /\ cached \in [Processes -> Nat]
    /\ engines \in [Processes -> Seq(BOOLEAN)] /\ engine \in [Processes -> Nat]
    /\ mgr \in [Processes -> [Models -> Manager \cup {NoManager}]]
    /\ op \in [Threads -> Ops]
    /\ claimed \subseteq Processes \X Nat /\ serial \in Nat
    /\ ops \in 0 .. MaxOps /\ faults \in 0 .. MaxFaults

Has(p, m) == mgr[p][m] # NoManager

\* The context that is not disposed is the cached one, and it works on the cached
\* engine; that one is open, and a thread about to close an engine has another.
CacheAt(p) ==
    /\ cached[p] \in 0 .. Len(contexts[p]) /\ engine[p] \in 0 .. Len(engines[p])
    /\ engine[p] # 0 => ~engines[p][engine[p]]
    /\ \A i \in 1 .. Len(contexts[p]) :
          /\ contexts[p][i].engine \in 1 .. Len(engines[p])
          /\ contexts[p][i].disposed <=> i # cached[p]
          /\ i = cached[p] => contexts[p][i].engine = engine[p]
    /\ \A t \in Threads : Home[t] = p /\ op[t].at = "close" =>
          op[t].engine \in 1 .. Len(engines[p]) /\ op[t].engine # engine[p]

CacheInv == \A p \in Processes : CacheAt(p)

\* A thread that brings a new model, whose table it has built or is to build; and
\* one that has a Table for the manager it restores.
Attaching(t) == op[t].at \in {"check", "create"} /\ op[t].attach
Assigning(t) == op[t].at = "assign"
Holding(t) == Attaching(t) \/ Assigning(t)
Bringing(t) == op[t].at = "build" \/ Attaching(t)
Using(t) ==
    \/ op[t].at \in Renamings \cup {"ensure", "add"}
    \/ op[t].at \in {"check", "create"} /\ ~op[t].attach

\* Each call stands on its manager, each manager and each new table on a context.
UsesInv ==
    /\ \A p \in Processes, m \in Models :
          Has(p, m) => mgr[p][m].ctx \in 1 .. Len(contexts[p])
    /\ \A t \in Threads :
          /\ Using(t) => Has(Home[t], op[t].model)
          /\ Bringing(t) =>
                /\ ~Has(Home[t], op[t].model)
                /\ op[t].ctx \in 1 .. Len(contexts[Home[t]])
                /\ \A u \in Threads : Home[u] = Home[t] /\ Bringing(u) /\ op[u].model = op[t].model
                      => u = t
          /\ op[t].at \in {"check", "create"} => op[t].ctx \in 0 .. Len(contexts[Home[t]])

\* Whoever holds a Table holds one with the columns of its model.
ColumnsInv ==
    /\ \A p \in Processes, m \in Models : Has(p, m) => mgr[p][m].table.cols = Columns[m]
    /\ \A t \in Threads : Holding(t) =>
          op[t].table \in Object /\ op[t].table.cols = Columns[op[t].model]

\* Objects in the metadata of a process have ids of their own, and are found by
\* their names.
SlotsInv ==
    \A p \in Processes : \A i, j \in 1 .. Len(contexts[p]) : \A n, k \in Names :
        Objects(p, i)[n] # NoObject =>
            /\ Objects(p, i)[n].name = n /\ Objects(p, i)[n].id <= serial
            /\ Objects(p, i)[n].id = Objects(p, j)[k].id => i = j /\ n = k

Shared(p, table) == <<p, table.id>> \in claimed

\* A Table that nobody shares has one holder, and is where that one looks for it
\* unless it is being restored.
HoldersInv ==
    /\ \A p \in Processes, m \in Models : Has(p, m) =>
          LET g == mgr[p][m] IN
          /\ g.table.id <= serial
          /\ ~Shared(p, g.table) /\ ~Unbound(p, m) => Objects(p, g.ctx)[g.name] = g.table
          /\ \A k \in Models :
                Has(p, k) /\ mgr[p][k].table.id = g.table.id /\ k # m => Shared(p, g.table)
    /\ \A t \in Threads : Attaching(t) =>
          LET p == Home[t]
              table == op[t].table IN
          /\ table.id <= serial
          /\ ~Shared(p, table) => Objects(p, op[t].ctx)[TableName[op[t].model]] = table
          /\ \A m \in Models : Has(p, m) /\ mgr[p][m].table.id = table.id => Shared(p, table)
          /\ \A u \in Threads :
                Attaching(u) /\ Home[u] = p /\ op[u].table.id = table.id /\ u # t
                => Shared(p, table)

\* Nobody but thread t holds the Table it has for the manager it restores, and the
\* manager will find it there.
Assigned(t) ==
    LET p == Home[t]
        table == op[t].table
        g == mgr[p][op[t].model] IN
    /\ table.id <= serial
    /\ op[t].alone /\ ~Shared(p, table) => Objects(p, g.ctx)[g.name] = table
    /\ \A m \in Models : Has(p, m) /\ mgr[p][m].table.id = table.id => Shared(p, table)
    /\ \A u \in Threads :
          Holding(u) /\ Home[u] = p /\ op[u].table.id = table.id /\ u # t => Shared(p, table)

AssignedInv == \A t \in Threads : Assigning(t) => Assigned(t)

\* Where a thread with call o that alone renames manager g stands.
Stands(o, g) ==
    /\ o.at = "alter" => g.name = o.from /\ ~o.moved
    /\ o.at \in {"rebind", "verify"} => o.moved
    /\ o.at = "verify" => g.name = o.target /\ g.table.name = o.target
    /\ o.at \in {"rebuild", "assign"} => g.name = o.from
    /\ o.at = "assign" => o.table.name = o.from

AloneInv ==
    \A t \in Threads : Renaming(t) /\ op[t].alone =>
        /\ \A u \in Threads : Home[u] = Home[t] /\ Renaming(u) /\ op[u].model = op[t].model => u = t
        /\ Stands(op[t], mgr[Home[t]][op[t].model])

Adds(t) == op[t].at \in {"ensure", "add"}

\* Tables keep the columns that were added to them; each was added once, and is in
\* the ledger, excused, or with the migrate that added it.
LedgerInv ==
    /\ \A n \in Names : live[n].id <= serial
    /\ \A n, k \in Names : live[n] # NoTable /\ live[n].id = live[k].id => n = k
    /\ \A n \in Names : live[n].id = 0 => live[n] = NoTable
    /\ \A x \in applied :
          /\ x[1] \in 1 .. serial
          /\ \A n \in Names : live[n].id = x[1] => x[2] \in live[n].cols
          /\ \A y \in applied : x[1] = y[1] /\ x[2] = y[2] => x = y
          /\ x \in ledger \cup excused \/ (Adds(x[3]) /\ x \in op[x[3]].added)
    /\ \A t \in Threads : Adds(t) =>
          /\ \A x \in op[t].added : x[3] = t
          /\ op[t].record => op[t].added \subseteq applied
          /\ ~op[t].record => op[t].added \cap applied = {}
    /\ ledger \subseteq applied

SchemaInv ==
    /\ TypesInv /\ CacheInv /\ UsesInv /\ ColumnsInv
    /\ SlotsInv /\ HoldersInv /\ AssignedInv /\ AloneInv /\ LedgerInv

-----------------------------------------------------------------------------
(* Operations.                                                             *)

\* What is known of the call of a thread, by where it is.
LEMMA OpFields ==
  ASSUME TypesInv, NEW t \in Threads
  PROVE  /\ op[t].at = "close" => op[t] \in [at : {"close"}, engine : Nat]
         /\ op[t].at = "build" => op[t] \in [at : {"build"}, model : Models, ctx : Nat]
         /\ op[t].at = "check" =>
               op[t] \in [at : {"check"}, model : Models, attach : BOOLEAN, table : Object, ctx : Nat]
         /\ op[t].at = "create" =>
               op[t] \in [at : {"create"}, model : Models, attach : BOOLEAN, table : Object,
                          ctx : Nat, todo : SUBSET Object]
         /\ op[t].at \in Renamings => op[t] \in RenameOps
         /\ op[t].at = "ensure" =>
               op[t] \in [at : {"ensure"}, model : Models, record : BOOLEAN,
                          added : SUBSET Entries, todo : SUBSET AllColumns]
         /\ op[t].at = "add" =>
               op[t] \in [at : {"add"}, model : Models, record : BOOLEAN,
                          added : SUBSET Entries, todo : SUBSET AllColumns, col : AllColumns]
  <1>1. op[t] \in Ops
    BY DEF TypesInv
  <1> QED BY <1>1 DEF Ops, Idle, Renamings, RenameOps

LEMMA OpModel ==
  ASSUME TypesInv, NEW t \in Threads
  PROVE  /\ op[t].at \in {"build", "check", "create", "ensure", "add"} \cup Renamings
               => op[t].model \in Models
         /\ op[t].at \in {"build", "check", "create"} => op[t].ctx \in Nat
         /\ op[t].at \in {"check", "create"} => op[t].attach \in BOOLEAN /\ op[t].table \in Object
         /\ op[t].at \in {"ensure", "add"} =>
               op[t].added \subseteq Entries /\ op[t].record \in BOOLEAN
  BY OpFields DEF RenameOps

\* A call moves on.
LEMMA GotoOp ==
  ASSUME TypesInv, NEW t \in Threads, NEW rec \in Ops, Goto(t, rec)
  PROVE  /\ op' \in [Threads -> Ops] /\ op'[t] = rec
         /\ \A u \in Threads \ {t} : op'[u] = op[u]
  <1> HIDE DEF Ops
  <1> QED BY DEF TypesInv, Goto

LEMMA ReturnOp ==
  ASSUME TypesInv, NEW t \in Threads, Return(t)
  PROVE  /\ op' \in [Threads -> Ops] /\ op'[t] = Idle
         /\ \A u \in Threads \ {t} : op'[u] = op[u]
  <1>1. Idle \in Ops
    BY DEF Ops
  <1> QED BY <1>1, GotoOp DEF Return

LEMMA ColumnsType == \A m \in Models : Columns[m] \subseteq AllColumns
  BY DEF AllColumns

LEMMA HomeType == \A t \in Threads : Home[t] \in Processes
  BY SchemaAssumption

LEMMA ManagerType ==
  ASSUME TypesInv, NEW p \in Processes, NEW m \in Models, Has(p, m)
  PROVE  /\ mgr[p][m] \in Manager
         /\ mgr[p][m].name \in Names /\ mgr[p][m].table \in Object
         /\ mgr[p][m].ctx \in Nat \ {0}
  BY DEF TypesInv, Has, Manager

LEMMA ContextType ==
  ASSUME TypesInv, NEW p \in Processes, NEW i \in 1 .. Len(contexts[p])
  PROVE  /\ contexts[p][i] \in Context
         /\ Objects(p, i) \in [Names -> Object \cup {NoObject}]
  <1>1. contexts[p] \in Seq(Context)
    BY DEF TypesInv
  <1>2. contexts[p][i] \in Context
    BY <1>1
  <1> QED BY <1>2 DEF Objects, Context

LEMMA LenType ==
  ASSUME TypesInv, NEW p \in Processes
  PROVE  Len(contexts[p]) \in Nat /\ Len(engines[p]) \in Nat
  BY DEF TypesInv

LEMMA NoObjectsType == NoObjects \in [Names -> Object \cup {NoObject}]
  BY DEF NoObjects

-----------------------------------------------------------------------------
(* What the operators of the cache do to the contexts.                     *)

LEMMA AppendDoes ==
  ASSUME NEW S, NEW s \in Seq(S), NEW x \in S
  PROVE  /\ Append(s, x) \in Seq(S) /\ Len(Append(s, x)) = Len(s) + 1
         /\ \A i \in 1 .. Len(s) : Append(s, x)[i] = s[i]
         /\ Append(s, x)[Len(s) + 1] = x
  OBVIOUS

CacheTypes ==
    /\ contexts \in [Processes -> Seq(Context)] /\ cached \in [Processes -> Nat]
    /\ engines \in [Processes -> Seq(BOOLEAN)] /\ engine \in [Processes -> Nat]

LEMMA GetContextDoes ==
  ASSUME TypesInv, CacheInv, NEW p \in Processes, GetContext(p)
  PROVE  /\ CacheTypes'
         /\ \A q \in Processes \ {p} :
               /\ contexts'[q] = contexts[q] /\ cached'[q] = cached[q]
               /\ engines'[q] = engines[q] /\ engine'[q] = engine[q]
         /\ \/ cached[p] # 0 /\ UNCHANGED cache
            \/ /\ cached[p] = 0
               /\ Len(contexts'[p]) = Len(contexts[p]) + 1
               /\ cached'[p] = Len(contexts[p]) + 1
               /\ \A i \in 1 .. Len(contexts[p]) : contexts'[p][i] = contexts[p][i]
               /\ contexts'[p][Len(contexts[p]) + 1] =
                     [engine |-> engine'[p], disposed |-> FALSE, tables |-> NoObjects]
               /\ engine'[p] # 0
               /\ \/ engine[p] # 0 /\ engine'[p] = engine[p] /\ engines'[p] = engines[p]
                  \/ /\ engine[p] = 0 /\ engine'[p] = Len(engines[p]) + 1
                     /\ Len(engines'[p]) = Len(engines[p]) + 1
                     /\ \A i \in 1 .. Len(engines[p]) : engines'[p][i] = engines[p][i]
                     /\ engines'[p][Len(engines[p]) + 1] = FALSE
  <1>1. CASE cached[p] # 0
    BY <1>1 DEF GetContext, TypesInv, CacheTypes, cache
  <1>2. CASE cached[p] = 0
    <2> DEFINE e == IF engine[p] # 0 THEN engine[p] ELSE Len(engines[p]) + 1
               new == [engine |-> e, disposed |-> FALSE, tables |-> NoObjects]
    <2>1. /\ engines' = [engines EXCEPT ![p] = IF engine[p] # 0 THEN @ ELSE Append(@, FALSE)]
          /\ engine' = [engine EXCEPT ![p] = e]
          /\ contexts' = [contexts EXCEPT ![p] = Append(@, new)]
          /\ cached' = [cached EXCEPT ![p] = Len(contexts[p]) + 1]
      BY <1>2 DEF GetContext
    <2>2. contexts[p] \in Seq(Context) /\ engines[p] \in Seq(BOOLEAN) /\ engine[p] \in Nat
      BY DEF TypesInv
    <2>3. e \in Nat /\ e # 0
      BY <2>2
    <2>4. new \in Context
      BY <2>3, NoObjectsType DEF Context
    <2> HIDE DEF new, e
    <2>5. /\ Append(contexts[p], new) \in Seq(Context)
          /\ Len(Append(contexts[p], new)) = Len(contexts[p]) + 1
          /\ \A i \in 1 .. Len(contexts[p]) : Append(contexts[p], new)[i] = contexts[p][i]
          /\ Append(contexts[p], new)[Len(contexts[p]) + 1] = new
      BY <2>2, <2>4, AppendDoes
    <2>6. /\ Append(engines[p], FALSE) \in Seq(BOOLEAN)
          /\ Len(Append(engines[p], FALSE)) = Len(engines[p]) + 1
          /\ \A i \in 1 .. Len(engines[p]) : Append(engines[p], FALSE)[i] = engines[p][i]
          /\ Append(engines[p], FALSE)[Len(engines[p]) + 1] = FALSE
      <3>1. FALSE \in BOOLEAN /\ engines[p] \in Seq(BOOLEAN)
        BY <2>2
      <3> DEFINE B == BOOLEAN
                 f == FALSE
      <3>2. f \in B /\ engines[p] \in Seq(B)
        BY <3>1
      <3> HIDE DEF B, f
      <3>3. /\ Append(engines[p], f) \in Seq(B)
            /\ Len(Append(engines[p], f)) = Len(engines[p]) + 1
            /\ \A i \in 1 .. Len(engines[p]) : Append(engines[p], f)[i] = engines[p][i]
            /\ Append(engines[p], f)[Len(engines[p]) + 1] = f
        BY <3>2, AppendDoes
      <3> QED BY <3>3, Zenon DEF B, f
    <2>7. contexts'[p] = Append(contexts[p], new) /\ engine'[p] = e
      BY <2>1 DEF TypesInv
    <2>8. engines'[p] = IF engine[p] # 0 THEN engines[p] ELSE Append(engines[p], FALSE)
      BY <2>1 DEF TypesInv
    <2>9. CacheTypes'
      <3>1. engines'[p] \in Seq(BOOLEAN)
        BY <2>2, <2>6, <2>8
      <3>2. engines' \in [Processes -> Seq(BOOLEAN)]
        BY <2>1, <2>8, <3>1 DEF TypesInv
      <3>3. contexts' \in [Processes -> Seq(Context)]
        BY <2>1, <2>5 DEF TypesInv
      <3>4. cached' \in [Processes -> Nat] /\ engine' \in [Processes -> Nat]
        <4>1. Len(contexts[p]) + 1 \in Nat
          BY LenType
        <4>2. cached \in [Processes -> Nat] /\ engine \in [Processes -> Nat]
          BY DEF TypesInv
        <4> QED BY <2>1, <2>3, <4>1, <4>2, Zenon
      <3> QED BY <3>2, <3>3, <3>4 DEF CacheTypes
    <2>10. \A q \in Processes \ {p} :
               /\ contexts'[q] = contexts[q] /\ cached'[q] = cached[q]
               /\ engines'[q] = engines[q] /\ engine'[q] = engine[q]
      BY <2>1 DEF TypesInv
    <2>11. cached'[p] = Len(contexts[p]) + 1
      BY <2>1 DEF TypesInv
    <2>12. new = [engine |-> engine'[p], disposed |-> FALSE, tables |-> NoObjects]
      BY <2>7 DEF new
    <2>13. e = IF engine[p] # 0 THEN engine[p] ELSE Len(engines[p]) + 1
      BY DEF e
    <2> HIDE DEF CacheTypes
    <2> QED BY <1>2, <2>3, <2>5, <2>6, <2>7, <2>8, <2>9, <2>10, <2>11, <2>12, <2>13
  <1> QED BY <1>1, <1>2

LEMMA MarkCachedDoes ==
  ASSUME TypesInv, NEW p \in Processes, MarkCached(p)
  PROVE  /\ contexts' \in [Processes -> Seq(Context)]
         /\ \A q \in Processes \ {p} : contexts'[q] = contexts[q]
         /\ Len(contexts'[p]) = Len(contexts[p])
         /\ \A i \in 1 .. Len(contexts[p]) :
               /\ contexts'[p][i].tables = contexts[p][i].tables
               /\ contexts'[p][i].engine = contexts[p][i].engine
               /\ contexts'[p][i].disposed <=> (contexts[p][i].disposed \/ i = cached[p])
  <1> DEFINE old == contexts[p]
             new == [i \in DOMAIN old |->
                        IF i = cached[p] THEN [old[i] EXCEPT !.disposed = TRUE] ELSE old[i]]
  <1>1. contexts' = [contexts EXCEPT ![p] = new]
    BY DEF MarkCached
  <1>2. old \in Seq(Context)
    BY DEF TypesInv
  <1>3. DOMAIN old = 1 .. Len(old) /\ Len(old) \in Nat
    BY <1>2
  <1>4. \A i \in 1 .. Len(old) : old[i] \in Context
    BY <1>2
  <1>5. \A i \in 1 .. Len(old) : [old[i] EXCEPT !.disposed = TRUE] \in Context
    BY <1>4 DEF Context
  <1>6. new \in [1 .. Len(old) -> Context]
    BY <1>3, <1>4, <1>5
  <1>7. new \in Seq(Context) /\ Len(new) = Len(old)
    BY <1>3, <1>6
  <1>8. \A i \in 1 .. Len(old) :
            /\ new[i].tables = old[i].tables /\ new[i].engine = old[i].engine
            /\ new[i].disposed <=> (old[i].disposed \/ i = cached[p])
    BY <1>3, <1>4 DEF Context
  <1> HIDE DEF new
  <1>9. contexts'[p] = new /\ \A q \in Processes \ {p} : contexts'[q] = contexts[q]
    BY <1>1 DEF TypesInv
  <1>10. contexts' \in [Processes -> Seq(Context)]
    BY <1>1, <1>7 DEF TypesInv
  <1> QED BY <1>7, <1>8, <1>9, <1>10

LEMMA SetObjectsDoes ==
  ASSUME TypesInv, NEW p \in Processes, NEW i \in 1 .. Len(contexts[p]),
         NEW known \in [Names -> Object \cup {NoObject}], SetObjects(p, i, known)
  PROVE  /\ CacheTypes'
         /\ UNCHANGED <<cached, engines, engine>>
         /\ \A q \in Processes \ {p} : contexts'[q] = contexts[q]
         /\ Len(contexts'[p]) = Len(contexts[p])
         /\ Objects(p, i)' = known
         /\ \A j \in 1 .. Len(contexts[p]) \ {i} : contexts'[p][j] = contexts[p][j]
         /\ contexts'[p][i].engine = contexts[p][i].engine
         /\ contexts'[p][i].disposed = contexts[p][i].disposed
  <1> DEFINE old == contexts[p]
             entry == [old[i] EXCEPT !.tables = known]
             new == [old EXCEPT ![i] = entry]
  <1>1. contexts' = [contexts EXCEPT ![p] = new]
    BY DEF SetObjects
  <1>2. old \in Seq(Context) /\ old[i] \in Context
    BY ContextType DEF TypesInv
  <1>3. entry \in Context /\ entry.tables = known /\ entry.engine = old[i].engine
        /\ entry.disposed = old[i].disposed
    BY <1>2 DEF Context
  <1> HIDE DEF entry
  <1>4. new \in Seq(Context) /\ Len(new) = Len(old) /\ new[i] = entry
        /\ \A j \in 1 .. Len(old) \ {i} : new[j] = old[j]
    BY <1>2, <1>3
  <1> HIDE DEF new
  <1>5. contexts'[p] = new /\ \A q \in Processes \ {p} : contexts'[q] = contexts[q]
    BY <1>1 DEF TypesInv
  <1>6. CacheTypes'
    BY <1>1, <1>4 DEF TypesInv, CacheTypes, SetObjects
  <1>7. UNCHANGED <<cached, engines, engine>>
    BY DEF SetObjects
  <1> HIDE DEF CacheTypes
  <1> QED BY <1>3, <1>4, <1>5, <1>6, <1>7 DEF Objects


-----------------------------------------------------------------------------
(* Types.                                                                  *)

DatabaseTypes ==
    /\ live \in [Names -> [id : Nat, cols : SUBSET AllColumns]]
    /\ ledger \subseteq Entries /\ applied \subseteq Entries /\ excused \subseteq Entries

ObjectTypes ==
    /\ mgr \in [Processes -> [Models -> Manager \cup {NoManager}]]
    /\ claimed \subseteq Processes \X Nat /\ serial \in Nat

CounterTypes == ops \in 0 .. MaxOps /\ faults \in 0 .. MaxFaults

LEMMA TypesParts ==
  TypesInv <=> DatabaseTypes /\ CacheTypes /\ ObjectTypes /\ op \in [Threads -> Ops] /\ CounterTypes
  BY DEF TypesInv, DatabaseTypes, CacheTypes, ObjectTypes, CounterTypes

LEMMA TypesPartsNext ==
  TypesInv' <=> /\ DatabaseTypes' /\ CacheTypes' /\ ObjectTypes'
                /\ op' \in [Threads -> Ops] /\ CounterTypes'
  BY DEF TypesInv, DatabaseTypes, CacheTypes, ObjectTypes, CounterTypes

LEMMA PartsKept ==
  /\ DatabaseTypes /\ UNCHANGED database => DatabaseTypes'
  /\ CacheTypes /\ UNCHANGED cache => CacheTypes'
  /\ ObjectTypes /\ UNCHANGED objects => ObjectTypes'
  BY DEF DatabaseTypes, CacheTypes, ObjectTypes, database, cache, objects

\* A call counts one up, a failure too.
LEMMA CountersStep ==
  ASSUME CounterTypes, ops' = ops \/ (ops < MaxOps /\ ops' = ops + 1),
         faults' = faults \/ (faults < MaxFaults /\ faults' = faults + 1)
  PROVE  CounterTypes'
  BY SchemaAssumption DEF CounterTypes

LEMMA ObjectNotNone == NoObject \notin Object /\ NoManager \notin Manager
  BY DEF NoObject, Object, NoManager, Manager

LEMMA BuiltType ==
  ASSUME serial \in Nat, NEW known \in [Names -> Object \cup {NoObject}],
         NEW n \in Names, NEW m \in Models
  PROVE  /\ Fresh(n, m) \in Object /\ Built(known, n, m) \in Object
         /\ Built(known, n, m) = IF known[n] = NoObject THEN Fresh(n, m) ELSE known[n]
         /\ Compatible(known, n, m) => Built(known, n, m).cols = Columns[m]
         /\ \A k, table : Detached(known, k, table) \in [Names -> Object \cup {NoObject}]
         /\ known[n].id \in Nat
  <1>1. Fresh(n, m) \in Object
    BY ColumnsType DEF Fresh, Object
  <1>2. Built(known, n, m) \in Object
    BY <1>1 DEF Built
  <1>3. Compatible(known, n, m) => Built(known, n, m).cols = Columns[m]
    BY DEF Compatible, Built, Fresh
  <1>4. \A k, table : Detached(known, k, table) \in [Names -> Object \cup {NoObject}]
    BY DEF Detached
  <1>5. known[n].id \in Nat
    <2>1. known[n] \in Object \/ known[n] = NoObject
      OBVIOUS
    <2>2. \A x \in Object : x.id \in Nat
      BY DEF Object
    <2>3. NoObject.id \in Nat
      BY ZenonT(60) DEF NoObject
    <2> QED BY <2>1, <2>2, <2>3
  <1> QED BY <1>1, <1>2, <1>3, <1>4, <1>5 DEF Built

\* What Bind does of manager g, when left is the metadata without its old table.
BindEffect(p, m, n, g, left) ==
    /\ g \in Manager /\ g.ctx \in 1 .. Len(contexts[p])
    /\ left \in [Names -> Object \cup {NoObject}]
    /\ CacheTypes' /\ ObjectTypes'
    /\ UNCHANGED <<cached, engines, engine>>
    /\ \A q \in Processes \ {p} : contexts'[q] = contexts[q] /\ mgr'[q] = mgr[q]
    /\ Len(contexts'[p]) = Len(contexts[p])
    /\ \A j \in 1 .. Len(contexts[p]) \ {g.ctx} : contexts'[p][j] = contexts[p][j]
    /\ contexts'[p][g.ctx].engine = contexts[p][g.ctx].engine
    /\ contexts'[p][g.ctx].disposed = contexts[p][g.ctx].disposed
    /\ \A k \in Models \ {m} : mgr'[p][k] = mgr[p][k]
    /\ mgr'[p][m] \in Manager /\ mgr'[p][m].ctx = g.ctx /\ mgr'[p][m].name = n
    /\ IF Compatible(left, n, m)
       THEN /\ Built(left, n, m) \in Object
            /\ mgr'[p][m].table = Built(left, n, m)
            /\ contexts'[p][g.ctx].tables = [left EXCEPT ![n] = Built(left, n, m)]
            /\ claimed' = claimed \cup {<<p, left[n].id>>} /\ serial' = serial + 1
       ELSE /\ mgr'[p][m].table = g.table
            /\ contexts'[p][g.ctx].tables = left
            /\ claimed' = claimed \cup {<<p, g.table.id>>} /\ serial' = serial

LEMMA BindDoes ==
  ASSUME TypesInv, UsesInv, NEW p \in Processes, NEW m \in Models, Has(p, m), NEW n \in Names,
         Bind(p, m, n),
         NEW g, g = mgr[p][m],
         NEW left, left = Detached(Objects(p, g.ctx), g.name, g.table)
  PROVE  BindEffect(p, m, n, g, left)
  <1>1. g \in Manager /\ g.ctx \in 1 .. Len(contexts[p])
    BY ManagerType DEF UsesInv
  <1>2. Objects(p, g.ctx) \in [Names -> Object \cup {NoObject}] /\ serial \in Nat
    BY <1>1, ContextType DEF TypesInv
  <1>3. left \in [Names -> Object \cup {NoObject}]
    BY <1>2, BuiltType
  <1> DEFINE b == Built(left, n, m)
             full == [left EXCEPT ![n] = b]
  <1>4. b \in Object /\ left[n].id \in Nat
    BY <1>2, <1>3, BuiltType
  <1>5. full \in [Names -> Object \cup {NoObject}]
    BY <1>3, <1>4
  <1>6. Binds(p, m, n) <=> Compatible(left, n, m)
    BY SMTT(60) DEF Binds
  <1>7. CASE Binds(p, m, n)
    <2>1. /\ SetObjects(p, g.ctx, full)
          /\ claimed' = claimed \cup {<<p, left[n].id>>}
          /\ mgr' = [mgr EXCEPT ![p][m] = [g EXCEPT !.name = n, !.table = b]]
          /\ serial' = serial + 1
      BY <1>6, <1>7 DEF Bind
    <2> HIDE DEF full, b
    <2> DEFINE h == [g EXCEPT !.name = n, !.table = b]
    <2>2. h \in Manager /\ h.ctx = g.ctx /\ h.name = n /\ h.table = b
      BY <1>1, <1>4 DEF Manager
    <2>3. mgr' = [mgr EXCEPT ![p][m] = h]
      BY <2>1
    <2> HIDE DEF h
    <2>4. /\ mgr' \in [Processes -> [Models -> Manager \cup {NoManager}]]
          /\ mgr'[p][m] = h /\ \A k \in Models \ {m} : mgr'[p][k] = mgr[p][k]
          /\ \A q \in Processes \ {p} : mgr'[q] = mgr[q]
      BY <2>2, <2>3 DEF TypesInv
    <2>5. ObjectTypes'
      BY SMTT(60), <1>2, <1>4, <2>1, <2>4 DEF TypesInv, ObjectTypes
    <2>6. full = [left EXCEPT ![n] = b]
      BY DEF full
    <2>7. b = Built(left, n, m)
      BY DEF b
    <2>8. /\ CacheTypes' /\ UNCHANGED <<cached, engines, engine>>
          /\ \A q \in Processes \ {p} : contexts'[q] = contexts[q]
          /\ Len(contexts'[p]) = Len(contexts[p])
          /\ Objects(p, g.ctx)' = full
          /\ \A j \in 1 .. Len(contexts[p]) \ {g.ctx} : contexts'[p][j] = contexts[p][j]
          /\ contexts'[p][g.ctx].engine = contexts[p][g.ctx].engine
          /\ contexts'[p][g.ctx].disposed = contexts[p][g.ctx].disposed
      BY <1>1, <1>5, <2>1, SetObjectsDoes
    <2> QED BY ZenonT(60), <1>1, <1>3, <1>4, <1>6, <1>7, <2>1, <2>2, <2>4, <2>5, <2>6, <2>7, <2>8
       DEF BindEffect, Objects
  <1>8. CASE ~Binds(p, m, n)
    <2>1. /\ SetObjects(p, g.ctx, left)
          /\ claimed' = claimed \cup {<<p, g.table.id>>}
          /\ mgr' = [mgr EXCEPT ![p][m] = [g EXCEPT !.name = n]]
          /\ serial' = serial
      BY <1>6, <1>8 DEF Bind
    <2> DEFINE h == [g EXCEPT !.name = n]
    <2>2. h \in Manager /\ h.ctx = g.ctx /\ h.name = n /\ h.table = g.table
      BY <1>1 DEF Manager
    <2>3. mgr' = [mgr EXCEPT ![p][m] = h]
      BY <2>1
    <2> HIDE DEF h
    <2>4. /\ mgr' \in [Processes -> [Models -> Manager \cup {NoManager}]]
          /\ mgr'[p][m] = h /\ \A k \in Models \ {m} : mgr'[p][k] = mgr[p][k]
          /\ \A q \in Processes \ {p} : mgr'[q] = mgr[q]
      BY <2>2, <2>3 DEF TypesInv
    <2>5. g.table.id \in Nat
      BY <1>1 DEF Manager, Object
    <2>6. ObjectTypes'
      BY SMTT(60), <1>2, <2>1, <2>4, <2>5 DEF TypesInv, ObjectTypes
    <2>7. /\ CacheTypes' /\ UNCHANGED <<cached, engines, engine>>
          /\ \A q \in Processes \ {p} : contexts'[q] = contexts[q]
          /\ Len(contexts'[p]) = Len(contexts[p])
          /\ Objects(p, g.ctx)' = left
          /\ \A j \in 1 .. Len(contexts[p]) \ {g.ctx} : contexts'[p][j] = contexts[p][j]
          /\ contexts'[p][g.ctx].engine = contexts[p][g.ctx].engine
          /\ contexts'[p][g.ctx].disposed = contexts[p][g.ctx].disposed
      BY <1>1, <1>3, <2>1, SetObjectsDoes
    <2> QED BY ZenonT(60), <1>1, <1>3, <1>6, <1>8, <2>1, <2>2, <2>4, <2>6, <2>7 DEF BindEffect, Objects
  <1> QED BY <1>7, <1>8

\* What _build_table of a new model does, which gets Table b.
BuildTakes(t, p, m, i, n, known, b) ==
    /\ p = Home[t] /\ m = op[t].model /\ i = op[t].ctx /\ n = TableName[m]
    /\ known = Objects(p, i) /\ b = Built(known, n, m)

BuildEffect(t, p, m, i, n, known, b) ==
    /\ p \in Processes /\ m \in Models /\ n \in Names /\ i \in 1 .. Len(contexts[p])
    /\ op[t].at = "build" /\ ~Has(p, m)
    /\ UNCHANGED <<database, ops, faults>>
    /\ \/ Return(t) /\ UNCHANGED <<cache, objects>>
       \/ /\ Compatible(known, n, m) /\ b \in Object /\ b.cols = Columns[m]
          /\ SetObjects(p, i, [known EXCEPT ![n] = b])
          /\ serial' = serial + 1
          /\ claimed' = claimed \cup {<<p, known[n].id>>}
          /\ \/ /\ Goto(t, [at |-> "check", model |-> m, ctx |-> i, attach |-> TRUE, table |-> b])
                /\ UNCHANGED mgr
             \/ mgr' = [mgr EXCEPT ![p][m] = [ctx |-> i, name |-> n, table |-> b]] /\ Return(t)

LEMMA BuildDoes ==
  ASSUME TypesInv, UsesInv, NEW t \in Threads, Build(t),
         NEW p, NEW m, NEW i, NEW n, NEW known, NEW b, BuildTakes(t, p, m, i, n, known, b)
  PROVE  BuildEffect(t, p, m, i, n, known, b)
  <1> USE DEF BuildTakes
  <1>1. op[t].at = "build"
    BY DEF Build
  <1>2. /\ p \in Processes /\ m \in Models /\ n \in Names
    BY <1>1, OpModel, HomeType, SchemaAssumption
  <1>3. i \in 1 .. Len(contexts[p]) /\ ~Has(p, m)
    BY <1>1 DEF UsesInv, Bringing
  <1>4. known \in [Names -> Object \cup {NoObject}] /\ serial \in Nat
    BY <1>2, <1>3, ContextType DEF TypesInv
  <1>5. b \in Object /\ (Compatible(known, n, m) => b.cols = Columns[m])
    BY <1>2, <1>4, BuiltType
  <1> QED BY <1>1, <1>2, <1>3, <1>5 DEF Build, Attach, Proc, BuildEffect


-----------------------------------------------------------------------------
(* Steps that leave a part of the state alone.                             *)

\* Nobody gets a table or an object that had none, and none is taken away.
Calm ==
    /\ serial' \in Nat /\ serial <= serial' /\ claimed \subseteq claimed'
    /\ \A p \in Processes : \A i \in 1 .. Len(contexts'[p]) :
          IF i \in 1 .. Len(contexts[p]) THEN Objects(p, i)' = Objects(p, i)
          ELSE Objects(p, i)' = NoObjects
    /\ \A p \in Processes, m \in Models : Has(p, m)' =>
          mgr'[p][m] = mgr[p][m] /\ mgr[p][m].ctx \in 1 .. Len(contexts'[p])
    /\ \A t \in Threads : Attaching(t)' =>
          /\ Attaching(t) /\ op'[t].table = op[t].table
          /\ op'[t].model = op[t].model /\ op'[t].ctx = op[t].ctx
          /\ op[t].ctx \in 1 .. Len(contexts'[Home[t]])
    /\ \A p \in Processes, m \in Models : Has(p, m)' /\ Unbound(p, m) => Unbound(p, m)'
    /\ \A t \in Threads : Assigning(t)' =>
          /\ Assigning(t) /\ op'[t].table = op[t].table /\ op'[t].model = op[t].model
          /\ op'[t].alone => op[t].alone
          /\ Has(Home[t], op[t].model)'

LEMMA CalmKeeps ==
  ASSUME TypesInv, UsesInv, ColumnsInv, SlotsInv, HoldersInv, AssignedInv, Calm
  PROVE  ColumnsInv' /\ SlotsInv' /\ HoldersInv' /\ AssignedInv'
  <1> USE DEF Objects, Shared
  <1>1. ASSUME NEW p \in Processes, NEW m \in Models, Has(p, m)'
        PROVE  /\ Has(p, m) /\ mgr'[p][m] = mgr[p][m]
               /\ contexts'[p][mgr[p][m].ctx].tables = contexts[p][mgr[p][m].ctx].tables
               /\ mgr[p][m].table.id \in Nat
    <2>1. Has(p, m) /\ mgr'[p][m] = mgr[p][m]
      BY <1>1 DEF Calm, Has
    <2>2. mgr[p][m].ctx \in 1 .. Len(contexts[p]) /\ mgr[p][m].ctx \in 1 .. Len(contexts'[p])
      BY <1>1, <2>1 DEF Calm, UsesInv
    <2>3. mgr[p][m].table.id \in Nat
      BY <2>1, ManagerType DEF Object
    <2> QED BY <2>1, <2>2, <2>3 DEF Calm
  <1>2. ASSUME NEW t \in Threads, Attaching(t)'
        PROVE  /\ Attaching(t) /\ op'[t].table = op[t].table
               /\ op'[t].model = op[t].model /\ op'[t].ctx = op[t].ctx
               /\ contexts'[Home[t]][op[t].ctx].tables = contexts[Home[t]][op[t].ctx].tables
               /\ op[t].table.id \in Nat
    <2>1. /\ Attaching(t) /\ op'[t].table = op[t].table
          /\ op'[t].model = op[t].model /\ op'[t].ctx = op[t].ctx
          /\ op[t].ctx \in 1 .. Len(contexts'[Home[t]])
      BY <1>2 DEF Calm
    <2>2. op[t].ctx \in 1 .. Len(contexts[Home[t]]) /\ Home[t] \in Processes
      BY <2>1, HomeType DEF UsesInv, Bringing
    <2>3. op[t].table.id \in Nat
      BY <2>1, OpModel DEF Object, Attaching
    <2> QED BY <2>1, <2>2, <2>3 DEF Calm
  <1>8. ASSUME NEW t \in Threads, Assigning(t)'
        PROVE  /\ Assigning(t) /\ op'[t].table = op[t].table /\ op'[t].model = op[t].model
               /\ op'[t].alone => op[t].alone
               /\ Home[t] \in Processes /\ op[t].model \in Models
               /\ Has(Home[t], op[t].model)' /\ op[t].table.id \in Nat
    <2>1. /\ Assigning(t) /\ op'[t].table = op[t].table /\ op'[t].model = op[t].model
          /\ op'[t].alone => op[t].alone
          /\ Has(Home[t], op[t].model)'
      BY <1>8 DEF Calm
    <2>2. op[t].model \in Models
      BY <2>1, OpModel DEF Assigning, Renamings
    <2>3. op[t].table.id \in Nat
      BY <2>1 DEF ColumnsInv, Holding, Object
    <2> QED BY <2>1, <2>2, <2>3, HomeType
  <1>9. ASSUME NEW t \in Threads, Holding(t)'
        PROVE  Holding(t) /\ op'[t].table = op[t].table /\ op'[t].model = op[t].model
    BY <1>2, <1>8, <1>9 DEF Holding
  <1>3. ColumnsInv'
    BY <1>1, <1>9 DEF ColumnsInv
  <1> DEFINE slot(p, i, n) == contexts[p][i].tables[n]
             slot1(p, i, n) == contexts'[p][i].tables[n]
  <1>4. SlotsInv'
    <2> SUFFICES ASSUME NEW p \in Processes, NEW i \in 1 .. Len(contexts'[p]),
                        NEW j \in 1 .. Len(contexts'[p]), NEW n \in Names, NEW k \in Names,
                        slot1(p, i, n) # NoObject
                 PROVE  /\ slot1(p, i, n).name = n /\ slot1(p, i, n).id <= serial'
                        /\ slot1(p, i, n).id = slot1(p, j, k).id => i = j /\ n = k
      BY DEF SlotsInv
    <2>1. i \in 1 .. Len(contexts[p]) /\ slot1(p, i, n) = slot(p, i, n)
      BY DEF Calm, NoObjects
    <2>2. slot(p, i, n) \in Object
      BY <2>1, ContextType
    <2>3. slot(p, i, n).id \in Nat \ {0}
      BY <2>2 DEF Object
    <2>4. /\ slot(p, i, n).name = n /\ slot(p, i, n).id <= serial
          /\ \A x \in 1 .. Len(contexts[p]) :
                slot(p, i, n).id = slot(p, x, k).id => i = x /\ n = k
      BY <2>1 DEF SlotsInv
    <2>5. slot(p, i, n).id <= serial'
      BY SMTT(60), <2>3, <2>4 DEF Calm, TypesInv
    <2>6. CASE j \in 1 .. Len(contexts[p])
      <3>1. slot1(p, j, k) = slot(p, j, k)
        BY <2>6 DEF Calm
      <3> QED BY <2>1, <2>4, <2>5, <2>6, <3>1
    <2>7. CASE j \notin 1 .. Len(contexts[p])
      <3>1. slot1(p, j, k) = NoObject
        BY <2>7 DEF Calm, NoObjects
      <3>2. slot1(p, j, k).id = 0
        <4>1. NoObject.id = 0
          BY ZenonT(60) DEF NoObject
        <4> QED BY <3>1, <4>1
      <3> QED BY <2>1, <2>3, <2>4, <2>5, <3>2
    <2> QED BY <2>6, <2>7
  <1>5. claimed \subseteq claimed'
    BY DEF Calm
  <1>6. serial \in Nat /\ \A k \in Nat : k <= serial => k <= serial'
    BY SMTT(60) DEF Calm, TypesInv
  <1>7. HoldersInv'
    <2>1. ASSUME NEW p \in Processes, NEW m \in Models, Has(p, m)'
          PROVE  LET g == mgr'[p][m] IN
                 /\ g.table.id <= serial'
                 /\ <<p, g.table.id>> \notin claimed' /\ ~Unbound(p, m)' =>
                       contexts'[p][g.ctx].tables[g.name] = g.table
                 /\ \A k \in Models :
                       Has(p, k)' /\ mgr'[p][k].table.id = g.table.id /\ k # m
                       => <<p, g.table.id>> \in claimed'
      <3>1. /\ mgr[p][m].table.id <= serial
            /\ <<p, mgr[p][m].table.id>> \notin claimed /\ ~Unbound(p, m) =>
                  contexts[p][mgr[p][m].ctx].tables[mgr[p][m].name] = mgr[p][m].table
            /\ \A k \in Models :
                  Has(p, k) /\ mgr[p][k].table.id = mgr[p][m].table.id /\ k # m
                  => <<p, mgr[p][m].table.id>> \in claimed
        BY <1>1, <2>1 DEF HoldersInv
      <3>2. Unbound(p, m) => Unbound(p, m)'
        BY <2>1 DEF Calm
      <3> QED BY <1>1, <1>5, <1>6, <2>1, <3>1, <3>2
    <2>2. ASSUME NEW t \in Threads, Attaching(t)'
          PROVE  LET p == Home[t]
                     table == op'[t].table IN
                 /\ table.id <= serial'
                 /\ <<p, table.id>> \notin claimed' =>
                       contexts'[p][op'[t].ctx].tables[TableName[op'[t].model]] = table
                 /\ \A m \in Models :
                       Has(p, m)' /\ mgr'[p][m].table.id = table.id => <<p, table.id>> \in claimed'
                 /\ \A u \in Threads :
                       Attaching(u)' /\ Home[u] = p /\ op'[u].table.id = table.id /\ u # t
                       => <<p, table.id>> \in claimed'
      <3>1. Attaching(t) /\ Home[t] \in Processes
        BY <1>2, <2>2, HomeType
      <3>2. /\ op[t].table.id <= serial
            /\ <<Home[t], op[t].table.id>> \notin claimed =>
                  contexts[Home[t]][op[t].ctx].tables[TableName[op[t].model]] = op[t].table
            /\ \A m \in Models :
                  Has(Home[t], m) /\ mgr[Home[t]][m].table.id = op[t].table.id
                  => <<Home[t], op[t].table.id>> \in claimed
            /\ \A u \in Threads :
                  Attaching(u) /\ Home[u] = Home[t] /\ op[u].table.id = op[t].table.id /\ u # t
                  => <<Home[t], op[t].table.id>> \in claimed
        BY <3>1 DEF HoldersInv
      <3>3. ASSUME NEW m \in Models, Has(Home[t], m)',
                   mgr'[Home[t]][m].table.id = op'[t].table.id
            PROVE  <<Home[t], op'[t].table.id>> \in claimed'
        BY <1>1, <1>2, <1>5, <2>2, <3>1, <3>2, <3>3
      <3>4. ASSUME NEW u \in Threads, Attaching(u)', Home[u] = Home[t],
                   op'[u].table.id = op'[t].table.id, u # t
            PROVE  <<Home[t], op'[t].table.id>> \in claimed'
        BY <1>2, <1>5, <2>2, <3>2, <3>4
      <3>5. /\ op'[t].table.id <= serial'
            /\ <<Home[t], op'[t].table.id>> \notin claimed' =>
                  contexts'[Home[t]][op'[t].ctx].tables[TableName[op'[t].model]] = op'[t].table
        BY <1>2, <1>5, <1>6, <2>2, <3>2
      <3> QED BY <3>3, <3>4, <3>5
    <2> QED BY <2>1, <2>2 DEF HoldersInv
  <1>10. AssignedInv'
    <2> SUFFICES ASSUME NEW t \in Threads, Assigning(t)' PROVE Assigned(t)'
      BY DEF AssignedInv
    <2> DEFINE p == Home[t]
               k == op[t].model
    <2>1. /\ Assigning(t) /\ op'[t].table = op[t].table /\ op'[t].model = op[t].model
          /\ op'[t].alone => op[t].alone
          /\ p \in Processes /\ k \in Models /\ Has(p, k)' /\ op[t].table.id \in Nat
      BY <1>8
    <2>2. /\ op[t].table.id <= serial
          /\ op[t].alone /\ <<p, op[t].table.id>> \notin claimed =>
                contexts[p][mgr[p][k].ctx].tables[mgr[p][k].name] = op[t].table
          /\ \A m \in Models : Has(p, m) /\ mgr[p][m].table.id = op[t].table.id
                => <<p, op[t].table.id>> \in claimed
          /\ \A u \in Threads :
                Holding(u) /\ Home[u] = p /\ op[u].table.id = op[t].table.id /\ u # t
                => <<p, op[t].table.id>> \in claimed
      BY <2>1 DEF AssignedInv, Assigned
    <2>3. /\ mgr'[p][k] = mgr[p][k]
          /\ contexts'[p][mgr[p][k].ctx].tables = contexts[p][mgr[p][k].ctx].tables
      BY <1>1, <2>1
    <2>4. ASSUME NEW m \in Models, Has(p, m)', mgr'[p][m].table.id = op[t].table.id
          PROVE  <<p, op[t].table.id>> \in claimed'
      <3>1. Has(p, m) /\ mgr'[p][m] = mgr[p][m]
        BY <1>1, <2>1, <2>4
      <3>2. <<p, op[t].table.id>> \in claimed
        BY <2>2, <2>4, <3>1
      <3> QED BY <1>5, <3>2
    <2>5. ASSUME NEW u \in Threads, Holding(u)', Home[u] = p,
                 op'[u].table.id = op[t].table.id, u # t
          PROVE  <<p, op[t].table.id>> \in claimed'
      BY <1>5, <1>9, <2>2, <2>5
    <2>6. op[t].table.id <= serial'
      BY <1>6, <2>1, <2>2
    <2> HIDE DEF Holding
    <2> QED BY <1>5, <2>1, <2>2, <2>3, <2>4, <2>5, <2>6 DEF Assigned
  <1> QED BY <1>3, <1>4, <1>7, <1>10


\* A thread goes on in the call it is in, or starts one on a model that is there.
Plain(u) ==
    /\ op'[u].at # "close"
    /\ Using(u)' => Has(Home[u], op'[u].model)
    /\ Bringing(u)' => Bringing(u) /\ op'[u].model = op[u].model /\ op'[u].ctx = op[u].ctx
    /\ Attaching(u)' => Attaching(u) /\ op'[u].table = op[u].table
    /\ op'[u].at \in {"check", "create"} => op'[u].ctx \in 0 .. Len(contexts[Home[u]])
    /\ Restoring(u) => Restoring(u)' /\ op'[u].model = op[u].model
    /\ Assigning(u)' => /\ Assigning(u) /\ op'[u].table = op[u].table /\ op'[u].model = op[u].model
                        /\ op'[u].alone => op[u].alone

\* A manager that is being restored stays so while the threads that do it go on.
LEMMA UnboundKept ==
  ASSUME \A u \in Threads : Restoring(u) =>
             \/ Restoring(u)' /\ op'[u].model = op[u].model
             \/ mgr'[Home[u]][op[u].model] = NoManager
  PROVE  \A p \in Processes, m \in Models : Has(p, m)' /\ Unbound(p, m) => Unbound(p, m)'
  <1> SUFFICES ASSUME NEW p \in Processes, NEW m \in Models, Has(p, m)', Unbound(p, m)
               PROVE  Unbound(p, m)'
    OBVIOUS
  <1>1. PICK u \in Threads : Home[u] = p /\ Restoring(u) /\ op[u].model = m
    BY DEF Unbound
  <1>2. Restoring(u)' /\ op'[u].model = op[u].model
    BY <1>1 DEF Has
  <1> QED BY <1>1, <1>2 DEF Unbound

LEMMA UsesKept ==
  ASSUME TypesInv, UsesInv, UNCHANGED <<contexts, mgr>>,
         \A u \in Threads : op'[u] = op[u] \/ Plain(u)
  PROVE  UsesInv'
  <1>1. ASSUME NEW u \in Threads
        PROVE  /\ Using(u)' => Has(Home[u], op'[u].model)
               /\ Bringing(u)' => Bringing(u) /\ op'[u].model = op[u].model /\ op'[u].ctx = op[u].ctx
               /\ op'[u].at \in {"check", "create"} => op'[u].ctx \in 0 .. Len(contexts[Home[u]])
    <2>1. CASE op'[u] = op[u]
      BY <2>1 DEF UsesInv, Using, Bringing, Attaching
    <2>2. CASE Plain(u)
      BY <2>2 DEF Plain
    <2> QED BY <2>1, <2>2
  <1> HIDE DEF Using, Bringing, Attaching
  <1> QED BY <1>1 DEF UsesInv, Has

\* A thread that goes on assigning does so to a manager that is there.
LEMMA AssigningStands ==
  ASSUME UsesInv, NEW u \in Threads, op'[u] = op[u], Assigning(u)',
         mgr'[Home[u]][op[u].model] = mgr[Home[u]][op[u].model]
  PROVE  Assigning(u) /\ Has(Home[u], op[u].model)'
  <1>1. Assigning(u)
    BY DEF Assigning
  <1>2. Has(Home[u], op[u].model)
    BY <1>1 DEF UsesInv, Using, Assigning, Renamings
  <1> QED BY <1>1, <1>2 DEF Has

LEMMA PlainStep ==
  ASSUME TypesInv, CacheInv, UsesInv, ColumnsInv, SlotsInv, HoldersInv, AssignedInv,
         UNCHANGED <<cache, mgr, claimed>>, serial' \in Nat, serial <= serial',
         \A u \in Threads : op'[u] = op[u] \/ Plain(u)
  PROVE  CacheInv' /\ UsesInv' /\ ColumnsInv' /\ SlotsInv' /\ HoldersInv' /\ AssignedInv'
  <1>1. UsesInv'
    BY UsesKept DEF cache
  <1>2. CacheInv'
    <2>1. \A u \in Threads : op'[u].at = "close" => op'[u] = op[u]
      BY DEF Plain
    <2> QED BY <2>1 DEF CacheInv, CacheAt, cache
  <1>3. ASSUME NEW t \in Threads, Attaching(t)'
        PROVE  /\ Attaching(t) /\ op'[t].table = op[t].table
               /\ op'[t].model = op[t].model /\ op'[t].ctx = op[t].ctx
               /\ op[t].ctx \in 1 .. Len(contexts'[Home[t]])
    <2>1. CASE op'[t] = op[t]
      BY <1>3, <2>1 DEF UsesInv, Bringing, Attaching, cache
    <2>2. CASE Plain(t)
      BY <1>3, <2>2 DEF Plain, UsesInv, Bringing, cache
    <2> QED BY <2>1, <2>2
  <1>4. Calm
    <2>1. \A p \in Processes : \A i \in 1 .. Len(contexts'[p]) :
             i \in 1 .. Len(contexts[p]) /\ Objects(p, i)' = Objects(p, i)
      BY DEF cache, Objects
    <2>2. \A p \in Processes, m \in Models : Has(p, m)' =>
             mgr'[p][m] = mgr[p][m] /\ mgr[p][m].ctx \in 1 .. Len(contexts'[p])
      BY DEF cache, UsesInv, Has
    <2>3. \A p \in Processes, m \in Models : Has(p, m)' /\ Unbound(p, m) => Unbound(p, m)'
      <3>1. \A u \in Threads : Restoring(u) => Restoring(u)' /\ op'[u].model = op[u].model
        BY DEF Plain, Restoring
      <3> QED BY <3>1, UnboundKept
    <2>4. ASSUME NEW t \in Threads, Assigning(t)'
          PROVE  /\ Assigning(t) /\ op'[t].table = op[t].table /\ op'[t].model = op[t].model
                 /\ op'[t].alone => op[t].alone
                 /\ Has(Home[t], op[t].model)'
      <3>1. /\ Assigning(t) /\ op'[t].table = op[t].table /\ op'[t].model = op[t].model
            /\ op'[t].alone => op[t].alone
        BY <2>4 DEF Plain, Assigning
      <3>2. Has(Home[t], op[t].model)
        BY <3>1 DEF UsesInv, Using, Assigning, Renamings
      <3> QED BY <3>1, <3>2 DEF Has
    <2> QED BY <1>3, <2>1, <2>2, <2>3, <2>4 DEF Calm
  <1> QED BY <1>1, <1>2, <1>4, CalmKeeps

LEMMA AloneKept ==
  ASSUME AloneInv,
         \A t \in Threads : Renaming(t)' =>
             /\ op'[t] = op[t]
             /\ mgr'[Home[t]][op[t].model] = mgr[Home[t]][op[t].model]
  PROVE  AloneInv'
  <1>1. \A t \in Threads : Renaming(t)' =>
           /\ Renaming(t) /\ op'[t] = op[t]
           /\ mgr'[Home[t]][op[t].model] = mgr[Home[t]][op[t].model]
    BY DEF Renaming, Restoring
  <1>2. ASSUME NEW t \in Threads, Renaming(t)', op'[t].alone
        PROVE  /\ \A u \in Threads :
                     Home[u] = Home[t] /\ Renaming(u)' /\ op'[u].model = op'[t].model => u = t
               /\ Stands(op'[t], mgr'[Home[t]][op'[t].model])
    BY <1>1, <1>2 DEF AloneInv
  <1> HIDE DEF Renaming
  <1> QED BY <1>2 DEF AloneInv

\* Tables are created, dropped and renamed, but their columns stay.
LiveMoves ==
    /\ serial' \in Nat /\ serial <= serial'
    /\ \A n \in Names : live'[n].id \in Nat /\ live'[n].id <= serial'
    /\ \A n, k \in Names : live'[n] # NoTable /\ live'[n].id = live'[k].id => n = k
    /\ \A n \in Names : live'[n].id = 0 => live'[n] = NoTable
    /\ \A n \in Names :
          \/ live'[n] = NoTable \/ live'[n].id > serial
          \/ \E k \in Names : live'[n] = live[k]

LEMMA LiveKept ==
  ASSUME TypesInv, LedgerInv, serial' \in Nat, serial <= serial', live' = live
  PROVE  LiveMoves
  <1>1. \A n \in Names : live[n].id \in Nat
    BY DEF TypesInv
  <1> QED BY <1>1 DEF LiveMoves, LedgerInv, TypesInv

\* Whatever migrate has added so far stays accounted for.
Accounts(t) ==
    /\ Adds(t) => \/ Adds(t)' /\ op'[t].added = op[t].added
                  \/ op[t].added \subseteq excused'
    /\ Adds(t)' => \/ Adds(t) /\ op'[t].added = op[t].added /\ op'[t].record = op[t].record
                   \/ op'[t].added = {}

LEMMA LedgerKept ==
  ASSUME TypesInv, LedgerInv, LiveMoves, UNCHANGED <<ledger, applied>>, excused \subseteq excused',
         \A t \in Threads : op'[t] = op[t] \/ Accounts(t)
  PROVE  LedgerInv'
  <1>1. ASSUME NEW t \in Threads PROVE Accounts(t)
    BY <1>1 DEF Accounts, Adds
  <1>2. ASSUME NEW x \in applied
        PROVE  /\ x[1] \in 1 .. serial'
               /\ \A n \in Names : live'[n].id = x[1] => x[2] \in live'[n].cols
               /\ \A y \in applied : x[1] = y[1] /\ x[2] = y[2] => x = y
               /\ x \in ledger' \cup excused' \/ (Adds(x[3])' /\ x \in op'[x[3]].added)
    <2>1. x \in Entries
      BY DEF TypesInv
    <2>2. x[3] \in Threads /\ x[1] \in Nat
      BY <2>1 DEF Entries
    <2>3. /\ x[1] \in 1 .. serial
          /\ \A n \in Names : live[n].id = x[1] => x[2] \in live[n].cols
          /\ \A y \in applied : x[1] = y[1] /\ x[2] = y[2] => x = y
          /\ x \in ledger \cup excused \/ (Adds(x[3]) /\ x \in op[x[3]].added)
      BY DEF LedgerInv
    <2>4. ASSUME NEW n \in Names, live'[n].id = x[1] PROVE x[2] \in live'[n].cols
      <3>1. live'[n] # NoTable
        BY <2>3, <2>4 DEF NoTable
      <3>2. ~(live'[n].id > serial)
        BY <2>3, <2>4 DEF TypesInv
      <3> QED BY <2>3, <2>4, <3>1, <3>2 DEF LiveMoves
    <2>5. x[1] \in 1 .. serial'
      BY <2>3 DEF LiveMoves, TypesInv
    <2>6. x \in ledger' \cup excused' \/ (Adds(x[3])' /\ x \in op'[x[3]].added)
      BY <1>1, <2>2, <2>3 DEF Accounts
    <2> QED BY <2>3, <2>4, <2>5, <2>6
  <1>3. ASSUME NEW t \in Threads, Adds(t)'
        PROVE  /\ \A x \in op'[t].added : x[3] = t
               /\ op'[t].record => op'[t].added \subseteq applied'
               /\ ~op'[t].record => op'[t].added \cap applied' = {}
    <2>1. CASE op'[t].added = {}
      BY <2>1
    <2>2. CASE Adds(t) /\ op'[t].added = op[t].added /\ op'[t].record = op[t].record
      BY <2>2 DEF LedgerInv
    <2> QED BY <1>1, <1>3, <2>1, <2>2 DEF Accounts
  <1>4. ledger' \subseteq applied'
    BY DEF LedgerInv
  <1> QED BY <1>2, <1>3, <1>4 DEF LedgerInv, LiveMoves


-----------------------------------------------------------------------------
(* The steps that change neither managers nor metadata.                    *)

LEMMA PlainSchemaStep ==
  ASSUME SchemaInv, TypesInv', AloneInv', LedgerInv', UNCHANGED <<cache, mgr, claimed>>,
         serial <= serial', \A u \in Threads : op'[u] = op[u] \/ Plain(u)
  PROVE  SchemaInv'
  BY PlainStep DEF SchemaInv, TypesInv

\* A step of thread t alone that is no step of a rename.
LEMMA NoRename ==
  ASSUME TypesInv, AloneInv, NEW t \in Threads, mgr' = mgr,
         \A u \in Threads \ {t} : op'[u] = op[u], op'[t].at \notin Renamings
  PROVE  AloneInv'
  <1>1. \A u \in Threads : Renaming(u)' => u # t
    BY DEF Renaming, Restoring, Renamings
  <1> QED BY <1>1, AloneKept

LEMMA CreateSchemaKeeps ==
  ASSUME SchemaInv, NEW t \in Threads, NEW m \in Models, CreateSchema(t, m)
  PROVE  SchemaInv'
  <1> DEFINE p == Home[t]
  <1>1. TypesInv /\ UsesInv /\ p \in Processes /\ Has(p, m)
    BY HomeType DEF SchemaInv, CreateSchema, Registered, Proc, Has
  <1>2. mgr[p][m].table \in Object /\ mgr[p][m].ctx \in 1 .. Len(contexts[p])
    BY <1>1, ManagerType DEF UsesInv
  <1>3. PICK all \in BOOLEAN :
           Goto(t, [at |-> "check", model |-> m, attach |-> FALSE, table |-> mgr[p][m].table,
                    ctx |-> IF all THEN mgr[p][m].ctx ELSE 0])
    BY DEF CreateSchema, Proc
  <1> DEFINE ctx == IF all THEN mgr[p][m].ctx ELSE 0
  <1>0. ctx \in 0 .. Len(contexts[p]) /\ ctx \in Nat
    BY <1>1, <1>2, LenType
  <1> HIDE DEF ctx
  <1> DEFINE rec == [at |-> "check", model |-> m, attach |-> FALSE, table |-> mgr[p][m].table,
                     ctx |-> ctx]
  <1>4. rec \in Ops
    BY <1>2, <1>0 DEF Ops
  <1>5. op' \in [Threads -> Ops] /\ op'[t] = rec /\ \A u \in Threads \ {t} : op'[u] = op[u]
    BY <1>1, <1>3, <1>4, GotoOp DEF ctx
  <1>6. UNCHANGED <<database, cache, objects, faults>> /\ Call(t)
    BY DEF CreateSchema
  <1>7. TypesInv'
    BY <1>1, <1>5, <1>6, TypesParts, TypesPartsNext, PartsKept, CountersStep DEF Call
  <1>8. Plain(t)
    BY <1>1, <1>5, <1>0, <1>6
       DEF Plain, Using, Bringing, Attaching, Assigning, Restoring, Renamings, Call, Idle
  <1>9. ~Adds(t) /\ ~Adds(t)'
    BY <1>5, <1>6 DEF Adds, Call, Idle
  <1>10. AloneInv'
    BY <1>1, <1>5, <1>6, NoRename DEF SchemaInv, objects, Renamings
  <1>11. LedgerInv'
    BY SMTT(60), <1>1, <1>5, <1>6, <1>9, LiveKept, LedgerKept
       DEF SchemaInv, database, objects, Accounts, TypesInv
  <1>12. UNCHANGED <<cache, mgr, claimed>> /\ serial <= serial'
    BY <1>1, <1>6 DEF objects, TypesInv
  <1> QED BY <1>5, <1>7, <1>8, <1>10, <1>11, <1>12, PlainSchemaStep

LEMMA CheckTablesKeeps ==
  ASSUME SchemaInv, NEW t \in Threads, CheckTables(t)
  PROVE  SchemaInv'
  <1> DEFINE o == op[t]
             p == Home[t]
             known == IF o.ctx = 0 THEN {o.table} ELSE {Objects(p, o.ctx)[n] : n \in Names} \ {NoObject}
             todo == {x \in known : ~Exists(x.name)}
             rec == [at |-> "create", model |-> o.model, ctx |-> o.ctx, attach |-> o.attach,
                     table |-> o.table, todo |-> todo]
  <1>1. TypesInv /\ UsesInv /\ p \in Processes /\ o.at = "check" /\ Goto(t, rec)
    BY HomeType DEF SchemaInv, CheckTables, Proc
  <1>2. /\ o.model \in Models /\ o.attach \in BOOLEAN /\ o.table \in Object /\ o.ctx \in Nat
        /\ o.ctx \in 0 .. Len(contexts[p])
    BY <1>1, OpFields DEF UsesInv
  <1>3. known \subseteq Object
    <2>1. CASE o.ctx = 0
      BY <1>2, <2>1
    <2>2. CASE o.ctx # 0
      <3>1. o.ctx \in 1 .. Len(contexts[p])
        BY <1>1, <1>2, <2>2, LenType
      <3>2. Objects(p, o.ctx) \in [Names -> Object \cup {NoObject}]
        BY <1>1, <3>1, ContextType
      <3> QED BY <2>2, <3>2
    <2> QED BY <2>1, <2>2
  <1>4. todo \in SUBSET Object
    BY <1>3
  <1> HIDE DEF todo
  <1>5. rec \in Ops
    BY <1>2, <1>4 DEF Ops
  <1>6. op' \in [Threads -> Ops] /\ op'[t] = rec /\ \A u \in Threads \ {t} : op'[u] = op[u]
    BY <1>1, <1>5, GotoOp
  <1>7. UNCHANGED <<database, cache, objects, ops, faults>>
    BY DEF CheckTables
  <1>8. TypesInv'
    BY <1>1, <1>6, <1>7, TypesParts, TypesPartsNext, PartsKept, CountersStep
  <1>9. Plain(t)
    BY <1>1, <1>2, <1>6 DEF Plain, Using, Bringing, Attaching, Assigning, Restoring, Renamings, UsesInv
  <1>10. ~Adds(t) /\ ~Adds(t)'
    BY <1>1, <1>6 DEF Adds
  <1>11. AloneInv'
    BY <1>1, <1>6, <1>7, NoRename DEF SchemaInv, objects, Renamings
  <1>12. LedgerInv'
    BY SMTT(60), <1>1, <1>6, <1>7, <1>10, LiveKept, LedgerKept
       DEF SchemaInv, database, objects, Accounts, TypesInv
  <1> QED BY SMTT(60), <1>1, <1>6, <1>7, <1>8, <1>9, <1>11, <1>12, PlainSchemaStep DEF objects, TypesInv

\* A statement that makes a table.
LEMMA NewTable ==
  ASSUME TypesInv, LedgerInv, NEW n \in Names, ~Exists(n), NEW cols \in SUBSET AllColumns,
         live' = [live EXCEPT ![n] = [id |-> serial + 1, cols |-> cols]], serial' = serial + 1
  PROVE  /\ LiveMoves
         /\ live' \in [Names -> [id : Nat, cols : SUBSET AllColumns]]
  <1> DEFINE new == [id |-> serial + 1, cols |-> cols]
  <1>1. serial \in Nat /\ \A k \in Names : live[k].id \in Nat /\ live[k].id <= serial
    BY DEF TypesInv, LedgerInv
  <1>2. new \in [id : Nat, cols : SUBSET AllColumns] /\ new.id = serial + 1
    BY <1>1
  <1> HIDE DEF new
  <1>3. live'[n] = new /\ \A k \in Names \ {n} : live'[k] = live[k]
    BY DEF TypesInv, new
  <1>4. live' \in [Names -> [id : Nat, cols : SUBSET AllColumns]]
    BY <1>2 DEF TypesInv, new
  <1>5. \A k, l \in Names : live'[k] # NoTable /\ live'[k].id = live'[l].id => k = l
    BY <1>1, <1>2, <1>3 DEF LedgerInv
  <1>6. \A k \in Names : live'[k].id \in Nat /\ live'[k].id <= serial'
    BY <1>1, <1>2, <1>3
  <1>7. \A k \in Names : live'[k].id = 0 => live'[k] = NoTable
    BY <1>1, <1>2, <1>3 DEF LedgerInv
  <1>8. \A k \in Names :
           live'[k] = NoTable \/ live'[k].id > serial \/ \E l \in Names : live'[k] = live[l]
    BY <1>1, <1>2, <1>3
  <1> QED BY <1>1, <1>4, <1>5, <1>6, <1>7, <1>8 DEF LiveMoves

\* A statement that drops one, or gives it another name.
LEMMA NoNewTable ==
  ASSUME TypesInv, LedgerInv, NEW n \in Names, serial' = serial,
         \/ live' = [live EXCEPT ![n] = NoTable]
         \/ \E k \in Names : Exists(n) /\ ~Exists(k) /\ Move(n, k)
  PROVE  /\ LiveMoves
         /\ live' \in [Names -> [id : Nat, cols : SUBSET AllColumns]]
  <1>1. NoTable \in [id : Nat, cols : SUBSET AllColumns] /\ NoTable.id = 0
    BY DEF NoTable
  <1>2. serial \in Nat /\ \A k \in Names : live[k].id \in Nat /\ live[k].id <= serial
    BY DEF TypesInv, LedgerInv
  <1>3. CASE live' = [live EXCEPT ![n] = NoTable]
    <2>1. live'[n] = NoTable /\ \A k \in Names \ {n} : live'[k] = live[k]
      BY <1>3 DEF TypesInv
    <2>2. live' \in [Names -> [id : Nat, cols : SUBSET AllColumns]]
      BY <1>1, <1>3 DEF TypesInv
    <2> HIDE DEF NoTable
    <2>3. \A k, l \in Names : live'[k] # NoTable /\ live'[k].id = live'[l].id => k = l
      BY <1>1, <1>2, <2>1 DEF LedgerInv
    <2> QED BY <1>1, <1>2, <2>1, <2>2, <2>3 DEF LiveMoves, LedgerInv
  <1>4. ASSUME NEW k \in Names, Exists(n), ~Exists(k), Move(n, k)
        PROVE  /\ LiveMoves
               /\ live' \in [Names -> [id : Nat, cols : SUBSET AllColumns]]
    <2>1. n # k
      BY <1>4
    <2>2. live'[n] = NoTable /\ live'[k] = live[n] /\ \A l \in Names \ {n, k} : live'[l] = live[l]
      BY <1>4, <2>1 DEF TypesInv, Move
    <2>3. live' \in [Names -> [id : Nat, cols : SUBSET AllColumns]]
      BY <1>1, <1>4 DEF TypesInv, Move
    <2> HIDE DEF NoTable
    <2>4. \A i, l \in Names : live'[i] # NoTable /\ live'[i].id = live'[l].id => i = l
      BY <1>1, <1>2, <2>1, <2>2 DEF LedgerInv
    <2> QED BY <1>1, <1>2, <2>2, <2>3, <2>4 DEF LiveMoves, LedgerInv
  <1> QED BY <1>3, <1>4

LEMMA CreateTableKeeps ==
  ASSUME SchemaInv, NEW t \in Threads, NEW x, x \in op[t].todo, CreateTable(t, x)
  PROVE  SchemaInv'
  <1>1. TypesInv /\ UsesInv /\ LedgerInv /\ op[t].at = "create"
    BY DEF SchemaInv, CreateTable
  <1>2. /\ op[t] \in [at : {"create"}, model : Models, attach : BOOLEAN, table : Object,
                      ctx : Nat, todo : SUBSET Object]
        /\ x \in Object
    BY <1>1, OpFields
  <1>3. x.name \in Names /\ x.cols \in SUBSET AllColumns
    BY <1>2 DEF Object
  <1> DEFINE rec == [op[t] EXCEPT !.todo = @ \ {x}]
  <1>4. /\ rec \in Ops /\ rec.at = "create" /\ rec.model = op[t].model /\ rec.ctx = op[t].ctx
        /\ rec.attach = op[t].attach /\ rec.table = op[t].table
    <2>1. rec \in [at : {"create"}, model : Models, attach : BOOLEAN, table : Object,
                   ctx : Nat, todo : SUBSET Object]
      BY <1>2
    <2> QED BY <1>2, <2>1 DEF Ops
  <1> HIDE DEF rec
  <1>5. /\ UNCHANGED <<ledger, applied, excused, cache, mgr, claimed, ops>>
        /\ faults' = faults \/ (faults < MaxFaults /\ faults' = faults + 1)
    BY DEF CreateTable, Works, Fails
  <1>6. /\ op' \in [Threads -> Ops] /\ \A u \in Threads \ {t} : op'[u] = op[u]
        /\ op'[t] = Idle \/ op'[t] = rec
    BY <1>1, <1>4, GotoOp, ReturnOp DEF CreateTable, rec
  <1>7. /\ LiveMoves
        /\ live' \in [Names -> [id : Nat, cols : SUBSET AllColumns]]
    <2>1. CASE UNCHANGED <<live, serial>>
      BY <1>1, <2>1, LiveKept DEF TypesInv
    <2>2. CASE ~UNCHANGED <<live, serial>>
      <3>1. /\ ~Exists(x.name) /\ serial' = serial + 1
            /\ live' = [live EXCEPT ![x.name] = [id |-> serial + 1, cols |-> x.cols]]
        BY <2>2 DEF CreateTable
      <3> QED BY <1>1, <1>3, <3>1, NewTable
    <2> QED BY <2>1, <2>2
  <1>8. serial' \in Nat /\ serial <= serial'
    BY <1>7 DEF LiveMoves
  <1>9. TypesInv'
    <2>1. DatabaseTypes'
      BY <1>1, <1>5, <1>7 DEF TypesInv, DatabaseTypes
    <2>2. ObjectTypes'
      BY <1>1, <1>5, <1>8 DEF TypesInv, ObjectTypes
    <2> QED BY <1>1, <1>5, <1>6, <2>1, <2>2, TypesParts, TypesPartsNext, PartsKept, CountersStep
  <1>10. Plain(t)
    BY <1>1, <1>4, <1>6 DEF Plain, Using, Bringing, Attaching, Assigning, Restoring, Renamings, UsesInv, Idle
  <1>11. ~Adds(t) /\ ~Adds(t)'
    BY <1>1, <1>4, <1>6 DEF Adds, Idle
  <1>12. AloneInv'
    BY <1>1, <1>4, <1>5, <1>6, NoRename DEF SchemaInv, Renamings, Idle
  <1>13. LedgerInv'
    BY <1>1, <1>5, <1>6, <1>7, <1>11, LedgerKept DEF Accounts
  <1> QED BY <1>1, <1>5, <1>6, <1>8, <1>9, <1>10, <1>12, <1>13, PlainSchemaStep


LEMMA DropSchemaKeeps ==
  ASSUME SchemaInv, NEW t \in Threads, NEW m \in Models, DropSchema(t, m)
  PROVE  SchemaInv'
  <1> DEFINE p == Home[t]
             n == mgr[p][m].table.name
  <1>1. TypesInv /\ LedgerInv /\ p \in Processes /\ Has(p, m)
    BY HomeType DEF SchemaInv, DropSchema, Registered, Proc, Has
  <1>2. n \in Names
    BY <1>1, ManagerType DEF Object
  <1>3. live' = [live EXCEPT ![n] = NoTable]
    BY DEF DropSchema, Proc
  <1> HIDE DEF n
  <1>4. /\ UNCHANGED <<ledger, applied, excused, cache, objects, op, faults>>
        /\ ops < MaxOps /\ ops' = ops + 1
    BY DEF DropSchema, Call
  <1>5. UNCHANGED <<cache, mgr, claimed, serial>> /\ serial <= serial'
    BY <1>1, <1>4 DEF objects, TypesInv
  <1>6. /\ LiveMoves
        /\ live' \in [Names -> [id : Nat, cols : SUBSET AllColumns]]
    BY <1>1, <1>2, <1>3, <1>5, NoNewTable
  <1>7. TypesInv'
    <2>1. DatabaseTypes'
      BY <1>1, <1>4, <1>6 DEF TypesInv, DatabaseTypes
    <2> QED BY <1>1, <1>4, <2>1, TypesParts, TypesPartsNext, PartsKept, CountersStep
  <1>8. AloneInv'
    BY <1>4, <1>5, AloneKept DEF SchemaInv, Renaming, Restoring
  <1>9. LedgerInv'
    BY <1>1, <1>4, <1>6, LedgerKept
  <1> QED BY <1>4, <1>5, <1>7, <1>8, <1>9, PlainSchemaStep

\* A renaming thread goes on or ends, and changes no manager but the one it renames.
LEMMA RenameMoves ==
  ASSUME TypesInv, AloneInv, NEW t \in Threads, Renaming(t),
         \A u \in Threads \ {t} : op'[u] = op[u],
         \A u \in Threads : Renaming(u) /\ (Home[u] # Home[t] \/ op[u].model # op[t].model) =>
             mgr'[Home[u]][op[u].model] = mgr[Home[u]][op[u].model],
         Renaming(t)' => op'[t].model = op[t].model /\ op'[t].alone = op[t].alone,
         Renaming(t)' /\ op[t].alone => Stands(op'[t], mgr'[Home[t]][op[t].model])
  PROVE  AloneInv'
  <1> HIDE DEF Stands
  <1>0. \A w \in Threads \ {t} : Renaming(w)' => Renaming(w)
    BY DEF Renaming, Restoring
  <1>1. \A w \in Threads : Renaming(w)' =>
           Renaming(w) /\ op'[w].model = op[w].model /\ op'[w].alone = op[w].alone
    BY <1>0
  <1> HIDE DEF Renaming
  <1> SUFFICES ASSUME NEW u \in Threads, Renaming(u)', op'[u].alone
               PROVE  /\ \A w \in Threads :
                            Home[w] = Home[u] /\ Renaming(w)' /\ op'[w].model = op'[u].model => w = u
                      /\ Stands(op'[u], mgr'[Home[u]][op'[u].model])
    BY DEF AloneInv
  <1>2. \A w \in Threads : Home[w] = Home[u] /\ Renaming(w)' /\ op'[w].model = op'[u].model => w = u
    BY <1>1 DEF AloneInv
  <1>3. CASE u = t
    BY <1>1, <1>2, <1>3
  <1>4. CASE u # t
    <2>1. Home[u] # Home[t] \/ op[u].model # op[t].model
      BY <1>1, <1>4 DEF AloneInv
    <2>2. op'[u] = op[u] /\ mgr'[Home[u]][op[u].model] = mgr[Home[u]][op[u].model]
      BY <1>1, <1>4, <2>1
    <2> QED BY <1>1, <1>2, <2>2 DEF AloneInv
  <1> QED BY <1>3, <1>4

LEMMA RenameOpsIn == RenameOps \subseteq Ops
  BY DEF Ops

LEMMA RenameAt ==
  ASSUME NEW o \in RenameOps, NEW a \in Renamings, NEW n, n = [o EXCEPT !.at = a]
  PROVE  /\ n \in RenameOps /\ n.at = a /\ n.model = o.model /\ n.alone = o.alone
         /\ n.from = o.from /\ n.target = o.target /\ n.moved = o.moved /\ n.table = o.table
  BY DEF RenameOps

LEMMA RenameMoved ==
  ASSUME NEW o \in RenameOps
  PROVE  /\ LET n == [o EXCEPT !.at = "rebind", !.moved = TRUE] IN
            n \in RenameOps /\ n.at = "rebind" /\ n.model = o.model /\ n.alone = o.alone /\ n.moved
         /\ LET n == [o EXCEPT !.at = "restore", !.moved = FALSE] IN
            n \in RenameOps /\ n.at = "restore" /\ n.model = o.model /\ n.alone = o.alone
  BY DEF RenameOps, Renamings

LEMMA RenameNotAlone ==
  ASSUME NEW o \in RenameOps, NEW n, n = [o EXCEPT !.alone = FALSE]
  PROVE  n \in RenameOps /\ n.at = o.at /\ n.model = o.model /\ ~n.alone /\ n.table = o.table
  BY DEF RenameOps

\* What is known of a thread that renames.
LEMMA RenamingFields ==
  ASSUME TypesInv, UsesInv, NEW t \in Threads, Renaming(t)
  PROVE  /\ op[t] \in RenameOps /\ op[t].at \in Renamings
         /\ op[t].model \in Models /\ op[t].from \in Names /\ op[t].target \in Names
         /\ Home[t] \in Processes /\ Has(Home[t], op[t].model)
         /\ mgr[Home[t]][op[t].model] \in Manager
         /\ mgr[Home[t]][op[t].model].table.name \in Names
  <1>1. op[t].at \in Renamings
    BY DEF Renaming, Restoring, Renamings
  <1>2. op[t] \in RenameOps
    BY <1>1, OpFields
  <1>3. op[t].model \in Models /\ op[t].from \in Names /\ op[t].target \in Names
    BY <1>2 DEF RenameOps
  <1>4. Has(Home[t], op[t].model)
    BY <1>1 DEF UsesInv, Using
  <1>5. mgr[Home[t]][op[t].model] \in Manager /\ mgr[Home[t]][op[t].model].table \in Object
    BY <1>3, <1>4, HomeType, ManagerType
  <1> QED BY <1>1, <1>2, <1>3, <1>4, <1>5, HomeType DEF Object

\* A step of a rename that leaves the managers alone.
LEMMA RenameDdlStep ==
  ASSUME SchemaInv, NEW t \in Threads, Renaming(t),
         \/ op'[t] = Idle
         \/ op'[t] \in RenameOps /\ op'[t].model = op[t].model /\ op'[t].alone = op[t].alone,
         op' \in [Threads -> Ops], \A u \in Threads \ {t} : op'[u] = op[u],
         LiveMoves, live' \in [Names -> [id : Nat, cols : SUBSET AllColumns]],
         UNCHANGED <<ledger, applied, excused, cache, objects, ops>>,
         faults' = faults \/ (faults < MaxFaults /\ faults' = faults + 1),
         ~Restoring(t), op'[t].at # "assign",
         Renaming(t)' /\ op[t].alone => Stands(op'[t], mgr[Home[t]][op[t].model])
  PROVE  SchemaInv'
  <1>1. TypesInv /\ UsesInv /\ LedgerInv /\ AloneInv
    BY DEF SchemaInv
  <1>2. op[t].at \in Renamings /\ Has(Home[t], op[t].model)
    BY <1>1, RenamingFields
  <1>3. op'[t].at = "idle" \/ op'[t].at \in Renamings
    BY DEF Idle, RenameOps
  <1>4. UNCHANGED <<cache, mgr, claimed>> /\ serial <= serial'
    BY DEF objects, LiveMoves
  <1>5. TypesInv'
    <2>1. DatabaseTypes'
      BY <1>1 DEF TypesInv, DatabaseTypes
    <2> QED BY <1>1, <2>1, TypesParts, TypesPartsNext, PartsKept, CountersStep
  <1>6. Plain(t)
    BY <1>2, <1>3 DEF Plain, Using, Bringing, Attaching, Assigning, Restoring, Renamings, Idle
  <1>7. ~Adds(t) /\ ~Adds(t)'
    BY <1>2, <1>3 DEF Adds, Renamings
  <1>8. AloneInv'
    <2>1. mgr' = mgr
      BY <1>4
    <2>2. Renaming(t)' => op'[t].model = op[t].model /\ op'[t].alone = op[t].alone
      BY DEF Renaming, Restoring, Idle
    <2> HIDE DEF Renaming, Restoring, Stands
    <2> QED BY <1>1, <2>1, <2>2, RenameMoves
  <1>9. LedgerInv'
    BY <1>1, <1>7, LedgerKept DEF Accounts
  <1> QED BY <1>4, <1>5, <1>6, <1>8, <1>9, PlainSchemaStep

LEMMA AlterKeeps ==
  ASSUME SchemaInv, NEW t \in Threads, Alter(t)
  PROVE  SchemaInv'
  <1> DEFINE n == mgr[Home[t]][op[t].model].table.name
             rec == [op[t] EXCEPT !.at = "rebind", !.moved = TRUE]
  <1>1. TypesInv /\ UsesInv /\ LedgerInv /\ Renaming(t)
    BY DEF SchemaInv, Alter, Renaming
  <1>2. n \in Names /\ op[t].target \in Names /\ op[t] \in RenameOps
    BY SMTT(60), <1>1, RenamingFields
  <1>3. /\ rec \in RenameOps /\ rec.at = "rebind" /\ rec.moved
        /\ rec.model = op[t].model /\ rec.alone = op[t].alone
    BY ZenonT(60), <1>2, RenameMoved
  <1>4. UNCHANGED <<ledger, applied, excused, cache, objects, ops>> /\ serial' = serial
    BY DEF Alter, objects
  <1>7. ~Restoring(t)
    BY DEF Alter, Restoring
  <1>5. CASE /\ Exists(n) /\ ~Exists(op[t].target)
             /\ Move(n, op[t].target) /\ Goto(t, rec) /\ Works
    <2> HIDE DEF rec, n
    <2>1. LiveMoves /\ live' \in [Names -> [id : Nat, cols : SUBSET AllColumns]]
      BY <1>1, <1>2, <1>4, <1>5, NoNewTable
    <2>2. op' \in [Threads -> Ops] /\ op'[t] = rec /\ \A u \in Threads \ {t} : op'[u] = op[u]
      BY <1>1, <1>3, <1>5, GotoOp, RenameOpsIn
    <2>3. Stands(rec, mgr[Home[t]][op[t].model])
      BY <1>3 DEF Stands
    <2> QED BY <1>1, <1>3, <1>4, <1>5, <1>7, <2>1, <2>2, <2>3, RenameDdlStep DEF Works
  <1>6. CASE Return(t) /\ live' = live
    <2>1. LiveMoves /\ live' \in [Names -> [id : Nat, cols : SUBSET AllColumns]]
      BY <1>1, <1>4, <1>6, LiveKept DEF TypesInv
    <2>2. op' \in [Threads -> Ops] /\ op'[t] = Idle /\ \A u \in Threads \ {t} : op'[u] = op[u]
      BY <1>1, <1>6, ReturnOp
    <2>3. faults' = faults \/ (faults < MaxFaults /\ faults' = faults + 1)
      BY DEF Alter, Works, Fails
    <2>4. ~Renaming(t)' /\ op'[t].at # "assign"
      BY <2>2 DEF Renaming, Restoring, Idle
    <2> HIDE DEF Renaming
    <2> QED BY <1>1, <1>4, <1>7, <2>1, <2>2, <2>3, <2>4, RenameDdlStep
  <1> QED BY <1>5, <1>6 DEF Alter, Proc

LEMMA VerifyKeeps ==
  ASSUME SchemaInv, NEW t \in Threads, Verify(t)
  PROVE  SchemaInv'
  <1> DEFINE rec == [op[t] EXCEPT !.at = "rollback"]
  <1>1. TypesInv /\ UsesInv /\ LedgerInv /\ Renaming(t)
    BY DEF SchemaInv, Verify, Renaming
  <1>2. op[t] \in RenameOps
    BY <1>1, RenamingFields
  <1>3. rec \in RenameOps /\ rec.at = "rollback" /\ rec.model = op[t].model /\ rec.alone = op[t].alone
    BY <1>2, RenameAt DEF Renamings
  <1>4. UNCHANGED <<live, ledger, applied, excused, cache, objects, ops>>
    BY DEF Verify, database
  <1>5. LiveMoves /\ live' \in [Names -> [id : Nat, cols : SUBSET AllColumns]]
    BY <1>1, <1>4, LiveKept DEF TypesInv, objects
  <1> HIDE DEF rec
  <1>6. /\ op' \in [Threads -> Ops] /\ \A u \in Threads \ {t} : op'[u] = op[u]
        /\ op'[t] = Idle \/ op'[t] = rec
    <2>1. rec \in Ops
      BY <1>3, RenameOpsIn
    <2>2. Return(t) \/ Goto(t, rec)
      BY DEF Verify, rec
    <2> QED BY <1>1, <2>1, <2>2, GotoOp, ReturnOp
  <1>7. faults' = faults \/ (faults < MaxFaults /\ faults' = faults + 1)
    BY DEF Verify, Works, Fails
  <1>8. ~Restoring(t) /\ op'[t].at # "assign" /\ Stands(op'[t], mgr[Home[t]][op[t].model])
    BY <1>3, <1>6 DEF Verify, Restoring, Stands, Idle
  <1> HIDE DEF Renaming, Restoring, Stands
  <1> QED BY <1>1, <1>3, <1>4, <1>5, <1>6, <1>7, <1>8, RenameDdlStep

LEMMA RollbackKeeps ==
  ASSUME SchemaInv, NEW t \in Threads, Rollback(t)
  PROVE  SchemaInv'
  <1> DEFINE undone == [op[t] EXCEPT !.at = "restore", !.moved = FALSE]
             failed == [op[t] EXCEPT !.at = "restore"]
  <1>1. TypesInv /\ UsesInv /\ LedgerInv /\ Renaming(t)
    BY DEF SchemaInv, Rollback, Renaming
  <1>2. op[t].from \in Names /\ op[t].target \in Names /\ op[t] \in RenameOps
    BY <1>1, RenamingFields
  <1>3. ASSUME NEW rec \in {undone, failed}
        PROVE  /\ rec \in RenameOps /\ rec.at = "restore"
               /\ rec.model = op[t].model /\ rec.alone = op[t].alone
    <2>1. "restore" \in Renamings
      BY DEF Renamings
    <2>2. CASE rec = undone
      BY ZenonT(60), <1>2, <2>2, RenameMoved
    <2>3. CASE rec = failed
      BY <1>2, <2>1, <2>3, RenameAt
    <2> QED BY <2>2, <2>3
  <1>4. UNCHANGED <<ledger, applied, excused, cache, objects, ops>> /\ serial' = serial
    BY DEF Rollback, objects
  <1>5. faults' = faults \/ (faults < MaxFaults /\ faults' = faults + 1)
    BY DEF Rollback, Works, Fails
  <1>6. PICK rec \in {undone, failed} : Goto(t, rec)
    BY DEF Rollback
  <1>7. LiveMoves /\ live' \in [Names -> [id : Nat, cols : SUBSET AllColumns]]
    <2>1. CASE live' = live
      BY <1>1, <1>4, <2>1, LiveKept DEF TypesInv
    <2>2. CASE Exists(op[t].target) /\ ~Exists(op[t].from) /\ Move(op[t].target, op[t].from)
      BY <1>1, <1>2, <1>4, <2>2, NoNewTable
    <2> QED BY <2>1, <2>2 DEF Rollback
  <1> HIDE DEF undone, failed
  <1>8. op' \in [Threads -> Ops] /\ op'[t] = rec /\ \A u \in Threads \ {t} : op'[u] = op[u]
    BY <1>1, <1>3, <1>6, GotoOp, RenameOpsIn
  <1>9. ~Restoring(t) /\ op'[t].at # "assign" /\ Stands(op'[t], mgr[Home[t]][op[t].model])
    BY <1>3, <1>8 DEF Rollback, Restoring, Stands
  <1> HIDE DEF Renaming, Restoring, Stands
  <1> QED BY <1>1, <1>3, <1>4, <1>5, <1>7, <1>8, <1>9, RenameDdlStep

LEMMA RenameTableKeeps ==
  ASSUME SchemaInv, NEW t \in Threads, NEW m \in Models, NEW target \in Names,
         RenameTable(t, m, target)
  PROVE  SchemaInv'
  <1> DEFINE p == Home[t]
             g == mgr[p][m]
             rec == [at |-> "alter", model |-> m, from |-> g.name, target |-> target,
                     alone |-> Rivals(t, m) = {}, moved |-> FALSE, table |-> NoObject]
  <1>1. /\ TypesInv /\ UsesInv /\ LedgerInv /\ AloneInv /\ p \in Processes /\ Has(p, m)
        /\ op[t] = Idle
    BY HomeType DEF SchemaInv, RenameTable, Registered, Proc, Has, Call
  <1>2. g.name \in Names
    BY <1>1, ManagerType
  <1>3. op' = [u \in Threads |->
                  IF u = t THEN rec
                  ELSE IF u \in Rivals(t, m) THEN [op[u] EXCEPT !.alone = FALSE] ELSE op[u]]
    BY DEF RenameTable, Proc
  <1>4. rec \in RenameOps /\ rec.at = "alter" /\ rec.model = m /\ rec.from = g.name /\ ~rec.moved
        /\ (rec.alone <=> Rivals(t, m) = {})
    BY <1>2 DEF RenameOps, Renamings
  <1> HIDE DEF rec
  <1>5. ASSUME NEW u \in Rivals(t, m)
        PROVE  /\ u \in Threads \ {t} /\ op[u] \in RenameOps /\ op'[u] \in RenameOps
               /\ op'[u].at = op[u].at /\ op'[u].model = op[u].model /\ ~op'[u].alone
               /\ op'[u].table = op[u].table
               /\ Has(Home[u], op[u].model)
    <2>1. u \in Threads \ {t} /\ Renaming(u)
      BY DEF Rivals
    <2>2. op[u] \in RenameOps /\ Has(Home[u], op[u].model)
      BY <1>1, <2>1, RenamingFields
    <2>3. op'[u] = [op[u] EXCEPT !.alone = FALSE]
      BY <1>3, <2>1
    <2> QED BY <2>1, <2>2, <2>3, RenameNotAlone
  <1>6. op'[t] = rec /\ \A u \in Threads \ {t} : u \in Rivals(t, m) \/ op'[u] = op[u]
    BY <1>3
  <1>7. op' \in [Threads -> Ops]
    <2>1. \A u \in Threads : op'[u] \in Ops
      BY <1>1, <1>4, <1>5, <1>6, RenameOpsIn DEF TypesInv
    <2> HIDE DEF Ops
    <2> QED BY <1>3, <2>1
  <1>8. /\ UNCHANGED <<database, cache, objects, faults>> /\ ops < MaxOps /\ ops' = ops + 1
        /\ UNCHANGED <<cache, mgr, claimed>> /\ serial <= serial'
    BY <1>1 DEF RenameTable, Call, objects, TypesInv
  <1>9. TypesInv'
    BY <1>1, <1>7, <1>8, TypesParts, TypesPartsNext, PartsKept, CountersStep
  <1>10. ASSUME NEW u \in Threads PROVE op'[u] = op[u] \/ (Plain(u) /\ Accounts(u))
    <2>1. ASSUME op'[u] \in RenameOps, Has(Home[u], op'[u].model),
                 \/ op[u] = Idle /\ op'[u].at = "alter"
                 \/ /\ op[u] \in RenameOps /\ op'[u].at = op[u].at /\ op'[u].model = op[u].model
                    /\ op'[u].table = op[u].table /\ ~op'[u].alone
          PROVE  Plain(u) /\ Accounts(u)
      <3>1. op'[u].at \in Renamings /\ op[u].at \in Renamings \cup {"idle"}
        BY <2>1 DEF RenameOps, Idle
      <3>2. Restoring(u) => Restoring(u)' /\ op'[u].model = op[u].model
        BY <2>1 DEF Restoring, Idle
      <3>3. Assigning(u)' => /\ Assigning(u) /\ op'[u].table = op[u].table
                             /\ op'[u].model = op[u].model /\ ~op'[u].alone
        BY <2>1 DEF Assigning, Idle
      <3> HIDE DEF Restoring, Assigning
      <3> QED BY <2>1, <3>1, <3>2, <3>3 DEF Plain, Accounts, Adds, Using, Bringing, Attaching, Renamings
    <2>2. CASE u = t
      BY <1>1, <1>4, <1>6, <2>1, <2>2
    <2>3. CASE u # t
      BY <1>5, <1>6, <2>1, <2>3
    <2> QED BY <2>2, <2>3
  <1>11. LedgerInv'
    BY <1>1, <1>8, <1>10, LiveKept, LedgerKept DEF database, objects, TypesInv
  <1>12. AloneInv'
    <2> SUFFICES ASSUME NEW u \in Threads, Renaming(u)', op'[u].alone
                 PROVE  /\ \A w \in Threads :
                              Home[w] = Home[u] /\ Renaming(w)' /\ op'[w].model = op'[u].model => w = u
                        /\ Stands(op'[u], mgr'[Home[u]][op'[u].model])
      <3> HIDE DEF Renaming, Stands
      <3> QED BY DEF AloneInv
    <2>1. ASSUME NEW w \in Threads \ {t}, Renaming(w)'
          PROVE  Renaming(w) /\ op'[w].model = op[w].model
      BY <1>5, <1>6, <2>1 DEF Renaming, Restoring
    <2> HIDE DEF Renaming
    <2>2. CASE u = t
      <3>1. Rivals(t, m) = {} /\ op'[t] = rec
        BY <1>4, <1>6, <2>2
      <3>2. \A w \in Threads \ {t} : ~(Home[w] = Home[t] /\ Renaming(w)' /\ op'[w].model = m)
        BY <2>1, <3>1 DEF Rivals, Proc
      <3>3. Stands(rec, mgr'[Home[t]][m])
        BY <1>4, <1>8 DEF Stands
      <3> QED BY <1>4, <2>2, <3>1, <3>2, <3>3
    <2>3. CASE u # t
      <3>1. op'[u] = op[u] /\ Renaming(u) /\ op[u].alone /\ u \notin Rivals(t, m)
        BY <1>5, <1>6, <2>1, <2>3
      <3>2. ~(Home[u] = Home[t] /\ op[u].model = m)
        BY <2>3, <3>1 DEF Rivals, Proc
      <3>3. /\ \A w \in Threads : Home[w] = Home[u] /\ Renaming(w) /\ op[w].model = op[u].model => w = u
            /\ Stands(op[u], mgr[Home[u]][op[u].model])
        BY <1>1, <3>1 DEF AloneInv
      <3>4. ASSUME NEW w \in Threads, Home[w] = Home[u], Renaming(w)', op'[w].model = op[u].model
            PROVE  w = u
        <4>1. w # t
          BY <1>4, <1>6, <3>2, <3>4
        <4> QED BY <2>1, <3>3, <3>4, <4>1
      <3> HIDE DEF Stands
      <3> QED BY <1>8, <3>1, <3>3, <3>4
    <2> QED BY <2>2, <2>3
  <1> QED BY <1>8, <1>9, <1>10, <1>11, <1>12, PlainSchemaStep


-----------------------------------------------------------------------------
(* Added columns.                                                          *)

EnsureOps == [at : {"ensure"}, model : Models, record : BOOLEAN, added : SUBSET Entries,
              todo : SUBSET AllColumns]
AddOps == [at : {"add"}, model : Models, record : BOOLEAN, added : SUBSET Entries,
           todo : SUBSET AllColumns, col : AllColumns]

LEMMA ColumnOpsIn == EnsureOps \subseteq Ops /\ AddOps \subseteq Ops /\ Idle \in Ops
  BY DEF Ops, EnsureOps, AddOps

LEMMA AddsFields ==
  ASSUME TypesInv, UsesInv, NEW t \in Threads, Adds(t)
  PROVE  /\ op[t] \in EnsureOps \cup AddOps
         /\ op[t].at = "ensure" => op[t] \in EnsureOps
         /\ op[t].at = "add" => op[t] \in AddOps
         /\ op[t].model \in Models /\ op[t].added \subseteq Entries
         /\ Home[t] \in Processes /\ Has(Home[t], op[t].model)
         /\ mgr[Home[t]][op[t].model].table.name \in Names
  <1>1. op[t] \in EnsureOps \cup AddOps /\ op[t].model \in Models /\ op[t].added \subseteq Entries
    BY OpFields DEF Adds, EnsureOps, AddOps
  <1>2. Has(Home[t], op[t].model)
    BY DEF UsesInv, Using, Adds
  <1>3. mgr[Home[t]][op[t].model].table.name \in Names
    BY <1>1, <1>2, HomeType, ManagerType DEF Object
  <1> QED BY <1>1, <1>2, <1>3, HomeType, OpFields DEF EnsureOps, AddOps

LEMMA ColumnStep ==
  ASSUME SchemaInv, NEW t \in Threads, op[t] = Idle \/ Adds(t), op' \in [Threads -> Ops],
         \A u \in Threads \ {t} : op'[u] = op[u],
         op'[t] = Idle \/ (op'[t] \in EnsureOps \cup AddOps /\ Has(Home[t], op'[t].model)),
         UNCHANGED <<cache, objects>>, DatabaseTypes', CounterTypes', LedgerInv'
  PROVE  SchemaInv'
  <1>1. TypesInv /\ AloneInv
    BY DEF SchemaInv
  <1>2. op'[t].at \in {"idle", "ensure", "add"}
    BY DEF Idle, EnsureOps, AddOps
  <1>3. Plain(t)
    <2>1. ~Restoring(t)
      BY DEF Restoring, Adds, Idle
    <2> QED BY <1>2, <2>1 DEF Plain, Using, Bringing, Attaching, Assigning, Idle, Renamings
  <1>4. AloneInv'
    BY <1>1, <1>2, NoRename DEF Renamings, objects
  <1>5. TypesInv'
    BY <1>1, TypesParts, TypesPartsNext, PartsKept
  <1>6. UNCHANGED <<cache, mgr, claimed>> /\ serial <= serial'
    BY <1>1 DEF objects, TypesInv
  <1> QED BY <1>3, <1>4, <1>5, <1>6, PlainSchemaStep

LEMMA EnsureBegins ==
  ASSUME SchemaInv, NEW t \in Threads, NEW rec \in EnsureOps, rec.added = {}, Goto(t, rec),
         Has(Home[t], rec.model), Call(t), UNCHANGED <<database, cache, objects, faults>>
  PROVE  SchemaInv'
  <1>1. TypesInv /\ LedgerInv
    BY DEF SchemaInv
  <1>2. op' \in [Threads -> Ops] /\ op'[t] = rec /\ \A u \in Threads \ {t} : op'[u] = op[u]
    BY <1>1, GotoOp, ColumnOpsIn
  <1>3. Accounts(t)
    BY <1>2 DEF Accounts, Adds, Call, Idle
  <1>4. LiveMoves
    BY <1>1, LiveKept DEF database, objects, TypesInv
  <1>5. LedgerInv'
    BY <1>1, <1>2, <1>3, <1>4, LedgerKept DEF database
  <1>6. DatabaseTypes' /\ CounterTypes'
    BY <1>1, TypesParts, PartsKept, CountersStep DEF Call
  <1> QED BY <1>2, <1>5, <1>6, ColumnStep DEF Call

LEMMA MigrateKeeps ==
  ASSUME SchemaInv, NEW t \in Threads, NEW m \in Models, Migrate(t, m)
  PROVE  SchemaInv'
  <1> DEFINE todo == MissingColumns(mgr[Home[t]][m].table)
             rec == [at |-> "ensure", model |-> m, record |-> TRUE, added |-> {}, todo |-> todo]
  <1>1. TypesInv /\ Has(Home[t], m) /\ Home[t] \in Processes
    BY HomeType DEF SchemaInv, Migrate, Registered, Proc, Has
  <1>2. todo \subseteq AllColumns
    BY <1>1, ManagerType DEF MissingColumns, Object
  <1>3. Call(t) /\ UNCHANGED <<database, cache, objects, faults>> /\ Goto(t, rec)
    BY DEF Migrate, Proc
  <1> HIDE DEF todo
  <1>4. rec \in EnsureOps /\ rec.added = {} /\ rec.model = m
    BY <1>2 DEF EnsureOps
  <1> HIDE DEF rec
  <1> QED BY <1>1, <1>3, <1>4, EnsureBegins

LEMMA EnsureColumnKeeps ==
  ASSUME SchemaInv, NEW t \in Threads, NEW m \in Models, NEW c \in Columns[m], EnsureColumn(t, m, c)
  PROVE  SchemaInv'
  <1> DEFINE rec == [at |-> "ensure", model |-> m, record |-> FALSE, added |-> {}, todo |-> {c}]
  <1>1. Has(Home[t], m)
    BY DEF EnsureColumn, Registered, Proc, Has
  <1>2. Call(t) /\ UNCHANGED <<database, cache, objects, faults>> /\ Goto(t, rec)
    BY DEF EnsureColumn
  <1>3. rec \in EnsureOps /\ rec.added = {} /\ rec.model = m
    BY ColumnsType DEF EnsureOps
  <1> HIDE DEF rec
  <1> QED BY <1>1, <1>2, <1>3, EnsureBegins

LEMMA EnsureKeeps ==
  ASSUME SchemaInv, NEW t \in Threads, NEW c \in AllColumns, Ensure(t, c)
  PROVE  SchemaInv'
  <1> DEFINE o == op[t]
             next == [o EXCEPT !.todo = @ \ {c}]
             add == [at |-> "add", model |-> o.model, record |-> o.record,
                     added |-> o.added, todo |-> o.todo, col |-> c]
  <1>1. TypesInv /\ UsesInv /\ LedgerInv /\ Adds(t) /\ o.at = "ensure"
    BY DEF SchemaInv, Ensure, Adds
  <1>2. o \in EnsureOps /\ Has(Home[t], o.model) /\ o.added \subseteq Entries
    BY <1>1, AddsFields
  <1>3. /\ next \in EnsureOps /\ next.model = o.model /\ next.added = o.added
        /\ next.record = o.record
    BY <1>2 DEF EnsureOps
  <1>4. /\ add \in AddOps /\ add.model = o.model /\ add.added = o.added
        /\ add.record = o.record
    BY <1>2 DEF EnsureOps, AddOps
  <1>5. UNCHANGED <<live, ledger, applied, cache, objects, ops, faults>>
    BY DEF Ensure
  <1>6. \/ Return(t) /\ excused' = excused \cup o.added
        \/ (Goto(t, next) \/ Goto(t, add)) /\ UNCHANGED excused
    BY DEF Ensure, Raise
  <1> HIDE DEF next, add
  <1>7. /\ op' \in [Threads -> Ops] /\ \A u \in Threads \ {t} : op'[u] = op[u]
        /\ \/ op'[t] = Idle /\ excused' = excused \cup o.added
           \/ op'[t] \in {next, add} /\ UNCHANGED excused
    BY <1>1, <1>3, <1>4, <1>6, GotoOp, ReturnOp, ColumnOpsIn
  <1>8. Accounts(t) /\ excused \subseteq excused'
    <2>1. \A x \in EnsureOps \cup AddOps : x.at \in {"ensure", "add"}
      BY DEF EnsureOps, AddOps
    <2> QED BY <1>1, <1>3, <1>4, <1>7, <2>1 DEF Accounts, Adds, Idle
  <1>9. LiveMoves
    BY <1>1, <1>5, LiveKept DEF objects, TypesInv
  <1>10. LedgerInv'
    BY <1>1, <1>5, <1>7, <1>8, <1>9, LedgerKept
  <1>11. DatabaseTypes' /\ CounterTypes'
    BY <1>1, <1>2, <1>5, <1>7 DEF TypesInv, DatabaseTypes, CounterTypes
  <1> QED BY <1>1, <1>2, <1>3, <1>4, <1>5, <1>7, <1>10, <1>11, ColumnStep

LEMMA RecordKeeps ==
  ASSUME SchemaInv, NEW t \in Threads, Record(t)
  PROVE  SchemaInv'
  <1> DEFINE o == op[t]
  <1>1. TypesInv /\ UsesInv /\ LedgerInv /\ Adds(t) /\ o.at = "ensure"
    BY DEF SchemaInv, Record, Adds
  <1>2. o \in EnsureOps /\ o.added \subseteq Entries /\ o.record \in BOOLEAN
    BY <1>1, AddsFields DEF EnsureOps
  <1>3. /\ UNCHANGED <<live, applied, cache, objects, ops>>
        /\ faults' = faults \/ (faults < MaxFaults /\ faults' = faults + 1)
    BY DEF Record, Works, Fails
  <1>4. op' \in [Threads -> Ops] /\ op'[t] = Idle /\ \A u \in Threads \ {t} : op'[u] = op[u]
    BY <1>1, ReturnOp DEF Record
  <1>5. DatabaseTypes' /\ CounterTypes'
    <2>1. DatabaseTypes'
      BY <1>1, <1>2, <1>3 DEF Record, TypesInv, DatabaseTypes
    <2> QED BY <1>1, <1>3, <2>1, TypesParts, CountersStep
  <1>6. LiveMoves
    BY <1>1, <1>3, LiveKept DEF objects, TypesInv
  <1>7. LedgerInv'
    <2>1. CASE excused' = excused \cup o.added /\ UNCHANGED ledger
      <3>1. Accounts(t)
        BY <1>4, <2>1 DEF Accounts, Adds, Idle
      <3> QED BY <1>1, <1>3, <1>4, <1>6, <2>1, <3>1, LedgerKept
    <2>2. CASE ledger' = (IF o.record THEN ledger \cup o.added ELSE ledger) /\ UNCHANGED excused
      <3>1. ASSUME NEW x \in applied
            PROVE  x \in ledger' \cup excused' \/ (Adds(x[3])' /\ x \in op'[x[3]].added)
        <4>1. x[3] \in Threads
          BY <1>1 DEF TypesInv, Entries
        <4>2. x \in ledger \cup excused \/ (Adds(x[3]) /\ x \in op[x[3]].added)
          BY <1>1 DEF LedgerInv
        <4>3. CASE x \in ledger \cup excused
          BY <2>2, <4>3
        <4>4. CASE Adds(x[3]) /\ x \in op[x[3]].added /\ x[3] # t
          BY <1>4, <4>1, <4>4 DEF Adds
        <4>5. CASE x \in o.added
          BY <1>1, <2>2, <4>5 DEF LedgerInv
        <4> QED BY <4>2, <4>3, <4>4, <4>5
      <3>2. ledger' \subseteq applied'
        BY <1>1, <1>3, <2>2 DEF LedgerInv
      <3>3. ~Adds(t)' /\ \A u \in Threads \ {t} : (Adds(u)' <=> Adds(u)) /\ op'[u] = op[u]
        BY <1>4 DEF Adds, Idle
      <3>4. UNCHANGED <<live, serial, applied>>
        BY <1>3 DEF objects
      <3>5. \A u \in Threads : Adds(u)' =>
               /\ \A x \in op'[u].added : x[3] = u
               /\ op'[u].record => op'[u].added \subseteq applied'
               /\ ~op'[u].record => op'[u].added \cap applied' = {}
        BY SMTT(60), <1>1, <3>3, <3>4 DEF LedgerInv
      <3> QED BY <1>1, <3>1, <3>2, <3>4, <3>5 DEF LedgerInv
    <2> QED BY <2>1, <2>2 DEF Record
  <1> QED BY <1>1, <1>3, <1>4, <1>5, <1>7, ColumnStep

LEMMA EntryType ==
  ASSUME NEW i \in Nat, NEW c \in AllColumns, NEW t \in Threads
  PROVE  /\ <<i, c, t>> \in Entries
         /\ <<i, c, t>>[1] = i /\ <<i, c, t>>[2] = c /\ <<i, c, t>>[3] = t
  BY DEF Entries

LEMMA AddColumnKeeps ==
  ASSUME SchemaInv, NEW t \in Threads, AddColumn(t)
  PROVE  SchemaInv'
  <1> DEFINE o == op[t]
             n == mgr[Home[t]][o.model].table.name
             entry == <<live[n].id, o.col, t>>
             rec == [at |-> "ensure", model |-> o.model, record |-> o.record,
                     added |-> o.added \cup {entry}, todo |-> o.todo \ {o.col}]
  <1>1. TypesInv /\ UsesInv /\ LedgerInv /\ Adds(t) /\ o.at = "add"
    BY ZenonT(60) DEF SchemaInv, AddColumn, Adds
  <1>2. /\ o \in AddOps /\ Has(Home[t], o.model) /\ o.added \subseteq Entries /\ n \in Names
        /\ o.record \in BOOLEAN
    BY SMTT(60), <1>1, AddsFields DEF AddOps
  <1>3. live[n].id \in Nat /\ o.col \in AllColumns /\ live[n].cols \subseteq AllColumns
    BY SMTT(60), <1>1, <1>2 DEF TypesInv, AddOps
  <1>4. entry \in Entries /\ entry[1] = live[n].id /\ entry[2] = o.col /\ entry[3] = t
    BY <1>3, EntryType, Zenon
  <1>5. /\ UNCHANGED <<ledger, cache, objects, ops>> /\ serial' = serial
        /\ faults' = faults \/ (faults < MaxFaults /\ faults' = faults + 1)
    BY ZenonT(60) DEF AddColumn, Works, Fails, objects
  <1>6. CASE Raise(t) /\ UNCHANGED <<live, applied>>
    <2>1. op' \in [Threads -> Ops] /\ op'[t] = Idle /\ \A u \in Threads \ {t} : op'[u] = op[u]
      BY <1>1, <1>6, ReturnOp DEF Raise
    <2>2. excused' = excused \cup o.added
      BY <1>6 DEF Raise
    <2>3. Accounts(t)
      BY <2>1, <2>2 DEF Accounts, Adds, Idle
    <2>4. LiveMoves
      BY <1>1, <1>5, <1>6, LiveKept DEF TypesInv
    <2>5. LedgerInv'
      BY <1>1, <1>5, <1>6, <2>1, <2>2, <2>3, <2>4, LedgerKept
    <2>6. DatabaseTypes'
      BY <1>1, <1>2, <1>5, <1>6, <2>2 DEF TypesInv, DatabaseTypes
    <2>7. CounterTypes'
      BY <1>1, <1>5, TypesParts, CountersStep
    <2> QED BY <1>1, <1>5, <2>1, <2>5, <2>6, <2>7, ColumnStep
  <1>7. CASE /\ Exists(n) /\ o.col \notin live[n].cols
             /\ live' = [live EXCEPT ![n].cols = @ \cup {o.col}]
             /\ applied' = (IF o.record THEN applied \cup {entry} ELSE applied)
             /\ Goto(t, rec) /\ Works /\ UNCHANGED excused
    <2> HIDE DEF entry, n
    <2>1. /\ rec \in EnsureOps /\ rec.at = "ensure" /\ rec.model = o.model /\ rec.record = o.record
          /\ rec.added = o.added \cup {entry}
      BY <1>2, <1>4 DEF AddOps, EnsureOps
    <2> HIDE DEF rec
    <2>2. op' \in [Threads -> Ops] /\ op'[t] = rec /\ \A u \in Threads \ {t} : op'[u] = op[u]
      BY <1>1, <1>7, <2>1, GotoOp, ColumnOpsIn
    <2>3. /\ live'[n].id = live[n].id /\ live'[n].cols = live[n].cols \cup {o.col}
          /\ \A k \in Names \ {n} : live'[k] = live[k]
          /\ live' \in [Names -> [id : Nat, cols : SUBSET AllColumns]]
      BY <1>1, <1>2, <1>3, <1>7 DEF TypesInv
    <2>4. live[n].id # 0 /\ live[n].id <= serial /\ live[n] # NoTable
      BY <1>1, <1>2, <1>7 DEF LedgerInv, Exists
    <2>5. \A k \in Names : live'[k].id = live[k].id /\ live[k].cols \subseteq live'[k].cols
      BY <2>3
    <2>6. entry[1] \in 1 .. serial
      BY <1>1, <1>3, <1>4, <2>4 DEF TypesInv
    <2>7. \A x \in applied : ~(x[1] = entry[1] /\ x[2] = entry[2])
      BY <1>1, <1>2, <1>4, <1>7 DEF LedgerInv
    <2>8. applied' \subseteq applied \cup {entry}
      BY <1>7
    <2>9. /\ \A k \in Names : live'[k].id <= serial'
          /\ \A k, l \in Names : live'[k] # NoTable /\ live'[k].id = live'[l].id => k = l
          /\ \A k \in Names : live'[k].id = 0 => live'[k] = NoTable
      <3>1. \A k \in Names : live'[k] # NoTable => live[k] # NoTable
        BY <2>3, <2>4
      <3> QED BY <1>1, <1>5, <2>3, <2>4, <2>5, <3>1 DEF LedgerInv
    <2>10. ASSUME NEW x \in applied'
           PROVE  /\ x[1] \in 1 .. serial'
                  /\ \A k \in Names : live'[k].id = x[1] => x[2] \in live'[k].cols
                  /\ \A y \in applied' : x[1] = y[1] /\ x[2] = y[2] => x = y
                  /\ x \in ledger' \cup excused' \/ (Adds(x[3])' /\ x \in op'[x[3]].added)
      <3>1. CASE x = entry
        <4>1. \A k \in Names : live'[k].id = x[1] => k = n
          BY <1>1, <1>2, <1>4, <2>4, <2>5, <3>1 DEF LedgerInv
        <4>2. \A k \in Names : live'[k].id = x[1] => x[2] \in live'[k].cols
          BY <1>2, <1>4, <2>3, <3>1, <4>1
        <4>3. Adds(x[3])' /\ x \in op'[x[3]].added
          BY <1>4, <2>1, <2>2, <3>1 DEF Adds
        <4> QED BY <1>5, <2>6, <2>7, <2>8, <3>1, <4>2, <4>3
      <3>2. CASE x \in applied
        <4>1. x[3] \in Threads
          BY <1>1, <3>2 DEF TypesInv, Entries
        <4>2. /\ x[1] \in 1 .. serial
              /\ \A k \in Names : live[k].id = x[1] => x[2] \in live[k].cols
              /\ \A y \in applied : x[1] = y[1] /\ x[2] = y[2] => x = y
              /\ x \in ledger \cup excused \/ (Adds(x[3]) /\ x \in op[x[3]].added)
          BY <1>1, <3>2 DEF LedgerInv
        <4>3. Adds(x[3]) /\ x \in op[x[3]].added => Adds(x[3])' /\ x \in op'[x[3]].added
          BY <2>1, <2>2, <4>1 DEF Adds
        <4>4. \A y \in applied' : x[1] = y[1] /\ x[2] = y[2] => x = y
          BY <2>7, <2>8, <3>2, <4>2
        <4> QED BY <1>5, <1>7, <2>5, <4>2, <4>3, <4>4
      <3> QED BY <2>8, <3>1, <3>2
    <2>11. ASSUME NEW u \in Threads, Adds(u)'
           PROVE  /\ \A x \in op'[u].added : x[3] = u
                  /\ op'[u].record => op'[u].added \subseteq applied'
                  /\ ~op'[u].record => op'[u].added \cap applied' = {}
      <3>1. CASE u = t
        <4>1. /\ \A x \in o.added : x[3] = t
              /\ o.record => o.added \subseteq applied
              /\ ~o.record => o.added \cap applied = {}
          BY <1>1 DEF LedgerInv
        <4> QED BY <1>4, <1>7, <2>1, <2>2, <2>7, <3>1, <4>1
      <3>2. CASE u # t
        <4>1. Adds(u) /\ op'[u] = op[u]
          BY <2>2, <2>11, <3>2 DEF Adds
        <4>2. /\ \A x \in op[u].added : x[3] = u
              /\ op[u].record => op[u].added \subseteq applied
              /\ ~op[u].record => op[u].added \cap applied = {}
          BY <1>1, <4>1 DEF LedgerInv
        <4>3. entry \notin op[u].added
          BY <1>4, <3>2, <4>2
        <4> QED BY <1>7, <2>8, <4>1, <4>2, <4>3
      <3> QED BY <3>1, <3>2
    <2>12. ledger' \subseteq applied'
      BY <1>1, <1>5, <1>7 DEF LedgerInv
    <2>13. LedgerInv'
      BY <2>9, <2>10, <2>11, <2>12 DEF LedgerInv
    <2>14. DatabaseTypes'
      BY <1>1, <1>4, <1>5, <1>7, <2>3 DEF TypesInv, DatabaseTypes
    <2>15. CounterTypes'
      BY SMTT(60), <1>1, <1>5, TypesParts, CountersStep
    <2> QED BY <1>1, <1>2, <1>5, <2>1, <2>2, <2>13, <2>14, <2>15, ColumnStep
  <1> QED BY ZenonT(60), <1>6, <1>7 DEF AddColumn, Proc


-----------------------------------------------------------------------------
(* The steps of the engine cache.                                          *)

\* The caches of the other processes, and what their threads do, stay.
LEMMA CacheElsewhere ==
  ASSUME CacheInv, NEW p \in Processes,
         \A q \in Processes \ {p} :
             /\ contexts'[q] = contexts[q] /\ cached'[q] = cached[q]
             /\ engines'[q] = engines[q] /\ engine'[q] = engine[q],
         \A u \in Threads : Home[u] # p => op'[u] = op[u],
         CacheAt(p)'
  PROVE  CacheInv'
  <1>1. ASSUME NEW q \in Processes, q # p PROVE CacheAt(q)'
    BY SMTT(60), <1>1 DEF CacheInv, CacheAt
  <1> QED BY <1>1 DEF CacheInv

DisposeOps == {Idle} \cup [at : {"close"}, engine : Nat] \cup [at : {"evict"}]

\* A step of a dispose: the metadata of the contexts stays.
LEMMA DisposeStep ==
  ASSUME SchemaInv, NEW t \in Threads, UNCHANGED <<database, objects>>,
         CacheTypes', CounterTypes', CacheInv', op' \in [Threads -> Ops],
         \A u \in Threads \ {t} : op'[u] = op[u],
         op[t].at \in {"idle", "close", "evict"}, op'[t] \in DisposeOps,
         \A p \in Processes :
             /\ Len(contexts'[p]) = Len(contexts[p])
             /\ \A i \in 1 .. Len(contexts[p]) : contexts'[p][i].tables = contexts[p][i].tables
  PROVE  SchemaInv'
  <1>1. TypesInv /\ UsesInv /\ LedgerInv /\ AloneInv
    BY DEF SchemaInv
  <1>2. op'[t].at \in {"idle", "close", "evict"}
    BY DEF DisposeOps, Idle
  <1>3. TypesInv'
    BY <1>1, TypesParts, TypesPartsNext, PartsKept
  <1>4. /\ ~Using(t) /\ ~Bringing(t) /\ ~Attaching(t) /\ ~Adds(t)
        /\ ~Using(t)' /\ ~Bringing(t)' /\ ~Attaching(t)' /\ ~Adds(t)'
        /\ ~Restoring(t) /\ ~Assigning(t)'
    BY <1>2 DEF Using, Bringing, Attaching, Adds, Renamings, Restoring, Assigning
  <1>5. \A u \in Threads \ {t} :
           /\ Using(u)' <=> Using(u)
           /\ Bringing(u)' <=> Bringing(u)
           /\ Attaching(u)' <=> Attaching(u)
    BY DEF Using, Bringing, Attaching
  <1>6. serial' = serial /\ claimed' = claimed /\ mgr' = mgr
    BY DEF objects
  <1>7. UsesInv'
    <2>1. op'[t].at \notin {"check", "create"}
      BY <1>2
    <2> HIDE DEF Using, Bringing, Attaching
    <2>2. \A p \in Processes, m \in Models : Has(p, m)' <=> Has(p, m)
      BY <1>6 DEF Has
    <2>3. ASSUME NEW q \in Processes, NEW m \in Models, Has(q, m)'
          PROVE  mgr'[q][m].ctx \in 1 .. Len(contexts'[q])
      BY <1>1, <1>6, <2>2, <2>3 DEF UsesInv
    <2>4. ASSUME NEW u \in Threads \ {t}, Bringing(u)'
          PROVE  /\ mgr'[Home[u]][op'[u].model] = NoManager
                 /\ op'[u].ctx \in 1 .. Len(contexts'[Home[u]])
                 /\ \A w \in Threads : Home[w] = Home[u] /\ Bringing(w)' /\ op'[w].model = op'[u].model
                      => w = u
      <3>1. Bringing(u) /\ op'[u] = op[u] /\ Home[u] \in Processes
        BY <1>5, <2>4, HomeType
      <3>2. mgr'[Home[u]][op'[u].model] = mgr[Home[u]][op[u].model]
        BY <1>6, <3>1
      <3>3. ~Has(Home[u], op[u].model) /\ op[u].ctx \in 1 .. Len(contexts[Home[u]])
        BY <1>1, <3>1 DEF UsesInv
      <3>4. \A w \in Threads : Home[w] = Home[u] /\ Bringing(w)' /\ op'[w].model = op'[u].model
                      => w = u
        BY <1>1, <1>4, <1>5, <3>1 DEF UsesInv
      <3>5. mgr'[Home[u]][op'[u].model] = NoManager
        BY <3>2, <3>3 DEF Has
      <3> QED BY <3>1, <3>3, <3>4, <3>5
    <2>5. ASSUME NEW u \in Threads \ {t}
          PROVE  /\ Using(u)' => mgr'[Home[u]][op'[u].model] # NoManager
                 /\ op'[u].at \in {"check", "create"} => op'[u].ctx \in 0 .. Len(contexts'[Home[u]])
      <3>1. op'[u] = op[u] /\ Home[u] \in Processes /\ (Using(u)' => Using(u))
        BY <1>5, HomeType
      <3>2. mgr'[Home[u]][op'[u].model] = mgr[Home[u]][op[u].model]
        BY <1>6, <3>1
      <3> QED BY <1>1, <3>1, <3>2 DEF UsesInv, Has
    <2>6. ASSUME NEW u \in Threads
          PROVE  /\ Using(u)' => mgr'[Home[u]][op'[u].model] # NoManager
                 /\ Bringing(u)' =>
                       /\ mgr'[Home[u]][op'[u].model] = NoManager
                       /\ op'[u].ctx \in 1 .. Len(contexts'[Home[u]])
                       /\ \A w \in Threads :
                             Home[w] = Home[u] /\ Bringing(w)' /\ op'[w].model = op'[u].model => w = u
                 /\ op'[u].at \in {"check", "create"} => op'[u].ctx \in 0 .. Len(contexts'[Home[u]])
      BY <1>4, <2>1, <2>4, <2>5
    <2> QED BY <2>3, <2>6 DEF UsesInv, Has
  <1>8. Calm
    <2>1. \A p \in Processes : \A i \in 1 .. Len(contexts'[p]) :
             i \in 1 .. Len(contexts[p]) /\ Objects(p, i)' = Objects(p, i)
      BY DEF Objects
    <2>2. \A p \in Processes, m \in Models : Has(p, m)' =>
             mgr'[p][m] = mgr[p][m] /\ mgr[p][m].ctx \in 1 .. Len(contexts'[p])
      BY <1>1, <1>6 DEF UsesInv, Has
    <2>3. ASSUME NEW u \in Threads, Attaching(u)'
          PROVE  /\ Attaching(u) /\ op'[u] = op[u]
                 /\ op[u].ctx \in 1 .. Len(contexts'[Home[u]])
      <3>1. u # t /\ Attaching(u) /\ op'[u] = op[u]
        BY <1>4, <1>5, <2>3
      <3>2. op[u].ctx \in 1 .. Len(contexts[Home[u]]) /\ Home[u] \in Processes
        BY <1>1, <3>1, HomeType DEF UsesInv, Bringing
      <3> QED BY <3>1, <3>2
    <2>4. serial' \in Nat /\ serial <= serial' /\ claimed \subseteq claimed'
      BY <1>1, <1>6 DEF TypesInv
    <2>5. \A p \in Processes, m \in Models : Has(p, m)' /\ Unbound(p, m) => Unbound(p, m)'
      <3>1. \A u \in Threads : Restoring(u) => Restoring(u)' /\ op'[u].model = op[u].model
        BY <1>4 DEF Restoring
      <3> QED BY <3>1, UnboundKept
    <2>6. ASSUME NEW u \in Threads, Assigning(u)'
          PROVE  Assigning(u) /\ op'[u] = op[u] /\ Has(Home[u], op[u].model)'
      BY <1>1, <1>4, <1>6, <2>6, AssigningStands
    <2> QED BY <2>1, <2>2, <2>3, <2>4, <2>5, <2>6 DEF Calm
  <1>9. AloneInv'
    BY <1>1, <1>2, <1>6, NoRename DEF Renamings
  <1>10. LedgerInv'
    BY SMTT(60), <1>1, <1>4, <1>6, LiveKept, LedgerKept DEF database, Accounts, TypesInv
  <1> QED BY <1>3, <1>7, <1>8, <1>9, <1>10, CalmKeeps DEF SchemaInv

LEMMA EvictKeeps ==
  ASSUME SchemaInv, NEW t \in Threads, Evict(t), op[t].at \in {"idle", "evict"},
         UNCHANGED <<database, objects>>, CounterTypes'
  PROVE  SchemaInv'
  <1> DEFINE p == Home[t]
             rec == IF engine[p] = 0 THEN Idle ELSE [at |-> "close", engine |-> engine[p]]
  <1>1. TypesInv /\ CacheInv /\ CacheAt(p) /\ p \in Processes
    BY HomeType DEF SchemaInv, CacheInv
  <1>2. /\ MarkCached(p) /\ cached' = [cached EXCEPT ![p] = 0]
        /\ engine' = [engine EXCEPT ![p] = 0] /\ engines' = engines
        /\ Goto(t, rec)
    BY DEF Evict, Proc
  <1>3. engine[p] \in Nat /\ rec \in DisposeOps /\ rec \in Ops
    BY <1>1 DEF TypesInv, DisposeOps, Ops
  <1>4. rec.at = "close" => rec.engine = engine[p] /\ engine[p] # 0
    BY DEF Idle
  <1> HIDE DEF rec
  <1>5. op' \in [Threads -> Ops] /\ op'[t] = rec /\ \A u \in Threads \ {t} : op'[u] = op[u]
    BY <1>1, <1>2, <1>3, GotoOp
  <1>6. /\ contexts' \in [Processes -> Seq(Context)]
        /\ \A q \in Processes \ {p} : contexts'[q] = contexts[q]
        /\ Len(contexts'[p]) = Len(contexts[p])
        /\ \A i \in 1 .. Len(contexts[p]) :
              /\ contexts'[p][i].tables = contexts[p][i].tables
              /\ contexts'[p][i].engine = contexts[p][i].engine
              /\ contexts'[p][i].disposed <=> (contexts[p][i].disposed \/ i = cached[p])
    BY <1>1, <1>2, MarkCachedDoes
  <1>7. /\ cached'[p] = 0 /\ engine'[p] = 0 /\ engines'[p] = engines[p]
        /\ \A q \in Processes \ {p} :
              cached'[q] = cached[q] /\ engine'[q] = engine[q] /\ engines'[q] = engines[q]
    BY <1>1, <1>2 DEF TypesInv
  <1>8. CacheTypes'
    BY <1>1, <1>2, <1>6 DEF CacheTypes, TypesInv
  <1>9. CacheAt(p)'
    <2>1. \A u \in Threads : Home[u] = p /\ op'[u].at = "close" =>
             op'[u].engine \in 1 .. Len(engines'[p]) /\ op'[u].engine # engine'[p]
      <3>1. engine[p] # 0 => engine[p] \in 1 .. Len(engines[p])
        BY <1>1, LenType DEF CacheAt
      <3> QED BY <1>1, <1>4, <1>5, <1>7, <3>1 DEF CacheAt
    <2>2. Len(contexts'[p]) \in Nat /\ Len(engines'[p]) \in Nat
      BY <1>1, <1>6, <1>7, LenType
    <2> QED BY <1>1, <1>6, <1>7, <2>1, <2>2 DEF CacheAt
  <1>10. CacheInv'
    BY <1>1, <1>5, <1>6, <1>7, <1>9, CacheElsewhere
  <1>11. \A q \in Processes :
            /\ Len(contexts'[q]) = Len(contexts[q])
            /\ \A i \in 1 .. Len(contexts[q]) : contexts'[q][i].tables = contexts[q][i].tables
    BY <1>6
  <1> QED BY <1>3, <1>5, <1>8, <1>10, <1>11, DisposeStep

LEMMA DisposeKeeps ==
  ASSUME SchemaInv, NEW t \in Threads, Dispose(t)
  PROVE  SchemaInv'
  <1>1. CounterTypes'
    BY TypesParts, CountersStep DEF Dispose, Call, SchemaInv
  <1> QED BY <1>1, EvictKeeps DEF Dispose, Call, Idle

LEMMA DisposeNextKeeps ==
  ASSUME SchemaInv, NEW t \in Threads, DisposeNext(t)
  PROVE  SchemaInv'
  <1>1. CounterTypes'
    BY TypesParts, CountersStep DEF DisposeNext, SchemaInv
  <1> QED BY <1>1, EvictKeeps DEF DisposeNext

LEMMA DisposeAllKeeps ==
  ASSUME SchemaInv, NEW t \in Threads, DisposeAll(t)
  PROVE  SchemaInv'
  <1> DEFINE p == Home[t]
             rec == [at |-> "evict"]
  <1>1. TypesInv /\ CacheInv /\ CacheAt(p) /\ p \in Processes
    BY HomeType DEF SchemaInv, CacheInv
  <1>2. /\ MarkCached(p) /\ cached' = [cached EXCEPT ![p] = 0]
        /\ UNCHANGED <<database, engines, engine, objects, faults>>
        /\ Goto(t, rec) /\ Call(t)
    BY DEF DisposeAll, Proc
  <1>3. rec \in DisposeOps /\ rec \in Ops /\ rec.at = "evict"
    BY DEF DisposeOps, Ops
  <1> HIDE DEF rec
  <1>4. op' \in [Threads -> Ops] /\ op'[t] = rec /\ \A u \in Threads \ {t} : op'[u] = op[u]
    BY <1>1, <1>2, <1>3, GotoOp
  <1>5. /\ contexts' \in [Processes -> Seq(Context)]
        /\ \A q \in Processes \ {p} : contexts'[q] = contexts[q]
        /\ Len(contexts'[p]) = Len(contexts[p])
        /\ \A i \in 1 .. Len(contexts[p]) :
              /\ contexts'[p][i].tables = contexts[p][i].tables
              /\ contexts'[p][i].engine = contexts[p][i].engine
              /\ contexts'[p][i].disposed <=> (contexts[p][i].disposed \/ i = cached[p])
    BY <1>1, <1>2, MarkCachedDoes
  <1>6. cached'[p] = 0 /\ \A q \in Processes \ {p} : cached'[q] = cached[q]
    BY <1>1, <1>2 DEF TypesInv
  <1>7. CacheTypes' /\ CounterTypes'
    BY <1>1, <1>2, <1>5, TypesParts, CountersStep DEF CacheTypes, TypesInv, Call
  <1>8. CacheAt(p)'
    <2>1. \A u \in Threads : Home[u] = p /\ op'[u].at = "close" =>
             op'[u].engine \in 1 .. Len(engines[p]) /\ op'[u].engine # engine[p]
      BY <1>1, <1>3, <1>4 DEF CacheAt
    <2>2. Len(contexts'[p]) \in Nat
      BY <1>1, <1>5, LenType
    <2> HIDE DEF p
    <2>3. engines'[p] = engines[p] /\ engine'[p] = engine[p]
      BY <1>2
    <2>4. \A i \in 1 .. Len(contexts'[p]) :
              /\ contexts'[p][i].engine \in 1 .. Len(engines'[p])
              /\ contexts'[p][i].disposed <=> i # cached'[p]
              /\ i = cached'[p] => contexts'[p][i].engine = engine'[p]
      <3> SUFFICES ASSUME NEW i \in 1 .. Len(contexts'[p])
                   PROVE  /\ contexts'[p][i].engine \in 1 .. Len(engines'[p])
                          /\ contexts'[p][i].disposed <=> i # cached'[p]
                          /\ i = cached'[p] => contexts'[p][i].engine = engine'[p]
        OBVIOUS
      <3>1. i \in 1 .. Len(contexts[p]) /\ i # 0 /\ i # cached'[p]
        BY <1>5, <1>6, <2>2
      <3>2. contexts'[p][i].engine \in 1 .. Len(engines'[p])
        BY <1>1, <1>5, <2>3, <3>1 DEF CacheAt
      <3>3. contexts'[p][i].disposed <=> i # cached'[p]
        BY <1>1, <1>5, <3>1 DEF CacheAt
      <3> QED BY <3>1, <3>2, <3>3
    <2>5. cached'[p] \in 0 .. Len(contexts'[p])
      BY <1>6, <2>2
    <2>6. engine'[p] # 0 => ~engines'[p][engine'[p]]
      BY <1>1, <2>3, Zenon DEF CacheAt
    <2> QED BY <1>1, <2>1, <2>3, <2>4, <2>5, <2>6 DEF CacheAt
  <1>9. CacheInv'
    BY <1>1, <1>2, <1>4, <1>5, <1>6, <1>8, CacheElsewhere
  <1>10. \A q \in Processes :
            /\ Len(contexts'[q]) = Len(contexts[q])
            /\ \A i \in 1 .. Len(contexts[q]) : contexts'[q][i].tables = contexts[q][i].tables
    BY <1>5
  <1>11. op[t].at = "idle"
    BY <1>2 DEF Call, Idle
  <1> QED BY <1>2, <1>3, <1>4, <1>7, <1>9, <1>10, <1>11, DisposeStep

LEMMA CloseKeeps ==
  ASSUME SchemaInv, NEW t \in Threads, Close(t)
  PROVE  SchemaInv'
  <1> DEFINE p == Home[t]
             e == op[t].engine
  <1>1. TypesInv /\ CacheInv /\ CacheAt(p) /\ p \in Processes
    BY SMTT(60), HomeType DEF SchemaInv, CacheInv
  <1>2. /\ engines' = [engines EXCEPT ![p][e] = TRUE] /\ op[t].at = "close" /\ Return(t)
        /\ UNCHANGED <<database, contexts, cached, engine, objects, ops, faults>>
    BY DEF Close, Proc
  <1>3. e \in 1 .. Len(engines[p]) /\ e # engine[p]
    BY <1>1, <1>2 DEF CacheAt
  <1>4. op' \in [Threads -> Ops] /\ op'[t] = Idle /\ \A u \in Threads \ {t} : op'[u] = op[u]
    BY <1>1, <1>2, ReturnOp
  <1>5. /\ engines' \in [Processes -> Seq(BOOLEAN)] /\ Len(engines'[p]) = Len(engines[p])
        /\ \A i \in 1 .. Len(engines[p]) \ {e} : engines'[p][i] = engines[p][i]
        /\ \A q \in Processes \ {p} : engines'[q] = engines[q]
    <2> DEFINE old == engines[p]
               B == BOOLEAN
               v == TRUE
               new == [old EXCEPT ![e] = v]
    <2>1. old \in Seq(B) /\ v \in B /\ e \in 1 .. Len(old)
      BY <1>1, <1>3 DEF TypesInv
    <2>2. engines' = [engines EXCEPT ![p] = new]
      BY <1>2
    <2> HIDE DEF B, v, old
    <2>3. new \in Seq(B) /\ Len(new) = Len(old) /\ \A i \in 1 .. Len(old) \ {e} : new[i] = old[i]
      BY <2>1
    <2> HIDE DEF new
    <2>4. engines'[p] = new /\ \A q \in Processes \ {p} : engines'[q] = engines[q]
      BY <1>1, <2>2 DEF TypesInv
    <2>5. engines \in [Processes -> Seq(B)]
      BY <1>1 DEF TypesInv, B
    <2>6. engines' \in [Processes -> Seq(B)]
      BY <2>2, <2>3, <2>5
    <2> QED BY <2>3, <2>4, <2>6, Zenon DEF B, old
  <1>6. CacheTypes' /\ CounterTypes'
    BY <1>1, <1>2, <1>5, TypesParts, CountersStep DEF CacheTypes
  <1>7. CacheAt(p)'
    <2>1. engine[p] # 0 => engine[p] \in 1 .. Len(engines[p]) \ {e}
      BY <1>1, <1>3, LenType DEF CacheAt
    <2>2. \A u \in Threads : Home[u] = p /\ op'[u].at = "close" =>
             op'[u].engine \in 1 .. Len(engines'[p]) /\ op'[u].engine # engine'[p]
      <3>1. \A u \in Threads : op'[u].at = "close" => op'[u] = op[u]
        BY <1>4 DEF Idle
      <3>2. engine'[p] = engine[p] /\ Len(engines'[p]) = Len(engines[p])
        BY <1>2, <1>5
      <3> HIDE DEF p
      <3> QED BY <1>1, <3>1, <3>2 DEF CacheAt
    <2>3. engine'[p] # 0 => ~engines'[p][engine'[p]]
      <3>1. engine'[p] # 0 => engines'[p][engine'[p]] = engines[p][engine[p]]
        BY <1>2, <1>5, <2>1
      <3> QED BY <1>1, <1>2, <3>1, Zenon DEF CacheAt
    <2> HIDE DEF p
    <2> QED BY <1>1, <1>2, <1>5, <2>2, <2>3, LenType DEF CacheAt
  <1>8. CacheInv'
    BY <1>1, <1>2, <1>4, <1>5, <1>7, CacheElsewhere
  <1>9. op[t].at \in {"idle", "close", "evict"} /\ Idle \in DisposeOps
    BY <1>2 DEF DisposeOps
  <1> QED BY <1>2, <1>4, <1>6, <1>8, <1>9, DisposeStep


\* Who comes to a process that is there, or to none, with a context for its model.
LEMMA RegisterKeeps ==
  ASSUME SchemaInv, NEW t \in Threads, NEW m \in Models, Register(t, m)
  PROVE  SchemaInv'
  <1> DEFINE p == Home[t]
             ctx == IF cached[p] # 0 THEN cached[p] ELSE Len(contexts[p]) + 1
             rec == [at |-> "build", model |-> m, ctx |-> ctx]
  <1>1. /\ TypesInv /\ CacheInv /\ UsesInv /\ LedgerInv /\ AloneInv /\ ColumnsInv
        /\ SlotsInv /\ HoldersInv /\ AssignedInv /\ CacheAt(p) /\ p \in Processes
    BY HomeType DEF SchemaInv, CacheInv
  <1>2. /\ Call(t) /\ ~Has(p, m) /\ GetContext(p) /\ Goto(t, rec)
        /\ \A u \in Threads : Home[u] = p /\ op[u].at \in {"build", "check", "create"}
              => op[u].model # m
        /\ UNCHANGED <<database, objects, faults>>
    BY DEF Register, Registered, Proc, Has
  <1>3. /\ CacheTypes'
        /\ \A q \in Processes \ {p} :
              /\ contexts'[q] = contexts[q] /\ cached'[q] = cached[q]
              /\ engines'[q] = engines[q] /\ engine'[q] = engine[q]
        /\ \/ cached[p] # 0 /\ UNCHANGED cache
           \/ /\ cached[p] = 0
              /\ Len(contexts'[p]) = Len(contexts[p]) + 1
              /\ cached'[p] = Len(contexts[p]) + 1
              /\ \A i \in 1 .. Len(contexts[p]) : contexts'[p][i] = contexts[p][i]
              /\ contexts'[p][Len(contexts[p]) + 1] =
                    [engine |-> engine'[p], disposed |-> FALSE, tables |-> NoObjects]
              /\ engine'[p] # 0
              /\ \/ engine[p] # 0 /\ engine'[p] = engine[p] /\ engines'[p] = engines[p]
                 \/ /\ engine[p] = 0 /\ engine'[p] = Len(engines[p]) + 1
                    /\ Len(engines'[p]) = Len(engines[p]) + 1
                    /\ \A i \in 1 .. Len(engines[p]) : engines'[p][i] = engines[p][i]
                    /\ engines'[p][Len(engines[p]) + 1] = FALSE
    <2> HIDE DEF p
    <2> QED BY <1>1, <1>2, GetContextDoes
  <1>4. /\ Len(contexts[p]) \in Nat /\ Len(engines[p]) \in Nat /\ Len(contexts'[p]) \in Nat
        /\ engine[p] \in Nat /\ cached[p] \in Nat
    <2> HIDE DEF p
    <2>1. Len(contexts[p]) \in Nat /\ Len(engines[p]) \in Nat
      BY <1>1, LenType
    <2>2. Len(contexts'[p]) = Len(contexts[p]) \/ Len(contexts'[p]) = Len(contexts[p]) + 1
      BY <1>3 DEF cache
    <2> QED BY <1>1, <2>1, <2>2 DEF TypesInv
  <1>5. ctx \in Nat /\ ctx \in 1 .. Len(contexts'[p])
    BY <1>1, <1>3, <1>4 DEF CacheAt, cache
  <1> HIDE DEF ctx
  <1>6. rec \in Ops /\ rec.at = "build" /\ rec.model = m /\ rec.ctx = ctx
    BY <1>5 DEF Ops
  <1> HIDE DEF rec
  <1>7. op' \in [Threads -> Ops] /\ op'[t] = rec /\ \A u \in Threads \ {t} : op'[u] = op[u]
    BY <1>1, <1>2, <1>6, GotoOp
  <1>8. op[t].at = "idle"
    BY <1>2 DEF Call, Idle
  <1>9. TypesInv'
    BY <1>1, <1>2, <1>3, <1>7, TypesParts, TypesPartsNext, PartsKept, CountersStep DEF Call
  <1>10. UNCHANGED <<mgr, serial, claimed>>
    BY <1>2 DEF objects
  <1> HIDE DEF p
  <1>11. CacheAt(p)'
    <2>1. \A u \in Threads : op'[u].at = "close" => op'[u] = op[u]
      BY <1>6, <1>7
    <2>2. CASE cached[p] # 0 /\ UNCHANGED cache
      BY <1>1, <2>1, <2>2 DEF CacheAt, cache
    <2>3. CASE /\ cached[p] = 0
               /\ Len(contexts'[p]) = Len(contexts[p]) + 1
               /\ cached'[p] = Len(contexts[p]) + 1
               /\ \A i \in 1 .. Len(contexts[p]) : contexts'[p][i] = contexts[p][i]
               /\ contexts'[p][Len(contexts[p]) + 1] =
                     [engine |-> engine'[p], disposed |-> FALSE, tables |-> NoObjects]
               /\ engine'[p] # 0
               /\ \/ engine[p] # 0 /\ engine'[p] = engine[p] /\ engines'[p] = engines[p]
                  \/ /\ engine[p] = 0 /\ engine'[p] = Len(engines[p]) + 1
                     /\ Len(engines'[p]) = Len(engines[p]) + 1
                     /\ \A i \in 1 .. Len(engines[p]) : engines'[p][i] = engines[p][i]
                     /\ engines'[p][Len(engines[p]) + 1] = FALSE
      <3>1. /\ engine'[p] \in 1 .. Len(engines'[p]) /\ engine'[p] \in 0 .. Len(engines'[p])
            /\ Len(engines[p]) <= Len(engines'[p]) /\ Len(engines'[p]) \in Nat
        BY <1>1, <1>4, <2>3 DEF CacheAt
      <3>2. cached'[p] \in 0 .. Len(contexts'[p])
        BY <1>4, <2>3
      <3>3. engine'[p] # 0 => ~engines'[p][engine'[p]]
        <4>1. CASE engine[p] # 0
          <5>1. engine'[p] = engine[p] /\ engines'[p] = engines[p]
            BY <2>3, <4>1
          <5> QED BY <1>1, <4>1, <5>1, Zenon DEF CacheAt
        <4>2. CASE engine[p] = 0
          <5>1. engines'[p][engine'[p]] = FALSE
            BY <2>3, <4>2
          <5> QED BY <5>1, Zenon
        <4> QED BY <4>1, <4>2
      <3>4. ASSUME NEW i \in 1 .. Len(contexts'[p])
            PROVE  /\ contexts'[p][i].engine \in 1 .. Len(engines'[p])
                   /\ contexts'[p][i].disposed <=> i # cached'[p]
                   /\ i = cached'[p] => contexts'[p][i].engine = engine'[p]
        <4>1. CASE i = Len(contexts[p]) + 1
          BY <2>3, <3>1, <4>1
        <4>2. CASE i # Len(contexts[p]) + 1
          <5>1. i \in 1 .. Len(contexts[p]) /\ contexts'[p][i] = contexts[p][i] /\ i # 0
                /\ i # cached'[p]
            BY <1>4, <2>3, <4>2
          <5>2. contexts[p][i].engine \in 1 .. Len(engines'[p])
            BY <1>1, <1>4, <3>1, <5>1 DEF CacheAt
          <5>3. contexts[p][i].disposed <=> i # cached'[p]
            BY <1>1, <2>3, <5>1 DEF CacheAt
          <5> QED BY <5>1, <5>2, <5>3
        <4> QED BY <4>1, <4>2
      <3>5. ASSUME NEW u \in Threads, Home[u] = p, op'[u].at = "close"
            PROVE  op'[u].engine \in 1 .. Len(engines'[p]) /\ op'[u].engine # engine'[p]
        <4>1. op'[u] = op[u] /\ op[u].engine \in 1 .. Len(engines[p]) /\ op[u].engine # engine[p]
          BY <1>1, <2>1, <3>5 DEF CacheAt
        <4> QED BY <1>4, <2>3, <3>1, <4>1
      <3> QED BY <3>1, <3>2, <3>3, <3>4, <3>5 DEF CacheAt
    <2> QED BY <1>3, <2>2, <2>3
  <1>12. CacheInv'
    <2>1. \A u \in Threads : Home[u] # p => op'[u] = op[u]
      BY <1>7 DEF p
    <2> QED BY <1>1, <1>3, <1>11, <2>1, CacheElsewhere
  <1>13. /\ \A q \in Processes : \A i \in 1 .. Len(contexts[q]) :
               i \in 1 .. Len(contexts'[q]) /\ contexts'[q][i] = contexts[q][i]
         /\ \A q \in Processes : \A i \in 1 .. Len(contexts'[q]) :
               i \in 1 .. Len(contexts[q]) \/ contexts'[q][i].tables = NoObjects
         /\ \A q \in Processes : Len(contexts[q]) <= Len(contexts'[q])
    <2>1. \A q \in Processes : Len(contexts[q]) \in Nat
      BY <1>1, LenType
    <2>2. CASE cached[p] # 0 /\ UNCHANGED cache
      BY <2>1, <2>2 DEF cache
    <2>3. CASE ~(cached[p] # 0 /\ UNCHANGED cache)
      <3>1. /\ \A i \in 1 .. Len(contexts[p]) : contexts'[p][i] = contexts[p][i]
            /\ Len(contexts'[p]) = Len(contexts[p]) + 1
            /\ contexts'[p][Len(contexts[p]) + 1].tables = NoObjects
        BY <1>3, <2>3
      <3> QED BY <1>3, <2>1, <3>1
    <2> QED BY <2>2, <2>3
  <1>14. \A u \in Threads : Home[u] \in Processes
    BY HomeType
  <1>15. /\ ~Using(t) /\ ~Bringing(t) /\ ~Attaching(t) /\ ~Adds(t)
         /\ ~Using(t)' /\ Bringing(t)' /\ ~Attaching(t)' /\ ~Adds(t)'
         /\ op'[t].at \notin Renamings \cup {"check", "create"}
         /\ ~Restoring(t) /\ ~Assigning(t)'
    BY <1>6, <1>7, <1>8 DEF Using, Bringing, Attaching, Adds, Renamings, Restoring, Assigning
  <1>16. \A u \in Threads \ {t} :
           /\ Using(u)' <=> Using(u)
           /\ Bringing(u)' <=> Bringing(u)
           /\ Attaching(u)' <=> Attaching(u)
    BY <1>7 DEF Using, Bringing, Attaching
  <1>17. UsesInv'
    <2> HIDE DEF Using, Attaching
    <2>1. ASSUME NEW q \in Processes, NEW k \in Models, Has(q, k)'
          PROVE  mgr'[q][k].ctx \in 1 .. Len(contexts'[q])
      BY <1>1, <1>10, <1>13, <2>1 DEF UsesInv, Has
    <2>2. ASSUME NEW u \in Threads, Bringing(u)
          PROVE  ~(Home[u] = p /\ op[u].model = m)
      BY <1>2, <2>2 DEF Bringing, Attaching
    <2>3. ASSUME NEW u \in Threads
          PROVE  /\ Using(u)' => mgr'[Home[u]][op'[u].model] # NoManager
                 /\ Bringing(u)' => /\ mgr'[Home[u]][op'[u].model] = NoManager
                                    /\ op'[u].ctx \in 1 .. Len(contexts'[Home[u]])
                 /\ op'[u].at \in {"check", "create"} => op'[u].ctx \in 0 .. Len(contexts'[Home[u]])
      <3>1. CASE u = t
        BY <1>2, <1>5, <1>6, <1>7, <1>10, <1>15, <3>1 DEF Has, p
      <3>2. CASE u # t
        <4>1. op'[u] = op[u] /\ Home[u] \in Processes /\ mgr' = mgr
          BY <1>7, <1>10, <1>14, <3>2
        <4>2. Len(contexts[Home[u]]) <= Len(contexts'[Home[u]])
              /\ Len(contexts[Home[u]]) \in Nat /\ Len(contexts'[Home[u]]) \in Nat
          BY <1>1, <1>3, <1>4, <1>13, <4>1, LenType
        <4> QED BY <1>1, <1>16, <3>2, <4>1, <4>2 DEF UsesInv, Has
      <3> QED BY <3>1, <3>2
    <2>4. ASSUME NEW u \in Threads, NEW w \in Threads, Bringing(u)', Bringing(w)',
                 Home[w] = Home[u], op'[w].model = op'[u].model
          PROVE  w = u
      <3>1. op'[t].model = m /\ Home[t] = p
        BY <1>6, <1>7 DEF p
      <3>2. CASE u = t
        BY <1>7, <1>16, <2>2, <2>4, <3>1, <3>2
      <3>3. CASE w = t
        BY <1>7, <1>16, <2>2, <2>4, <3>1, <3>3
      <3>4. CASE u # t /\ w # t
        BY <1>1, <1>7, <1>16, <2>4, <3>4 DEF UsesInv
      <3> QED BY <3>2, <3>3, <3>4
    <2> QED BY <2>1, <2>3, <2>4 DEF UsesInv, Has
  <1>18. Calm
    <2>1. \A q \in Processes : \A i \in 1 .. Len(contexts'[q]) :
             IF i \in 1 .. Len(contexts[q]) THEN Objects(q, i)' = Objects(q, i)
             ELSE Objects(q, i)' = NoObjects
      BY <1>13 DEF Objects
    <2>2. \A q \in Processes, k \in Models : Has(q, k)' =>
             mgr'[q][k] = mgr[q][k] /\ mgr[q][k].ctx \in 1 .. Len(contexts'[q])
      BY <1>1, <1>10, <1>13 DEF UsesInv, Has
    <2>3. ASSUME NEW u \in Threads, Attaching(u)'
          PROVE  /\ Attaching(u) /\ op'[u] = op[u]
                 /\ op[u].ctx \in 1 .. Len(contexts'[Home[u]])
      <3>1. u # t /\ Attaching(u) /\ op'[u] = op[u]
        BY <1>7, <1>15, <1>16, <2>3
      <3>2. op[u].ctx \in 1 .. Len(contexts[Home[u]]) /\ Home[u] \in Processes
        BY <1>1, <3>1, HomeType DEF UsesInv, Bringing
      <3> QED BY <1>13, <3>1, <3>2
    <2>4. serial' \in Nat /\ serial <= serial' /\ claimed \subseteq claimed'
      BY <1>1, <1>10 DEF TypesInv
    <2>5. \A q \in Processes, k \in Models : Has(q, k)' /\ Unbound(q, k) => Unbound(q, k)'
      <3>1. \A u \in Threads : Restoring(u) => Restoring(u)' /\ op'[u].model = op[u].model
        BY <1>7, <1>15 DEF Restoring
      <3> QED BY <3>1, UnboundKept
    <2>6. ASSUME NEW u \in Threads, Assigning(u)'
          PROVE  Assigning(u) /\ op'[u] = op[u] /\ Has(Home[u], op[u].model)'
      BY <1>1, <1>7, <1>10, <1>15, <2>6, AssigningStands
    <2> QED BY <2>1, <2>2, <2>3, <2>4, <2>5, <2>6 DEF Calm
  <1>19. AloneInv'
    BY <1>1, <1>7, <1>10, <1>15, NoRename
  <1>20. LedgerInv'
    BY SMTT(60), <1>1, <1>2, <1>7, <1>10, <1>15, LiveKept, LedgerKept DEF database, Accounts, TypesInv
  <1> QED BY <1>1, <1>9, <1>12, <1>17, <1>18, <1>19, <1>20, CalmKeeps DEF SchemaInv

LEMMA CrashKeeps ==
  ASSUME SchemaInv, NEW p \in Processes, Crash(p)
  PROVE  SchemaInv'
  <1> DEFINE lost == UNION {op[t].added :
                 t \in {u \in Threads : Home[u] = p /\ op[u].at \in {"ensure", "add"}}}
  <1>1. /\ TypesInv /\ CacheInv /\ UsesInv /\ LedgerInv /\ AloneInv /\ ColumnsInv
        /\ SlotsInv /\ HoldersInv /\ AssignedInv
    BY DEF SchemaInv
  <1>2. /\ contexts' = [contexts EXCEPT ![p] = <<>>] /\ cached' = [cached EXCEPT ![p] = 0]
        /\ engines' = [engines EXCEPT ![p] = <<>>] /\ engine' = [engine EXCEPT ![p] = 0]
        /\ mgr' = [mgr EXCEPT ![p] = [m \in Models |-> NoManager]]
        /\ excused' = excused \cup lost
        /\ op' = [t \in Threads |-> IF Home[t] = p THEN Idle ELSE op[t]]
        /\ UNCHANGED <<live, ledger, applied, serial, claimed, ops>>
        /\ faults < MaxFaults /\ faults' = faults + 1
    BY DEF Crash, Fails
  <1>3. lost \subseteq Entries
    BY <1>1, OpModel
  <1>4. \A t \in Threads : Home[t] = p /\ Adds(t) => op[t].added \subseteq lost
    BY DEF Adds
  <1> HIDE DEF lost
  <1>5. /\ contexts'[p] = <<>> /\ cached'[p] = 0 /\ engines'[p] = <<>> /\ engine'[p] = 0
        /\ \A m \in Models : mgr'[p][m] = NoManager
        /\ \A q \in Processes \ {p} :
              /\ contexts'[q] = contexts[q] /\ cached'[q] = cached[q]
              /\ engines'[q] = engines[q] /\ engine'[q] = engine[q] /\ mgr'[q] = mgr[q]
    BY <1>1, <1>2 DEF TypesInv
  <1>6. \A t \in Threads : op'[t] = IF Home[t] = p THEN Idle ELSE op[t]
    BY <1>2
  <1>7. op' \in [Threads -> Ops]
    <2>1. \A t \in Threads : op'[t] \in Ops
      BY <1>1, <1>6, ColumnOpsIn DEF TypesInv
    <2> HIDE DEF Ops
    <2> QED BY <1>2, <2>1
  <1>8. TypesInv'
    <2>1. CacheTypes'
      <3>1. <<>> \in Seq(Context) /\ <<>> \in Seq(BOOLEAN)
        OBVIOUS
      <3> QED BY <1>1, <1>2, <3>1 DEF CacheTypes, TypesInv
    <2>2. ObjectTypes'
      BY <1>1, <1>2 DEF ObjectTypes, TypesInv
    <2>3. DatabaseTypes'
      BY <1>1, <1>2, <1>3 DEF DatabaseTypes, TypesInv
    <2> QED BY <1>1, <1>2, <1>7, <2>1, <2>2, <2>3, TypesParts, TypesPartsNext, CountersStep
  <1>9. Len(contexts'[p]) = 0 /\ Len(engines'[p]) = 0 /\ \A i : i \notin 1 .. Len(contexts'[p])
    BY <1>5
  <1>10. CacheInv'
    <2>1. CacheAt(p)'
      BY <1>5, <1>6, <1>9 DEF CacheAt, Idle
    <2> QED BY <1>1, <1>5, <1>6, <2>1, CacheElsewhere
  <1>11. ASSUME NEW t \in Threads
         PROVE  /\ Using(t)' \/ Bringing(t)' \/ Attaching(t)' \/ Renaming(t)' \/ Adds(t)'
                   \/ Assigning(t)' \/ op'[t].at \in {"check", "create"}
                   => Home[t] \in Processes \ {p} /\ op'[t] = op[t]
                      /\ contexts'[Home[t]] = contexts[Home[t]] /\ mgr'[Home[t]] = mgr[Home[t]]
                /\ Using(t)' => Using(t)
                /\ Bringing(t)' => Bringing(t)
                /\ Attaching(t)' => Attaching(t)
                /\ Adds(t)' => Adds(t)
    <2>1. CASE Home[t] = p
      BY <1>6, <2>1
         DEF Using, Bringing, Attaching, Renaming, Restoring, Assigning, Adds, Renamings, Idle
    <2>2. CASE Home[t] # p
      BY <1>5, <1>6, <2>2, HomeType
         DEF Using, Bringing, Attaching, Renaming, Restoring, Assigning, Adds, Renamings
    <2> QED BY <2>1, <2>2
  <1>12. ASSUME NEW q \in Processes, NEW m \in Models, Has(q, m)'
         PROVE  q # p /\ Has(q, m) /\ mgr'[q] = mgr[q] /\ contexts'[q] = contexts[q]
    BY <1>5, <1>12 DEF Has
  <1>13. UsesInv'
    <2> HIDE DEF Using, Bringing, Attaching
    <2>1. \A q \in Processes, m \in Models : Has(q, m)' => mgr'[q][m].ctx \in 1 .. Len(contexts'[q])
      BY <1>1, <1>12 DEF UsesInv
    <2>2. ASSUME NEW t \in Threads, Using(t)' PROVE mgr'[Home[t]][op'[t].model] # NoManager
      BY <1>1, <1>11, <2>2 DEF UsesInv, Has
    <2>3. ASSUME NEW t \in Threads, Bringing(t)'
          PROVE  /\ mgr'[Home[t]][op'[t].model] = NoManager
                 /\ op'[t].ctx \in 1 .. Len(contexts'[Home[t]])
                 /\ \A u \in Threads :
                       Home[u] = Home[t] /\ Bringing(u)' /\ op'[u].model = op'[t].model => u = t
      BY <1>1, <1>11, <2>3 DEF UsesInv, Has
    <2>4. \A t \in Threads : op'[t].at \in {"check", "create"} =>
             op'[t].ctx \in 0 .. Len(contexts'[Home[t]])
      BY <1>1, <1>11 DEF UsesInv
    <2> QED BY <2>1, <2>2, <2>3, <2>4 DEF UsesInv, Has
  <1>14. Calm
    <2>1. \A q \in Processes : \A i \in 1 .. Len(contexts'[q]) :
             i \in 1 .. Len(contexts[q]) /\ Objects(q, i)' = Objects(q, i)
      BY <1>5, <1>9 DEF Objects
    <2>2. \A q \in Processes, m \in Models : Has(q, m)' =>
             mgr'[q][m] = mgr[q][m] /\ mgr[q][m].ctx \in 1 .. Len(contexts'[q])
      BY <1>1, <1>12 DEF UsesInv
    <2>3. ASSUME NEW t \in Threads, Attaching(t)'
          PROVE  /\ Attaching(t) /\ op'[t] = op[t]
                 /\ op[t].ctx \in 1 .. Len(contexts'[Home[t]])
      <3>1. Attaching(t) /\ op'[t] = op[t] /\ contexts'[Home[t]] = contexts[Home[t]]
        BY <1>11, <2>3
      <3> QED BY <1>1, <3>1 DEF UsesInv, Bringing
    <2>4. serial' \in Nat /\ serial <= serial' /\ claimed \subseteq claimed'
      BY <1>1, <1>2 DEF TypesInv
    <2>5. \A q \in Processes, m \in Models : Has(q, m)' /\ Unbound(q, m) => Unbound(q, m)'
      <3>1. ASSUME NEW t \in Threads, Restoring(t)
            PROVE  \/ Restoring(t)' /\ op'[t].model = op[t].model
                   \/ mgr'[Home[t]][op[t].model] = NoManager
        <4>1. op[t].model \in Models
          BY <1>1, <3>1, OpModel DEF Restoring, Renamings
        <4> QED BY <1>5, <1>6, <3>1, <4>1 DEF Restoring
      <3> QED BY <3>1, UnboundKept
    <2>6. ASSUME NEW t \in Threads, Assigning(t)'
          PROVE  Assigning(t) /\ op'[t] = op[t] /\ Has(Home[t], op[t].model)'
      BY <1>1, <1>11, <2>6, AssigningStands
    <2> QED BY <2>1, <2>2, <2>3, <2>4, <2>5, <2>6 DEF Calm
  <1>15. AloneInv'
    BY <1>1, <1>11, AloneKept
  <1>16. LedgerInv'
    <2>1. ASSUME NEW t \in Threads PROVE op'[t] = op[t] \/ Accounts(t)
      <3>1. CASE Home[t] = p
        BY <1>2, <1>4, <1>6, <3>1 DEF Accounts, Adds, Idle
      <3> QED BY <1>6, <3>1
    <2>2. excused \subseteq excused'
      BY <1>2
    <2>3. LiveMoves
      BY SMTT(60), <1>1, <1>2, LiveKept DEF TypesInv
    <2> QED BY <1>1, <1>2, <2>1, <2>2, <2>3, LedgerKept
  <1> QED BY <1>1, <1>8, <1>10, <1>13, <1>14, <1>15, <1>16, CalmKeeps DEF SchemaInv


-----------------------------------------------------------------------------
(* The steps that give a manager, or a thread that brings one, a Table.    *)

\* Only the metadata of contexts changes in the cache.
LEMMA CacheSame ==
  ASSUME CacheInv, NEW t \in Threads, UNCHANGED <<cached, engines, engine>>,
         \A q \in Processes :
             /\ Len(contexts'[q]) = Len(contexts[q])
             /\ \A j \in 1 .. Len(contexts[q]) :
                   /\ contexts'[q][j].engine = contexts[q][j].engine
                   /\ contexts'[q][j].disposed = contexts[q][j].disposed,
         \A u \in Threads \ {t} : op'[u] = op[u], op'[t].at # "close"
  PROVE  CacheInv'
  <1> SUFFICES ASSUME NEW q \in Processes PROVE CacheAt(q)'
    BY DEF CacheInv
  <1>1. CacheAt(q)
    BY DEF CacheInv
  <1>2. \A u \in Threads : op'[u].at = "close" => op'[u] = op[u]
    OBVIOUS
  <1>3. /\ cached'[q] \in 0 .. Len(contexts'[q]) /\ engine'[q] \in 0 .. Len(engines'[q])
    BY <1>1 DEF CacheAt
  <1>4. engine'[q] # 0 => ~engines'[q][engine'[q]]
    BY <1>1, Zenon DEF CacheAt
  <1>5. ASSUME NEW j \in 1 .. Len(contexts'[q])
        PROVE  /\ contexts'[q][j].engine \in 1 .. Len(engines'[q])
               /\ contexts'[q][j].disposed <=> j # cached'[q]
               /\ j = cached'[q] => contexts'[q][j].engine = engine'[q]
    BY <1>1 DEF CacheAt
  <1>6. \A u \in Threads : Home[u] = q /\ op'[u].at = "close" =>
           op'[u].engine \in 1 .. Len(engines'[q]) /\ op'[u].engine # engine'[q]
    BY <1>1, <1>2 DEF CacheAt
  <1> QED BY <1>3, <1>4, <1>5, <1>6 DEF CacheAt

\* Objects keep their slots, leave them, or are new in one.
Moves(p, i, n) ==
    \A q \in Processes : \A j \in 1 .. Len(contexts[q]) : \A k \in Names :
       \/ contexts'[q][j].tables[k] \in {NoObject, contexts[q][j].tables[k]}
       \/ /\ q = p /\ j = i /\ k = n /\ contexts'[q][j].tables[k].name = n
          /\ contexts'[q][j].tables[k].id = serial + 1 /\ serial' = serial + 1

LEMMA SlotsMove ==
  ASSUME TypesInv, SlotsInv, serial' \in Nat, serial <= serial',
         \A q \in Processes : Len(contexts'[q]) = Len(contexts[q]),
         NEW p, NEW i, NEW n, Moves(p, i, n)
  PROVE  SlotsInv'
  <1> USE DEF Moves
  <1> DEFINE slot(q, j, k) == contexts[q][j].tables[k]
             next(q, j, k) == contexts'[q][j].tables[k]
  <1> SUFFICES ASSUME NEW q \in Processes,
                      NEW i1 \in 1 .. Len(contexts'[q]), NEW i2 \in 1 .. Len(contexts'[q]),
                      NEW k1 \in Names, NEW k2 \in Names, next(q, i1, k1) # NoObject
               PROVE  /\ next(q, i1, k1).name = k1 /\ next(q, i1, k1).id <= serial'
                      /\ next(q, i1, k1).id = next(q, i2, k2).id => i1 = i2 /\ k1 = k2
    BY DEF SlotsInv, Objects
  <1>1. i1 \in 1 .. Len(contexts[q]) /\ i2 \in 1 .. Len(contexts[q]) /\ serial \in Nat
    BY DEF TypesInv
  <1>2. ASSUME NEW j \in 1 .. Len(contexts[q]), NEW k \in Names
        PROVE  /\ slot(q, j, k).id \in Nat
               /\ slot(q, j, k) # NoObject => slot(q, j, k).id # 0 /\ slot(q, j, k).id <= serial
    <2>1. slot(q, j, k) \in Object \cup {NoObject}
      BY ContextType DEF Objects
    <2>2. NoObject.id = 0 /\ \A x \in Object : x.id \in Nat \ {0}
      BY ZenonT(60) DEF NoObject, Object
    <2> QED BY SMTT(60), <2>1, <2>2 DEF SlotsInv, Objects
  <1>3. NoObject.id = 0
    BY ZenonT(60) DEF NoObject
  <1>4. slot(q, i1, k1) # NoObject =>
           /\ slot(q, i1, k1).name = k1
           /\ slot(q, i1, k1).id = slot(q, i2, k2).id => i1 = i2 /\ k1 = k2
    BY <1>1 DEF SlotsInv, Objects
  <1>5. \/ next(q, i1, k1) = slot(q, i1, k1)
        \/ /\ q = p /\ i1 = i /\ k1 = n /\ next(q, i1, k1).name = n
           /\ next(q, i1, k1).id = serial + 1 /\ serial' = serial + 1
    BY <1>1
  <1>6. \/ next(q, i2, k2) = NoObject \/ next(q, i2, k2) = slot(q, i2, k2)
        \/ /\ q = p /\ i2 = i /\ k2 = n
           /\ next(q, i2, k2).id = serial + 1 /\ serial' = serial + 1
    BY <1>1
  <1>7. /\ slot(q, i1, k1).id \in Nat /\ slot(q, i2, k2).id \in Nat
        /\ slot(q, i1, k1) # NoObject => slot(q, i1, k1).id # 0 /\ slot(q, i1, k1).id <= serial
        /\ slot(q, i2, k2) # NoObject => slot(q, i2, k2).id # 0 /\ slot(q, i2, k2).id <= serial
    BY <1>1, <1>2
  <1>8. /\ slot(q, i2, k2) = NoObject => slot(q, i2, k2).id = 0
        /\ next(q, i2, k2) = NoObject => next(q, i2, k2).id = 0
    BY <1>3
  <1>9. next(q, i2, k2) = slot(q, i2, k2) => next(q, i2, k2).id = slot(q, i2, k2).id
    OBVIOUS
  <1> HIDE DEF slot, next
  <1>10. CASE next(q, i1, k1) = slot(q, i1, k1)
    <2>1. next(q, i1, k1).id = slot(q, i1, k1).id /\ next(q, i1, k1).name = slot(q, i1, k1).name
          /\ slot(q, i1, k1) # NoObject
      BY <1>10
    <2> QED BY <1>1, <1>4, <1>6, <1>7, <1>8, <1>9, <2>1
  <1>11. CASE /\ q = p /\ i1 = i /\ k1 = n /\ next(q, i1, k1).name = n
              /\ next(q, i1, k1).id = serial + 1 /\ serial' = serial + 1
    BY SMTT(60), <1>1, <1>6, <1>7, <1>8, <1>9, <1>11
  <1> QED BY <1>5, <1>10, <1>11

\* Nobody of process p but its manager m and its thread t holds this Table, unless
\* it is shared afterwards.
Left(p, m, t, table) ==
    /\ \A l \in Models \ {m} : Has(p, l) /\ mgr[p][l].table.id = table.id
          => <<p, table.id>> \in claimed'
    /\ \A u \in Threads \ {t} : Holding(u) /\ Home[u] = p /\ op[u].table.id = table.id
          => <<p, table.id>> \in claimed'

\* Manager m of process p, or thread t that brings it, gets Table b, which it finds
\* under n in context i or will when it is restored, and Table gone may leave the
\* metadata.
Arrives(p, m, t, i, n, b, gone) ==
    /\ Home[t] = p
    /\ serial' \in Nat /\ serial <= serial' /\ claimed \subseteq claimed'
    /\ \A q \in Processes : \A j \in 1 .. Len(contexts[q]) : \A k \in Names :
          \/ contexts[q][j].tables[k] = NoObject
          \/ contexts'[q][j].tables[k] = contexts[q][j].tables[k]
          \/ q = p /\ contexts[q][j].tables[k] = gone
    /\ \A q \in Processes, k \in Models : ~(q = p /\ k = m) => mgr'[q][k] = mgr[q][k]
    /\ \A u \in Threads \ {t} : op'[u] = op[u]
    /\ Restoring(t) => op[t].model = m
    /\ ~(mgr'[p][m] # NoManager /\ Attaching(t)')
    /\ mgr'[p][m] # NoManager =>
          mgr'[p][m].ctx = i /\ mgr'[p][m].name = n /\ mgr'[p][m].table = b
    /\ Attaching(t)' => op'[t].ctx = i /\ TableName[op'[t].model] = n /\ op'[t].table = b
    /\ b.id <= serial' /\ Left(p, m, t, b) /\ Left(p, m, t, gone)
    /\ \/ <<p, b.id>> \in claimed' \/ contexts'[p][i].tables[n] = b
       \/ Unbound(p, m)' /\ ~Attaching(t)'

LEMMA HolderArrives ==
  ASSUME TypesInv, UsesInv, HoldersInv,
         NEW p \in Processes, NEW m \in Models, NEW t \in Threads, NEW i, NEW n,
         NEW b \in Object, NEW gone, Arrives(p, m, t, i, n, b, gone)
  PROVE  HoldersInv'
  <1>0. /\ Home[t] = p
        /\ serial' \in Nat /\ serial <= serial' /\ claimed \subseteq claimed'
        /\ \A q \in Processes : \A j \in 1 .. Len(contexts[q]) : \A k \in Names :
              \/ contexts[q][j].tables[k] = NoObject
              \/ contexts'[q][j].tables[k] = contexts[q][j].tables[k]
              \/ q = p /\ contexts[q][j].tables[k] = gone
        /\ \A q \in Processes, k \in Models : ~(q = p /\ k = m) => mgr'[q][k] = mgr[q][k]
        /\ \A u \in Threads \ {t} : op'[u] = op[u]
        /\ Restoring(t) => op[t].model = m
        /\ ~(mgr'[p][m] # NoManager /\ Attaching(t)')
        /\ mgr'[p][m] # NoManager =>
              mgr'[p][m].ctx = i /\ mgr'[p][m].name = n /\ mgr'[p][m].table = b
        /\ Attaching(t)' => op'[t].ctx = i /\ TableName[op'[t].model] = n /\ op'[t].table = b
        /\ b.id <= serial' /\ Left(p, m, t, b) /\ Left(p, m, t, gone)
        /\ \/ <<p, b.id>> \in claimed' \/ contexts'[p][i].tables[n] = b
           \/ Unbound(p, m)' /\ ~Attaching(t)'
    BY DEF Arrives
  <1> HIDE DEF Unbound
  <1> USE <1>0
  <1>10. ASSUME NEW q \in Processes, NEW k \in Models, ~(q = p /\ k = m), Unbound(q, k)
         PROVE  Unbound(q, k)'
    <2>1. PICK u \in Threads : Home[u] = q /\ Restoring(u) /\ op[u].model = k
      BY <1>10 DEF Unbound
    <2>2. u # t
      BY <1>10, <2>1
    <2>3. Restoring(u)' /\ op'[u].model = k
      BY <2>1, <2>2 DEF Restoring
    <2> QED BY <2>1, <2>3 DEF Unbound
  <1>1. ASSUME NEW q \in Processes, NEW k \in Models, mgr[q][k] # NoManager, ~(q = p /\ k = m)
        PROVE  LET g == mgr[q][k] IN
               /\ g.table.id <= serial'
               /\ <<q, g.table.id>> \notin claimed' /\ ~Unbound(q, k)' =>
                     contexts'[q][g.ctx].tables[g.name] = g.table
               /\ \A l \in Models :
                     mgr[q][l] # NoManager /\ mgr[q][l].table.id = g.table.id /\ l # k
                     => <<q, g.table.id>> \in claimed'
    <2> DEFINE g == mgr[q][k]
    <2>1. Has(q, k) /\ g.table \in Object /\ g.name \in Names /\ g.ctx \in 1 .. Len(contexts[q])
      BY <1>1, ManagerType DEF Has, UsesInv
    <2>2. g.table.id \in Nat /\ g.table # NoObject
      BY SMTT(60), <2>1, ObjectNotNone DEF Object
    <2>3. /\ g.table.id <= serial
          /\ <<q, g.table.id>> \notin claimed /\ ~Unbound(q, k) =>
                contexts[q][g.ctx].tables[g.name] = g.table
          /\ \A l \in Models :
                mgr[q][l] # NoManager /\ mgr[q][l].table.id = g.table.id /\ l # k
                => <<q, g.table.id>> \in claimed
      BY <2>1 DEF HoldersInv, Shared, Has, Objects
    <2>4. ASSUME <<q, g.table.id>> \notin claimed', ~Unbound(q, k)'
          PROVE  contexts'[q][g.ctx].tables[g.name] = g.table
      <3>1. contexts[q][g.ctx].tables[g.name] = g.table
        BY <1>1, <1>10, <2>3, <2>4
      <3>2. ~(q = p /\ g.table = gone)
        BY <1>1, <2>1, <2>4 DEF Left
      <3> HIDE DEF g
      <3> QED BY <2>1, <2>2, <3>1, <3>2
    <2>5. g.table.id <= serial'
      BY SMTT(60), <2>2, <2>3 DEF TypesInv
    <2> QED BY <2>3, <2>4, <2>5
  <1>2. ASSUME NEW u \in Threads \ {t}, Attaching(u)
        PROVE  LET q == Home[u]
                   table == op[u].table IN
               /\ table.id <= serial'
               /\ <<q, table.id>> \notin claimed' =>
                     contexts'[q][op[u].ctx].tables[TableName[op[u].model]] = table
               /\ \A k \in Models : mgr[q][k] # NoManager /\ mgr[q][k].table.id = table.id
                     => <<q, table.id>> \in claimed'
               /\ \A w \in Threads :
                     Attaching(w) /\ Home[w] = q /\ op[w].table.id = table.id /\ w # u
                     => <<q, table.id>> \in claimed'
    <2> DEFINE q == Home[u]
               table == op[u].table
    <2>1. /\ q \in Processes /\ table \in Object /\ op[u].model \in Models
          /\ TableName[op[u].model] \in Names /\ op[u].ctx \in 1 .. Len(contexts[q])
      BY <1>2, HomeType, OpModel, SchemaAssumption DEF Attaching, UsesInv, Bringing
    <2>2. table.id \in Nat /\ table # NoObject
      BY SMTT(60), <2>1, ObjectNotNone DEF Object
    <2>3. /\ table.id <= serial
          /\ <<q, table.id>> \notin claimed =>
                contexts[q][op[u].ctx].tables[TableName[op[u].model]] = table
          /\ \A k \in Models : mgr[q][k] # NoManager /\ mgr[q][k].table.id = table.id
                => <<q, table.id>> \in claimed
          /\ \A w \in Threads :
                Attaching(w) /\ Home[w] = q /\ op[w].table.id = table.id /\ w # u
                => <<q, table.id>> \in claimed
      <3> HIDE DEF Attaching
      <3> QED BY <1>2 DEF HoldersInv, Shared, Has, Objects
    <2>4. ASSUME <<q, table.id>> \notin claimed'
          PROVE  contexts'[q][op[u].ctx].tables[TableName[op[u].model]] = table
      <3>1. contexts[q][op[u].ctx].tables[TableName[op[u].model]] = table
        BY <2>3, <2>4
      <3>2. ~(q = p /\ table = gone)
        BY <1>2, <2>4 DEF Left, Holding
      <3> HIDE DEF q, table
      <3> QED BY <2>1, <2>2, <3>1, <3>2
    <2>5. table.id <= serial'
      BY <2>2, <2>3 DEF TypesInv
    <2> HIDE DEF q, table
    <2>6. claimed \subseteq claimed'
      OBVIOUS
    <2> QED BY <2>3, <2>4, <2>5, <2>6 DEF q, table
  <1>3. \A u \in Threads \ {t} : Attaching(u)' <=> Attaching(u)
    BY DEF Attaching
  <1>4. /\ \A l \in Models \ {m} : mgr[p][l] # NoManager /\ mgr[p][l].table.id = b.id
              => <<p, b.id>> \in claimed'
        /\ \A u \in Threads \ {t} : Attaching(u) /\ Home[u] = p /\ op[u].table.id = b.id
              => <<p, b.id>> \in claimed'
    BY DEF Left, Has, Holding
  <1> HIDE DEF Left
  <1>5. ASSUME NEW q \in Processes, NEW k \in Models, mgr'[q][k] # NoManager
        PROVE  LET g == mgr'[q][k] IN
               /\ g.table.id <= serial'
               /\ <<q, g.table.id>> \notin claimed' /\ ~Unbound(q, k)' =>
                     contexts'[q][g.ctx].tables[g.name] = g.table
               /\ \A l \in Models :
                     mgr'[q][l] # NoManager /\ mgr'[q][l].table.id = g.table.id /\ l # k
                     => <<q, g.table.id>> \in claimed'
    <2>1. CASE q = p /\ k = m
      BY <1>4, <1>5, <2>1
    <2>2. CASE ~(q = p /\ k = m)
      <3>1. mgr'[q][k] = mgr[q][k]
        BY <2>2
      <3>2. ASSUME NEW l \in Models, mgr'[q][l] # NoManager,
                   mgr'[q][l].table.id = mgr[q][k].table.id, l # k
            PROVE  <<q, mgr[q][k].table.id>> \in claimed'
        <4>1. CASE q = p /\ l = m
          <5>1. mgr[q][k].table.id = b.id /\ k \in Models \ {m} /\ mgr[p][k] # NoManager
            BY <1>5, <2>2, <3>1, <3>2, <4>1
          <5> QED BY <1>4, <4>1, <5>1
        <4>2. CASE ~(q = p /\ l = m)
          BY SMTT(60), <1>1, <1>5, <2>2, <3>1, <3>2, <4>2
        <4> QED BY <4>1, <4>2
      <3> QED BY <1>1, <1>5, <2>2, <3>1, <3>2
    <2> QED BY <2>1, <2>2
  <1>6. ASSUME NEW u \in Threads, Attaching(u)'
        PROVE  LET q == Home[u]
                   table == op'[u].table IN
               /\ table.id <= serial'
               /\ <<q, table.id>> \notin claimed' =>
                     contexts'[q][op'[u].ctx].tables[TableName[op'[u].model]] = table
               /\ \A k \in Models : mgr'[q][k] # NoManager /\ mgr'[q][k].table.id = table.id
                     => <<q, table.id>> \in claimed'
               /\ \A w \in Threads :
                     Attaching(w)' /\ Home[w] = q /\ op'[w].table.id = table.id /\ w # u
                     => <<q, table.id>> \in claimed'
    <2>1. CASE u = t
      <3>1. ASSUME NEW k \in Models, mgr'[p][k] # NoManager, mgr'[p][k].table.id = b.id
            PROVE  <<p, b.id>> \in claimed'
        BY <1>4, <1>6, <2>1, <3>1
      <3>2. ASSUME NEW w \in Threads, Attaching(w)', Home[w] = p, op'[w].table.id = b.id, w # t
            PROVE  <<p, b.id>> \in claimed'
        BY <1>3, <1>4, <3>2
      <3> QED BY <1>6, <2>1, <3>1, <3>2
    <2>2. CASE u # t
      <3>1. op'[u] = op[u] /\ Attaching(u) /\ Home[u] \in Processes
        BY <1>3, <1>6, <2>2, HomeType
      <3>2. ASSUME NEW k \in Models, mgr'[Home[u]][k] # NoManager,
                   mgr'[Home[u]][k].table.id = op[u].table.id
            PROVE  <<Home[u], op[u].table.id>> \in claimed'
        <4>1. CASE Home[u] = p /\ k = m
          BY <1>4, <2>2, <3>1, <3>2, <4>1
        <4>2. CASE ~(Home[u] = p /\ k = m)
          BY <1>2, <2>2, <3>1, <3>2, <4>2
        <4> QED BY <4>1, <4>2
      <3>3. ASSUME NEW w \in Threads, Attaching(w)', Home[w] = Home[u],
                   op'[w].table.id = op[u].table.id, w # u
            PROVE  <<Home[u], op[u].table.id>> \in claimed'
        <4>1. CASE w = t
          BY <1>4, <2>2, <3>1, <3>3, <4>1
        <4>2. CASE w # t
          BY <1>2, <1>3, <2>2, <3>1, <3>3, <4>2
        <4> QED BY <4>1, <4>2
      <3> QED BY <1>2, <2>2, <3>1, <3>2, <3>3
    <2> QED BY <2>1, <2>2
  <1> HIDE DEF Attaching
  <1> QED BY <1>5, <1>6 DEF HoldersInv, Shared, Has, Objects

\* The threads that have a Table for the manager they restore keep it to themselves.
LEMMA AssignedArrives ==
  ASSUME TypesInv, UsesInv, ColumnsInv, AssignedInv,
         NEW p \in Processes, NEW m \in Models, NEW t \in Threads, NEW i, NEW n,
         NEW b \in Object, NEW gone, Arrives(p, m, t, i, n, b, gone),
         \A u \in Threads \ {t} :
             Assigning(u) /\ Home[u] = p /\ op[u].model = m => ~op[u].alone,
         Assigning(t)' => Assigned(t)'
  PROVE  AssignedInv'
  <1>1. /\ Home[t] = p
        /\ serial' \in Nat /\ serial <= serial' /\ claimed \subseteq claimed'
        /\ \A q \in Processes : \A j \in 1 .. Len(contexts[q]) : \A k \in Names :
              \/ contexts[q][j].tables[k] = NoObject
              \/ contexts'[q][j].tables[k] = contexts[q][j].tables[k]
              \/ q = p /\ contexts[q][j].tables[k] = gone
        /\ \A q \in Processes, k \in Models : ~(q = p /\ k = m) => mgr'[q][k] = mgr[q][k]
        /\ \A u \in Threads \ {t} : op'[u] = op[u]
        /\ mgr'[p][m] # NoManager => mgr'[p][m].table = b
        /\ Attaching(t)' => op'[t].table = b
        /\ Left(p, m, t, b) /\ Left(p, m, t, gone)
    BY DEF Arrives
  <1> SUFFICES ASSUME NEW u \in Threads, u # t, Assigning(u)' PROVE Assigned(u)'
    BY DEF AssignedInv
  <1> DEFINE q == Home[u]
             k == op[u].model
             table == op[u].table
  <1>2. op'[u] = op[u] /\ Assigning(u) /\ Holding(u)
    BY <1>1 DEF Assigning, Holding
  <1>3. Using(u)
    BY <1>2 DEF Using, Assigning, Renamings
  <1>4. /\ q \in Processes /\ k \in Models /\ Has(q, k)
        /\ mgr[q][k].ctx \in 1 .. Len(contexts[q]) /\ mgr[q][k].name \in Names
        /\ table \in Object /\ table.id \in Nat /\ table # NoObject
    <2>1. q \in Processes /\ k \in Models
      BY <1>2, OpModel, HomeType DEF Assigning, Renamings
    <2>2. Has(q, k)
      BY <1>3 DEF UsesInv
    <2>3. table \in Object
      BY <1>2 DEF ColumnsInv
    <2>4. table.id \in Nat /\ table # NoObject
      BY SMTT(60), <2>3, ObjectNotNone DEF Object
    <2>5. mgr[q][k].ctx \in 1 .. Len(contexts[q])
      BY <2>1, <2>2 DEF UsesInv
    <2>6. mgr[q][k].name \in Names
      BY <2>1, <2>2, ManagerType
    <2> QED BY <2>1, <2>2, <2>3, <2>4, <2>5, <2>6
  <1>5. /\ table.id <= serial
        /\ op[u].alone /\ <<q, table.id>> \notin claimed =>
              contexts[q][mgr[q][k].ctx].tables[mgr[q][k].name] = table
        /\ \A l \in Models : Has(q, l) /\ mgr[q][l].table.id = table.id
              => <<q, table.id>> \in claimed
        /\ \A w \in Threads : Holding(w) /\ Home[w] = q /\ op[w].table.id = table.id /\ w # u
              => <<q, table.id>> \in claimed
    <2> HIDE DEF Holding
    <2> QED BY <1>2 DEF AssignedInv, Assigned, Shared, Objects
  <1>6. table.id <= serial'
    <2>1. serial \in Nat
      BY DEF TypesInv
    <2> HIDE DEF table, q, k
    <2> QED BY SMTT(60), <1>1, <1>4, <1>5, <2>1
  <1>7. ASSUME op[u].alone, <<q, table.id>> \notin claimed'
        PROVE  contexts'[q][mgr'[q][k].ctx].tables[mgr'[q][k].name] = table
    <2>1. ~(q = p /\ k = m)
      BY <1>2, <1>7
    <2>2. mgr'[q][k] = mgr[q][k]
      BY <1>1, <1>4, <2>1
    <2>3. contexts[q][mgr[q][k].ctx].tables[mgr[q][k].name] = table
      BY <1>1, <1>5, <1>7
    <2>4. ~(q = p /\ table = gone)
      <3> HIDE DEF Holding
      <3> QED BY <1>1, <1>2, <1>7 DEF Left
    <2> HIDE DEF q, k, table
    <2> QED BY <1>1, <1>4, <2>2, <2>3, <2>4
  <1>8. ASSUME NEW l \in Models, mgr'[q][l] # NoManager, mgr'[q][l].table.id = table.id
        PROVE  <<q, table.id>> \in claimed'
    <2>1. CASE q = p /\ l = m
      <3> HIDE DEF Holding
      <3> QED BY <1>1, <1>2, <1>8, <2>1 DEF Left
    <2>2. CASE ~(q = p /\ l = m)
      BY <1>1, <1>4, <1>5, <1>8, <2>2 DEF Has
    <2> QED BY <2>1, <2>2
  <1>9. ASSUME NEW w \in Threads, Holding(w)', Home[w] = q, op'[w].table.id = table.id, w # u
        PROVE  <<q, table.id>> \in claimed'
    <2>1. CASE w # t
      <3>1. op'[w] = op[w] /\ Holding(w)
        BY <1>1, <1>9, <2>1 DEF Holding, Attaching, Assigning
      <3> QED BY <1>1, <1>5, <1>9, <3>1
    <2>2. CASE w = t /\ Attaching(t)'
      <3> HIDE DEF Holding
      <3> QED BY <1>1, <1>2, <1>9, <2>2 DEF Left
    <2>3. CASE w = t /\ Assigning(t)'
      <3>1. Holding(u)' /\ Home[u] = Home[t] /\ op'[u].table.id = op'[t].table.id /\ u # t
        BY <1>1, <1>9, <2>3 DEF Holding
      <3>2. <<Home[t], op'[t].table.id>> \in claimed'
        <4> HIDE DEF Holding
        <4> QED BY <2>3, <3>1 DEF Assigned, Shared
      <3> QED BY <1>9, <2>3, <3>2
    <2> QED BY <1>9, <2>1, <2>2, <2>3 DEF Holding
  <1>10. Assigned(u)'
    <2> HIDE DEF Holding
    <2> QED BY <1>2, <1>6, <1>7, <1>8, <1>9 DEF Assigned, Shared, Objects, Has
  <1> QED BY <1>10


\* The manager, or the thread that brings it, has what UsesInv and ColumnsInv ask.
LEMMA UserArrives ==
  ASSUME TypesInv, UsesInv, ColumnsInv,
         NEW p \in Processes, NEW m \in Models, NEW t \in Threads, Home[t] = p,
         \A q \in Processes : Len(contexts'[q]) = Len(contexts[q]),
         \A q \in Processes, k \in Models : ~(q = p /\ k = m) => mgr'[q][k] = mgr[q][k],
         \A u \in Threads \ {t} : op'[u] = op[u],
         Has(p, m) => mgr'[p][m] # NoManager,
         mgr'[p][m] # NoManager =>
             /\ mgr'[p][m].ctx \in 1 .. Len(contexts[p])
             /\ mgr'[p][m].table.cols = Columns[m]
             /\ \A u \in Threads \ {t} : Bringing(u) /\ Home[u] = p => op[u].model # m
             /\ ~Bringing(t)',
         Using(t)' => op'[t].model = m /\ Has(p, m),
         Bringing(t)' => /\ Bringing(t) /\ op'[t].model = m /\ op[t].model = m
                         /\ op'[t].ctx = op[t].ctx,
         Holding(t)' => op'[t].table \in Object /\ op'[t].model = m
                        /\ op'[t].table.cols = Columns[m],
         op'[t].at \in {"check", "create"} => op'[t].ctx \in 0 .. Len(contexts[p])
  PROVE  UsesInv' /\ ColumnsInv'
  <1>1. \A u \in Threads \ {t} :
           /\ Using(u)' <=> Using(u)
           /\ Bringing(u)' <=> Bringing(u)
           /\ Holding(u)' <=> Holding(u)
    BY DEF Using, Bringing, Holding, Attaching, Assigning
  <1> HIDE DEF Using, Bringing, Holding
  <1>3. ASSUME NEW q \in Processes, NEW k \in Models, mgr'[q][k] # NoManager
        PROVE  mgr'[q][k].ctx \in 1 .. Len(contexts'[q]) /\ mgr'[q][k].table.cols = Columns[k]
    <2>1. CASE q = p /\ k = m
      BY <1>3, <2>1
    <2>2. CASE ~(q = p /\ k = m)
      BY <1>3, <2>2 DEF UsesInv, ColumnsInv, Has
    <2> QED BY <2>1, <2>2
  <1>4. ASSUME NEW u \in Threads, Using(u)' PROVE mgr'[Home[u]][op'[u].model] # NoManager
    <2>1. CASE u = t
      BY <1>4, <2>1
    <2>2. CASE u # t
      <3>1. /\ op'[u] = op[u] /\ mgr[Home[u]][op[u].model] # NoManager /\ Home[u] \in Processes
            /\ op[u].model \in Models
        BY <1>1, <1>4, <2>2, HomeType, OpModel DEF UsesInv, Has, Using
      <3> QED BY <3>1 DEF Has
    <2> QED BY <2>1, <2>2
  <1>5. ASSUME NEW u \in Threads, Bringing(u)'
        PROVE  /\ mgr'[Home[u]][op'[u].model] = NoManager
               /\ op'[u].ctx \in 1 .. Len(contexts'[Home[u]])
               /\ \A w \in Threads :
                     Home[w] = Home[u] /\ Bringing(w)' /\ op'[w].model = op'[u].model => w = u
    <2>1. /\ Bringing(u) /\ op'[u].model = op[u].model /\ op'[u].ctx = op[u].ctx
          /\ Home[u] \in Processes
      BY <1>1, <1>5, HomeType
    <2>2. \A w \in Threads : Bringing(w)' => Bringing(w) /\ op'[w].model = op[w].model
      BY <1>1
    <2>3. /\ mgr[Home[u]][op[u].model] = NoManager /\ op[u].ctx \in 1 .. Len(contexts[Home[u]])
          /\ \A w \in Threads :
                Home[w] = Home[u] /\ Bringing(w) /\ op[w].model = op[u].model => w = u
      BY <2>1 DEF UsesInv, Has
    <2>4. op[u].model \in Models
      BY <2>1, OpModel DEF Bringing, Attaching
    <2>5. mgr'[Home[u]][op[u].model] = NoManager
      <3>1. CASE Home[u] = p /\ op[u].model = m
        BY <1>5, <2>1, <3>1
      <3>2. CASE ~(Home[u] = p /\ op[u].model = m)
        BY <2>1, <2>3, <2>4, <3>2
      <3> QED BY <3>1, <3>2
    <2> QED BY <2>1, <2>2, <2>3, <2>5
  <1>6. ASSUME NEW u \in Threads, op'[u].at \in {"check", "create"}
        PROVE  op'[u].ctx \in 0 .. Len(contexts'[Home[u]])
    BY <1>6, HomeType DEF UsesInv
  <1>7. ASSUME NEW u \in Threads, Holding(u)'
        PROVE  op'[u].table \in Object /\ op'[u].table.cols = Columns[op'[u].model]
    BY <1>1, <1>7 DEF ColumnsInv
  <1>8. UsesInv'
    BY <1>3, <1>4, <1>5, <1>6 DEF UsesInv, Has
  <1>9. ColumnsInv'
    BY <1>3, <1>7 DEF ColumnsInv, Has
  <1> QED BY <1>8, <1>9

\* A renaming thread stands on a manager that is there.
LEMMA AloneArrives ==
  ASSUME TypesInv, UsesInv, AloneInv, NEW p \in Processes, NEW m \in Models, ~Has(p, m),
         NEW t \in Threads, op'[t].at \notin Renamings,
         \A q \in Processes, k \in Models : ~(q = p /\ k = m) => mgr'[q][k] = mgr[q][k],
         \A u \in Threads \ {t} : op'[u] = op[u]
  PROVE  AloneInv'
  <1>1. ASSUME NEW u \in Threads, Renaming(u)'
        PROVE  op'[u] = op[u] /\ mgr'[Home[u]][op[u].model] = mgr[Home[u]][op[u].model]
    <2>1. u # t /\ op'[u] = op[u] /\ Renaming(u)
      BY <1>1 DEF Renaming, Restoring, Renamings
    <2>2. Has(Home[u], op[u].model) /\ Home[u] \in Processes /\ op[u].model \in Models
      BY <2>1, RenamingFields
    <2> QED BY <2>1, <2>2
  <1> QED BY <1>1, AloneKept

LEMMA CreatedKeeps ==
  ASSUME SchemaInv, NEW t \in Threads, Created(t)
  PROVE  SchemaInv'
  <1> DEFINE p == Home[t]
             o == op[t]
             m == o.model
             g == [ctx |-> o.ctx, name |-> TableName[m], table |-> o.table]
  <1>1. /\ TypesInv /\ CacheInv /\ UsesInv /\ LedgerInv /\ AloneInv /\ ColumnsInv
        /\ SlotsInv /\ HoldersInv /\ AssignedInv /\ p \in Processes
    BY HomeType DEF SchemaInv
  <1>2. /\ o.at = "create" /\ Return(t)
        /\ IF o.attach THEN mgr' = [mgr EXCEPT ![p][m] = g] ELSE mgr' = mgr
        /\ UNCHANGED <<database, cache, serial, claimed, ops, faults>>
    BY DEF Created, Attach, Proc
  <1>3. m \in Models /\ o.ctx \in Nat /\ o.attach \in BOOLEAN /\ o.table \in Object
    BY <1>1, <1>2, OpModel
  <1>4. op' \in [Threads -> Ops] /\ op'[t] = Idle /\ \A u \in Threads \ {t} : op'[u] = op[u]
    BY <1>1, <1>2, ReturnOp
  <1>5. /\ ~Using(t)' /\ ~Bringing(t)' /\ ~Attaching(t)' /\ ~Adds(t) /\ ~Adds(t)'
        /\ ~Restoring(t) /\ ~Assigning(t) /\ ~Assigning(t)' /\ ~Holding(t)'
        /\ op'[t].at \notin Renamings \cup {"check", "create", "close"}
    BY <1>2, <1>4 DEF Using, Bringing, Holding, Attaching, Assigning, Restoring, Adds,
                      Renamings, Idle
  <1>6. UNCHANGED <<contexts, cached, engines, engine, live, ledger, applied, excused>>
    BY <1>2 DEF cache, database
  <1>7. LedgerInv'
    BY SMTT(60), <1>1, <1>2, <1>4, <1>5, <1>6, LiveKept, LedgerKept DEF Accounts, TypesInv
  <1>8. CASE ~o.attach
    <2>1. TypesInv'
      BY <1>1, <1>2, <1>4, <1>8, TypesParts, TypesPartsNext, PartsKept, CountersStep DEF objects
    <2>2. Plain(t)
      BY <1>5, <1>4 DEF Plain, Idle
    <2>3. AloneInv'
      BY <1>1, <1>2, <1>4, <1>5, <1>8, NoRename
    <2>4. UNCHANGED <<cache, mgr, claimed>> /\ serial <= serial'
      BY <1>1, <1>2, <1>8 DEF TypesInv
    <2> QED BY <1>4, <1>7, <2>1, <2>2, <2>3, <2>4, PlainSchemaStep
  <1>9. CASE o.attach
    <2>1. Bringing(t) /\ Attaching(t)
      BY <1>2, <1>9 DEF Bringing, Attaching
    <2>2. /\ ~Has(p, m) /\ o.ctx \in 1 .. Len(contexts[p])
          /\ \A u \in Threads : Home[u] = p /\ Bringing(u) /\ op[u].model = m => u = t
      BY SMTT(60), <1>1, <2>1 DEF UsesInv
    <2>3. /\ o.table.cols = Columns[m] /\ o.table.id <= serial
          /\ <<p, o.table.id>> \notin claimed => contexts[p][o.ctx].tables[TableName[m]] = o.table
          /\ \A k \in Models : Has(p, k) /\ mgr[p][k].table.id = o.table.id
                => <<p, o.table.id>> \in claimed
          /\ \A u \in Threads :
                Holding(u) /\ Home[u] = p /\ op[u].table.id = o.table.id /\ u # t
                => <<p, o.table.id>> \in claimed
      <3>1. ASSUME NEW u \in Threads, Assigning(u), Home[u] = p, op[u].table.id = o.table.id, u # t
            PROVE  <<p, o.table.id>> \in claimed
        <4>1. Assigned(u) /\ Holding(t)
          BY <1>1, <2>1, <3>1 DEF AssignedInv, Holding
        <4> HIDE DEF Holding
        <4> QED BY <3>1, <4>1 DEF Assigned, Shared
      <3>2. Holding(t)
        BY <2>1 DEF Holding
      <3>3. \A u \in Threads :
               Attaching(u) /\ Home[u] = p /\ op[u].table.id = o.table.id /\ u # t
               => <<p, o.table.id>> \in claimed
        <4> HIDE DEF Attaching
        <4> QED BY <1>1, <2>1 DEF HoldersInv, Shared
      <3>4. \A u \in Threads :
               Holding(u) /\ Home[u] = p /\ op[u].table.id = o.table.id /\ u # t
               => <<p, o.table.id>> \in claimed
        BY <3>1, <3>3 DEF Holding
      <3> HIDE DEF Attaching, Holding
      <3> QED BY <1>1, <2>1, <3>2, <3>4 DEF ColumnsInv, HoldersInv, Shared, Objects
    <2>4. /\ g \in Manager /\ g.ctx = o.ctx /\ g.name = TableName[m] /\ g.table = o.table
          /\ g # NoManager
      <3>1. o.ctx # 0
        BY <1>1, <2>2, LenType
      <3> QED BY <1>3, <3>1, SchemaAssumption, ObjectNotNone DEF Manager
    <2>5. mgr' = [mgr EXCEPT ![p][m] = g]
      BY <1>2, <1>9
    <2> HIDE DEF g
    <2>6. /\ mgr' \in [Processes -> [Models -> Manager \cup {NoManager}]]
          /\ mgr'[p][m] = g
          /\ \A q \in Processes, k \in Models : ~(q = p /\ k = m) => mgr'[q][k] = mgr[q][k]
      <3> HIDE DEF p, m
      <3>1. p \in Processes /\ m \in Models
        BY <1>1, <1>3 DEF m
      <3> QED BY <1>1, <2>4, <2>5, <3>1 DEF TypesInv
    <2>7. TypesInv'
      <3>1. ObjectTypes'
        BY <1>1, <1>2, <2>6 DEF ObjectTypes, TypesInv
      <3> QED BY <1>1, <1>2, <1>4, <3>1, TypesParts, TypesPartsNext, PartsKept, CountersStep
    <2>8. CacheInv'
      BY <1>1, <1>4, <1>5, <1>6, CacheSame
    <2>9. AloneInv'
      BY <1>1, <1>3, <1>4, <1>5, <2>2, <2>6, AloneArrives
    <2>10. SlotsInv'
      BY <1>1, <1>2, <1>6 DEF SlotsInv, Objects
    <2>11. UsesInv' /\ ColumnsInv'
      <3>1. \A q \in Processes : Len(contexts'[q]) = Len(contexts[q])
        BY <1>6
      <3>2. mgr'[p][m] # NoManager
        BY <2>4, <2>6
      <3>3. /\ mgr'[p][m].ctx \in 1 .. Len(contexts[p])
            /\ mgr'[p][m].table.cols = Columns[m]
            /\ \A u \in Threads \ {t} : Bringing(u) /\ Home[u] = p => op[u].model # m
        BY <2>2, <2>3, <2>4, <2>6
      <3> HIDE DEF Using, Bringing, Holding
      <3> QED BY <1>1, <1>3, <1>4, <1>5, <2>6, <3>1, <3>2, <3>3, UserArrives
    <2>12. HoldersInv' /\ AssignedInv'
      <3>1. /\ serial' \in Nat /\ serial <= serial' /\ claimed \subseteq claimed'
            /\ o.table.id <= serial'
        BY <1>1, <1>2, <2>3 DEF TypesInv
      <3>2. Left(p, m, t, o.table)
        BY SMTT(60), <1>2, <2>3 DEF Left
      <3>3. \A q \in Processes : \A j \in 1 .. Len(contexts[q]) : \A k \in Names :
               contexts'[q][j].tables[k] = contexts[q][j].tables[k]
        BY SMTT(60), <1>6
      <3>4. <<p, o.table.id>> \notin claimed' =>
               contexts'[p][o.ctx].tables[TableName[m]] = o.table
        BY <1>2, <1>6, <2>3
      <3>5. mgr'[p][m].ctx = o.ctx /\ mgr'[p][m].name = TableName[m] /\ mgr'[p][m].table = o.table
        BY <2>4, <2>6
      <3>6. ASSUME NEW k, k = m, NEW b, b = o.table, NEW i, i = o.ctx, NEW n, n = TableName[m]
            PROVE  HoldersInv' /\ AssignedInv'
        <4>1. k \in Models /\ b \in Object /\ mgr'[p][k] = g
          BY SMTT(60), <1>3, <2>6, <3>6
        <4>2. Arrives(p, k, t, i, n, b, b)
          BY <1>4, <1>5, <2>4, <2>6, <3>1, <3>2, <3>3, <3>4, <3>6, <4>1 DEF Arrives, Left
        <4> HIDE DEF Arrives, p, m
        <4>3. p \in Processes
          BY <1>1
        <4>4. ASSUME NEW u \in Threads \ {t}, Assigning(u), Home[u] = p, op[u].model = k
              PROVE  ~op[u].alone
          <5>1. Using(u)
            BY <4>4 DEF Using, Assigning, Renamings
          <5>2. Has(p, k)
            BY <1>1, <4>4, <5>1 DEF UsesInv
          <5> QED BY <2>2, <3>6, <5>2
        <4>5. HoldersInv'
          BY <1>1, <4>1, <4>2, <4>3, HolderArrives
        <4>6. AssignedInv'
          BY <1>1, <1>5, <4>1, <4>2, <4>3, <4>4, AssignedArrives
        <4> QED BY <4>5, <4>6
      <3> QED BY <3>6
    <2> QED BY <1>1, <1>7, <2>7, <2>8, <2>9, <2>10, <2>11, <2>12 DEF SchemaInv
  <1> QED BY <1>8, <1>9


\* The Table of a manager has no other holder, unless it is shared.
LEMMA OwnTableLeft ==
  ASSUME SchemaInv, NEW t \in Threads, NEW p \in Processes, NEW m \in Models, Has(p, m),
         claimed \subseteq claimed'
  PROVE  Left(p, m, t, mgr[p][m].table)
  <1>1. HoldersInv /\ AssignedInv
    BY DEF SchemaInv
  <1>2. \A l \in Models \ {m} : Has(p, l) /\ mgr[p][l].table.id = mgr[p][m].table.id
           => <<p, mgr[p][m].table.id>> \in claimed
    BY SMTT(60), <1>1 DEF HoldersInv, Shared
  <1>3. ASSUME NEW u \in Threads, Holding(u), Home[u] = p, op[u].table.id = mgr[p][m].table.id
        PROVE  <<p, mgr[p][m].table.id>> \in claimed
    <2>1. CASE Attaching(u)
      <3>1. \A k \in Models : Has(Home[u], k) /\ mgr[Home[u]][k].table.id = op[u].table.id
               => <<Home[u], op[u].table.id>> \in claimed
        <4> HIDE DEF Attaching
        <4> QED BY <1>1, <2>1 DEF HoldersInv, Shared
      <3> QED BY <1>3, <3>1
    <2>2. CASE Assigning(u)
      <3>1. \A k \in Models : Has(Home[u], k) /\ mgr[Home[u]][k].table.id = op[u].table.id
               => <<Home[u], op[u].table.id>> \in claimed
        BY <1>1, <2>2 DEF AssignedInv, Assigned, Shared
      <3> QED BY <1>3, <3>1
    <2> QED BY <1>3, <2>1, <2>2 DEF Holding
  <1> HIDE DEF Holding
  <1> QED BY <1>2, <1>3 DEF Left

\* Neither has one whose id is new.
LEMMA NewTableLeft ==
  ASSUME SchemaInv, NEW t \in Threads, NEW p \in Processes, NEW m,
         NEW b, b.id = serial + 1
  PROVE  Left(p, m, t, b)
  <1>1. TypesInv /\ ColumnsInv /\ HoldersInv /\ AssignedInv /\ serial \in Nat
    BY DEF SchemaInv, TypesInv
  <1>2. ASSUME NEW k \in Models, Has(p, k) PROVE mgr[p][k].table.id # b.id
    <2>1. mgr[p][k].table.id <= serial
      BY <1>1, <1>2 DEF HoldersInv
    <2>2. mgr[p][k].table.id \in Nat
      BY <1>1, <1>2, ManagerType DEF Object
    <2> QED BY <1>1, <2>1, <2>2
  <1>3. ASSUME NEW u \in Threads, Holding(u) PROVE op[u].table.id # b.id
    <2>1. op[u].table.id <= serial
      BY <1>1, <1>3 DEF HoldersInv, AssignedInv, Assigned, Holding
    <2>2. op[u].table.id \in Nat
      <3> HIDE DEF Holding
      <3> QED BY <1>1, <1>3 DEF ColumnsInv, Object
    <2> QED BY <1>1, <2>1, <2>2
  <1> QED BY <1>2, <1>3 DEF Left

\* Manager g is the one that thread t renames.
Renames(t, p, m, g) == p = Home[t] /\ m = op[t].model /\ g = mgr[p][m]

\* A step of thread t, which renames manager g and gives it Table b and name n, or
\* leaves it these; slot k of the metadata of its context may change.
ManagerMoves(t, p, m, g, n, k, b) ==
    /\ Renaming(t) /\ Renames(t, p, m, g) /\ b \in Object /\ b.cols = Columns[m]
    /\ UNCHANGED <<database, ops, faults, cached, engines, engine>>
    /\ op' \in [Threads -> Ops]
    /\ \/ op'[t] = Idle
       \/ op'[t] \in RenameOps /\ op'[t].model = op[t].model /\ op'[t].alone = op[t].alone
    /\ CacheTypes' /\ ObjectTypes'
    /\ \A q \in Processes :
          /\ Len(contexts'[q]) = Len(contexts[q])
          /\ \A j \in 1 .. Len(contexts[q]) :
                /\ contexts'[q][j].engine = contexts[q][j].engine
                /\ contexts'[q][j].disposed = contexts[q][j].disposed
    /\ Moves(p, g.ctx, k) /\ Arrives(p, m, t, g.ctx, n, b, g.table)
    /\ mgr'[p][m] # NoManager
    /\ Assigning(t)' =>
          op'[t].table \in Object /\ op'[t].table.cols = Columns[m] /\ Assigned(t)'
    /\ Renaming(t)' /\ op[t].alone => Stands(op'[t], mgr'[p][m])

LEMMA ManagerStep ==
  ASSUME SchemaInv, NEW t \in Threads, NEW p, NEW m, NEW g, NEW n, NEW k, NEW b,
         ManagerMoves(t, p, m, g, n, k, b)
  PROVE  SchemaInv'
  <1> USE DEF ManagerMoves, Renames
  <1>1. /\ TypesInv /\ CacheInv /\ UsesInv /\ LedgerInv /\ AloneInv /\ ColumnsInv
        /\ SlotsInv /\ HoldersInv /\ AssignedInv
    BY DEF SchemaInv
  <1>2. p \in Processes /\ m \in Models /\ Has(p, m) /\ op[t].at \in Renamings
    BY SMTT(60), <1>1, RenamingFields
  <1>3. /\ serial' \in Nat /\ serial <= serial'
        /\ \A q \in Processes, l \in Models : ~(q = p /\ l = m) => mgr'[q][l] = mgr[q][l]
        /\ \A u \in Threads \ {t} : op'[u] = op[u]
        /\ mgr'[p][m].ctx = g.ctx /\ mgr'[p][m].table = b
    BY DEF Arrives
  <1> HIDE DEF Arrives
  <1>4. op'[t].at = "idle" \/ op'[t].at \in Renamings
    BY DEF Idle, RenameOps
  <1>5. /\ ~Bringing(t)' /\ ~Attaching(t)' /\ ~Adds(t) /\ ~Adds(t)'
        /\ op'[t].at \notin {"check", "create", "close"}
        /\ Using(t)' => op'[t].model = m
    BY <1>2, <1>4 DEF Using, Bringing, Attaching, Adds, Renamings, Idle
  <1>6. Renaming(t)' => op'[t].model = op[t].model /\ op'[t].alone = op[t].alone
    BY DEF Renaming, Restoring, Idle
  <1>7. Assigning(t)' => Renaming(t)'
    BY DEF Assigning, Renaming, Restoring
  <1>8. TypesInv'
    BY <1>1, TypesParts, TypesPartsNext, PartsKept, CountersStep
  <1>9. CacheInv'
    BY <1>1, <1>3, <1>5, CacheSame
  <1>10. SlotsInv'
    BY <1>1, <1>3, SlotsMove
  <1>11. UsesInv' /\ ColumnsInv'
    <2>1. mgr'[p][m].ctx \in 1 .. Len(contexts[p]) /\ mgr'[p][m].table.cols = Columns[m]
      BY <1>1, <1>2, <1>3 DEF UsesInv
    <2>2. \A u \in Threads : Bringing(u) /\ Home[u] = p => op[u].model # m
      BY <1>1, <1>2 DEF UsesInv
    <2>3. Holding(t)' => op'[t].table \in Object /\ op'[t].model = m
                         /\ op'[t].table.cols = Columns[m]
      BY <1>5, <1>6, <1>7 DEF Holding
    <2> HIDE DEF Using, Bringing, Holding
    <2> QED BY <1>1, <1>2, <1>3, <1>5, <2>1, <2>2, <2>3, UserArrives
  <1>12. HoldersInv' /\ AssignedInv'
    <2>1. ASSUME NEW u \in Threads \ {t}, Assigning(u), Home[u] = p, op[u].model = m
          PROVE  ~op[u].alone
      <3>1. Renaming(u)
        BY <2>1 DEF Renaming, Restoring, Assigning
      <3> HIDE DEF Renaming
      <3> QED BY <1>1, <2>1, <3>1 DEF AloneInv
    <2>2. HoldersInv'
      BY <1>1, <1>2, HolderArrives
    <2>3. Assigning(t)' => Assigned(t)'
      OBVIOUS
    <2>4. AssignedInv'
      BY <1>1, <1>2, <2>1, <2>3, AssignedArrives
    <2> QED BY <2>2, <2>4
  <1>13. AloneInv'
    <2>1. ASSUME NEW u \in Threads, Renaming(u), Home[u] # Home[t] \/ op[u].model # op[t].model
          PROVE  mgr'[Home[u]][op[u].model] = mgr[Home[u]][op[u].model]
      BY <1>1, <1>3, <2>1, RenamingFields
    <2> HIDE DEF Renaming
    <2> QED BY <1>1, <1>3, <1>6, <2>1, RenameMoves
  <1>14. LedgerInv'
    <2>1. UNCHANGED <<live, ledger, applied, excused>>
      BY DEF database
    <2>2. LiveMoves
      BY <1>1, <1>3, <2>1, LiveKept
    <2>3. \A u \in Threads : op'[u] = op[u] \/ Accounts(u)
      BY <1>3, <1>5 DEF Accounts
    <2> QED BY <1>1, <2>1, <2>2, <2>3, LedgerKept
  <1> QED BY <1>8, <1>9, <1>10, <1>11, <1>12, <1>13, <1>14 DEF SchemaInv

\* Manager g, the metadata of its context without its Table, and the Table it gets.
BindTakes(p, m, g, left, b) ==
    /\ g = mgr[p][m] /\ b = mgr'[p][m].table
    /\ left = Detached(Objects(p, g.ctx), g.name, g.table)

\* _rebind_table_state.
LEMMA BindKeeps ==
  ASSUME SchemaInv, NEW t \in Threads, Renaming(t), NEW n \in Names,
         NEW p, p = Home[t], NEW m, m = op[t].model,
         Bind(p, m, n), UNCHANGED <<database, ops, faults>>,
         op' \in [Threads -> Ops], \A u \in Threads \ {t} : op'[u] = op[u],
         op'[t] \in RenameOps, op'[t].model = op[t].model, op'[t].alone = op[t].alone,
         op'[t].at \in {"verify", "rollback"}, op[t].alone => op'[t].moved,
         op'[t].at = "verify" => op'[t].target = n /\ Binds(p, m, n)
  PROVE  SchemaInv'
  <1>1. /\ TypesInv /\ CacheInv /\ UsesInv /\ LedgerInv /\ AloneInv /\ ColumnsInv
        /\ SlotsInv /\ HoldersInv
    BY DEF SchemaInv
  <1> SUFFICES ASSUME NEW g, NEW left, NEW b, BindTakes(p, m, g, left, b)
               PROVE  SchemaInv'
    BY DEF BindTakes
  <1> DEFINE known == contexts[p][g.ctx].tables
  <1>2. /\ p \in Processes /\ m \in Models /\ Has(p, m) /\ Bind(p, m, n) /\ op[t].at \in Renamings
    BY SMTT(60), <1>1, RenamingFields
  <1>3. BindEffect(p, m, n, g, left)
    BY <1>1, <1>2, BindDoes DEF BindTakes
  <1>30. g = mgr[p][m] /\ b = mgr'[p][m].table /\ (Binds(p, m, n) <=> Compatible(left, n, m))
    BY DEF BindTakes, Binds
  <1>31. /\ g \in Manager /\ g.ctx \in 1 .. Len(contexts[p])
         /\ left \in [Names -> Object \cup {NoObject}]
    BY <1>3 DEF BindEffect
  <1>32. CacheTypes' /\ ObjectTypes'
    BY <1>3 DEF BindEffect
  <1>33. /\ UNCHANGED <<cached, engines, engine>>
         /\ \A q \in Processes \ {p} : contexts'[q] = contexts[q]
         /\ Len(contexts'[p]) = Len(contexts[p])
         /\ \A j \in 1 .. Len(contexts[p]) \ {g.ctx} : contexts'[p][j] = contexts[p][j]
         /\ contexts'[p][g.ctx].engine = contexts[p][g.ctx].engine
         /\ contexts'[p][g.ctx].disposed = contexts[p][g.ctx].disposed
    BY SMTT(60), <1>3 DEF BindEffect
  <1>34. /\ \A q \in Processes \ {p} : mgr'[q] = mgr[q]
         /\ \A k \in Models \ {m} : mgr'[p][k] = mgr[p][k]
         /\ mgr'[p][m] \in Manager /\ mgr'[p][m].ctx = g.ctx /\ mgr'[p][m].name = n
         /\ mgr'[p][m].table = b
    BY ZenonT(60), <1>3 DEF BindEffect, BindTakes
  <1>35. ASSUME Compatible(left, n, m)
         PROVE  /\ b \in Object /\ b = Built(left, n, m)
                /\ contexts'[p][g.ctx].tables = [left EXCEPT ![n] = b]
                /\ claimed' = claimed \cup {<<p, left[n].id>>} /\ serial' = serial + 1
    <2>1. /\ Built(left, n, m) \in Object
          /\ mgr'[p][m].table = Built(left, n, m)
          /\ contexts'[p][g.ctx].tables = [left EXCEPT ![n] = Built(left, n, m)]
          /\ claimed' = claimed \cup {<<p, left[n].id>>} /\ serial' = serial + 1
      BY SMTT(60), <1>3, <1>35 DEF BindEffect
    <2> QED BY <1>30, <2>1
  <1>36. ASSUME ~Compatible(left, n, m)
         PROVE  /\ b = g.table /\ contexts'[p][g.ctx].tables = left
                /\ claimed' = claimed \cup {<<p, g.table.id>>} /\ serial' = serial
    BY ZenonT(60), <1>3, <1>36 DEF BindEffect, BindTakes
  <1>4. /\ known \in [Names -> Object \cup {NoObject}]
        /\ \A k \in Names : \/ left[k] = known[k]
                            \/ left[k] = NoObject /\ known[k] = g.table
        /\ serial \in Nat /\ serial' \in Nat /\ serial <= serial'
    <2>1. known \in [Names -> Object \cup {NoObject}]
      BY SMTT(60), <1>1, <1>2, <1>31, ContextType DEF Objects
    <2>2. \A k \in Names : \/ left[k] = known[k]
                           \/ left[k] = NoObject /\ known[k] = g.table
      BY ZenonT(60), <2>1 DEF Detached, BindTakes, Objects
    <2>3. serial \in Nat
      BY <1>1 DEF TypesInv
    <2>4. serial' \in Nat /\ serial <= serial'
      BY <1>35, <1>36, <2>3
    <2> QED BY <2>1, <2>2, <2>3, <2>4
  <1>5. \A k \in Names : known[k] # NoObject => known[k].id <= serial /\ known[k].name = k
    BY <1>1, <1>2, <1>31 DEF SlotsInv, Objects
  <1>6. /\ g.table \in Object /\ g.table.cols = Columns[m] /\ g.table.id <= serial
        /\ g.name \in Names
    <2>1. g.table \in Object /\ g.name \in Names
      BY <1>31 DEF Manager
    <2>0. Has(p, m) /\ g = mgr[p][m]
      BY <1>2 DEF BindTakes
    <2>2. g.table.cols = Columns[m]
      BY <1>1, <1>2, <2>0 DEF ColumnsInv
    <2>3. g.table.id <= serial
      BY SMTT(60), <1>1, <1>2, <2>0 DEF HoldersInv
    <2> QED BY <2>1, <2>2, <2>3
  \* What the manager gets: a new Table, or one that is shared from now on.
  <1>7. /\ b \in Object /\ b.cols = Columns[m] /\ b.id <= serial'
        /\ <<p, b.id>> \in claimed' \/ (b.id = serial + 1 /\ b.name = n /\ serial' = serial + 1)
        /\ <<p, b.id>> \notin claimed' => contexts'[p][g.ctx].tables[n] = b
        /\ \A k \in Names :
              \/ contexts'[p][g.ctx].tables[k] = left[k]
              \/ /\ k = n /\ left[k] = NoObject /\ contexts'[p][g.ctx].tables[k] = b
                 /\ b.id = serial + 1 /\ b.name = n /\ serial' = serial + 1
    <2>1. CASE Compatible(left, n, m)
      <3> DEFINE next == [left EXCEPT ![n] = b]
      <3>1. /\ b \in Object /\ contexts'[p][g.ctx].tables = next /\ serial' = serial + 1
            /\ claimed' = claimed \cup {<<p, left[n].id>>}
            /\ b = IF left[n] = NoObject THEN Fresh(n, m) ELSE left[n]
        BY <1>35, <2>1 DEF Built
      <3>0. b.cols = Columns[m]
        BY <2>1, <3>1 DEF Compatible, Fresh
      <3>2. next[n] = b /\ \A k \in Names \ {n} : next[k] = left[k]
        BY <1>31
      <3> HIDE DEF next
      <3>3. CASE left[n] = NoObject
        <4>1. b.id = serial + 1 /\ b.name = n
          BY <3>1, <3>3 DEF Fresh
        <4> QED BY <1>4, <3>0, <3>1, <3>2, <3>3, <4>1
      <3>4. CASE left[n] # NoObject
        <4>1. b = left[n] /\ b = known[n] /\ known[n] # NoObject
          BY SMTT(60), <1>4, <3>1, <3>4
        <4>2. b.id <= serial /\ b.id \in Nat
          BY ZenonT(60), <1>5, <3>1, <4>1 DEF Object
        <4>3. b.id <= serial'
          BY SMTT(60), <1>4, <3>1, <4>2
        <4>4. <<p, b.id>> \in claimed'
          BY <3>1, <4>1
        <4>5. \A k \in Names : next[k] = left[k]
          BY <3>2, <4>1
        <4> QED BY <3>0, <3>1, <4>3, <4>4, <4>5
      <3> QED BY <3>3, <3>4
    <2>2. CASE ~Compatible(left, n, m)
      <3>1. b = g.table /\ claimed' = claimed \cup {<<p, g.table.id>>} /\ serial' = serial
            /\ contexts'[p][g.ctx].tables = left
        BY <1>36, <2>2
      <3> QED BY <1>6, <3>1
    <2> QED BY <2>1, <2>2
  <1>8. /\ claimed \subseteq claimed'
        /\ \A q \in Processes : Len(contexts'[q]) = Len(contexts[q])
        /\ \A q \in Processes, k \in Models : ~(q = p /\ k = m) => mgr'[q][k] = mgr[q][k]
        /\ mgr'[p][m] # NoManager
    <2>1. claimed \subseteq claimed'
      BY <1>35, <1>36
    <2> QED BY <1>33, <1>34, <2>1, ObjectNotNone
  <1>9. Moves(p, g.ctx, n)
    <2>1. ASSUME NEW q \in Processes, NEW j \in 1 .. Len(contexts[q]), NEW k \in Names
          PROVE  \/ contexts'[q][j].tables[k] \in {NoObject, contexts[q][j].tables[k]}
                 \/ /\ q = p /\ j = g.ctx /\ k = n /\ contexts'[q][j].tables[k].name = n
                    /\ contexts'[q][j].tables[k].id = serial + 1 /\ serial' = serial + 1
      <3>1. CASE q = p /\ j = g.ctx
        BY <1>4, <1>7, <3>1
      <3>2. CASE ~(q = p /\ j = g.ctx)
        BY <1>33, <3>2
      <3> QED BY SMTT(60), <3>1, <3>2
    <2> QED BY <2>1 DEF Moves
  <1>10. Arrives(p, m, t, g.ctx, n, b, g.table)
    <2>1. ASSUME NEW q \in Processes, NEW j \in 1 .. Len(contexts[q]), NEW k \in Names
          PROVE  \/ contexts[q][j].tables[k] = NoObject
                 \/ contexts'[q][j].tables[k] = contexts[q][j].tables[k]
                 \/ q = p /\ contexts[q][j].tables[k] = g.table
      <3>1. CASE q = p /\ j = g.ctx
        BY <1>4, <1>7, <3>1
      <3>2. CASE ~(q = p /\ j = g.ctx)
        BY <1>33, <3>2
      <3> QED BY <3>1, <3>2
    <2>2. Left(p, m, t, g.table)
      BY <1>2, <1>8, <1>30, OwnTableLeft
    <2>3. Left(p, m, t, b)
      <3>1. CASE <<p, b.id>> \in claimed'
        BY <3>1 DEF Left
      <3>2. CASE b.id = serial + 1
        BY <1>2, <3>2, NewTableLeft
      <3> QED BY <1>7, <3>1, <3>2
    <2>4. ~Attaching(t)'
      BY DEF Attaching
    <2> HIDE DEF Left, Attaching
    <2> QED BY <1>4, <1>7, <1>8, <1>34, <2>1, <2>2, <2>3, <2>4 DEF Arrives
  <1>11. op[t].alone => Stands(op'[t], mgr'[p][m])
    <2>1. op'[t].at = "verify" => b.name = n
      <3>1. ASSUME Binds(p, m, n) PROVE b.name = n
        <4>1. b = IF left[n] = NoObject THEN Fresh(n, m) ELSE left[n]
          BY ZenonT(60), <1>30, <1>35, <3>1 DEF Built
        <4>2. left[n] # NoObject => left[n].name = n
          BY <1>4, <1>5
        <4> QED BY SMTT(60), <4>1, <4>2 DEF Fresh
      <3> QED BY <3>1
    <2>2. op'[t].at \notin {"alter", "rebind", "rebuild", "assign"}
      OBVIOUS
    <2>3. op[t].alone => op'[t].moved
      OBVIOUS
    <2> QED BY <1>34, <2>1, <2>2, <2>3 DEF Stands
  <1>12. ~Assigning(t)'
    BY DEF Assigning
  <1>13. \A q \in Processes :
            /\ Len(contexts'[q]) = Len(contexts[q])
            /\ \A j \in 1 .. Len(contexts[q]) :
                  /\ contexts'[q][j].engine = contexts[q][j].engine
                  /\ contexts'[q][j].disposed = contexts[q][j].disposed
    BY <1>33
  <1>14. /\ UNCHANGED <<database, ops, faults, cached, engines, engine>>
         /\ Renames(t, p, m, g)
         /\ b \in Object /\ b.cols = Columns[m] /\ mgr'[p][m] # NoManager
         /\ CacheTypes' /\ ObjectTypes'
    BY <1>7, <1>8, <1>30, <1>32, <1>33 DEF Renames
  <1> HIDE DEF Moves, Arrives, Stands
  <1>15. ManagerMoves(t, p, m, g, n, n, b)
    BY <1>9, <1>10, <1>11, <1>12, <1>13, <1>14 DEF ManagerMoves
  <1> QED BY <1>15, ManagerStep


LEMMA RebindKeeps ==
  ASSUME SchemaInv, NEW t \in Threads, Rebind(t)
  PROVE  SchemaInv'
  <1>1. TypesInv /\ UsesInv /\ AloneInv /\ Renaming(t) /\ op[t].at = "rebind"
    BY DEF SchemaInv, Rebind, Renaming
  <1> SUFFICES ASSUME NEW p, p = Home[t], NEW m, m = op[t].model, NEW n, n = op[t].target,
                      NEW rec, rec = [op[t] EXCEPT !.at = IF Binds(p, m, n) THEN "verify" ELSE "rollback"]
               PROVE  SchemaInv'
    OBVIOUS
  <1>2. op[t] \in RenameOps /\ n \in Names
    BY <1>1, RenamingFields
  <1>3. /\ Bind(p, m, n) /\ UNCHANGED <<database, ops, faults>> /\ Goto(t, rec)
    BY DEF Rebind, Proc
  <1>4. /\ rec \in RenameOps /\ rec.at = (IF Binds(p, m, n) THEN "verify" ELSE "rollback")
        /\ rec.model = op[t].model /\ rec.alone = op[t].alone
        /\ rec.target = op[t].target /\ rec.moved = op[t].moved
    <2>1. (IF Binds(p, m, n) THEN "verify" ELSE "rollback") \in Renamings
      BY DEF Renamings
    <2> QED BY <1>2, <2>1, RenameAt
  <1>5. op' \in [Threads -> Ops] /\ op'[t] = rec /\ \A u \in Threads \ {t} : op'[u] = op[u]
    BY <1>1, <1>3, <1>4, GotoOp, RenameOpsIn
  <1>6. op[t].alone => op[t].moved
    BY <1>1 DEF AloneInv, Stands
  <1>7. /\ op'[t].at \in {"verify", "rollback"}
        /\ op[t].alone => op'[t].moved
        /\ op'[t].at = "verify" => op'[t].target = n /\ Binds(p, m, n)
    BY <1>4, <1>5, <1>6
  <1> QED BY ZenonT(60), <1>1, <1>2, <1>3, <1>4, <1>5, <1>7, BindKeeps

LEMMA RenamedManager ==
  ASSUME SchemaInv, NEW t \in Threads, Renaming(t), NEW p, NEW m, NEW g, Renames(t, p, m, g)
  PROVE  /\ p \in Processes /\ m \in Models /\ Has(p, m) /\ op[t] \in RenameOps
         /\ g \in Manager /\ g.ctx \in 1 .. Len(contexts[p]) /\ g.name \in Names
         /\ g.table \in Object /\ g.table.cols = Columns[m]
         /\ g.table.id \in Nat /\ g.table.id <= serial /\ serial \in Nat
         /\ Objects(p, g.ctx) \in [Names -> Object \cup {NoObject}]
  <1> USE DEF Renames
  <1>1. TypesInv /\ UsesInv /\ ColumnsInv /\ HoldersInv
    BY DEF SchemaInv
  <1>2. p \in Processes /\ m \in Models /\ Has(p, m) /\ op[t] \in RenameOps
    BY <1>1, RenamingFields
  <1>3. g \in Manager /\ g.name \in Names /\ g.table \in Object
    BY <1>1, <1>2, ManagerType
  <1>4. g.ctx \in 1 .. Len(contexts[p]) /\ g.table.cols = Columns[m] /\ g.table.id <= serial
    BY <1>1, <1>2 DEF UsesInv, ColumnsInv, HoldersInv
  <1>5. g.table.id \in Nat /\ serial \in Nat
    BY <1>1, <1>3 DEF Object, TypesInv
  <1> QED BY <1>1, <1>2, <1>3, <1>4, <1>5, ContextType

\* A step of a rename that leaves the metadata alone.
LEMMA SameMetadata ==
  ASSUME TypesInv, UNCHANGED cache, NEW p, NEW i, NEW n
  PROVE  /\ Moves(p, i, n) /\ CacheTypes'
         /\ \A q \in Processes :
               /\ Len(contexts'[q]) = Len(contexts[q])
               /\ \A j \in 1 .. Len(contexts[q]) :
                     /\ contexts'[q][j].engine = contexts[q][j].engine
                     /\ contexts'[q][j].disposed = contexts[q][j].disposed
                     /\ \A k \in Names : contexts'[q][j].tables[k] = contexts[q][j].tables[k]
  <1>1. contexts' = contexts
    BY DEF cache
  <1>2. CacheTypes'
    BY TypesParts, PartsKept
  <1> QED BY <1>1, <1>2 DEF Moves

\* Table g.table is taken out of the metadata of its context, left is what remains,
\* and the thread goes on with call rec.
Detaches(t, p, g, known, left, rec) ==
    /\ known = Objects(p, g.ctx) /\ left = Detached(known, g.name, g.table)
    /\ rec = [op[t] EXCEPT !.at = "reset"]

\* The first half of _restore_table_state detaches the Table.
LEMMA RestoreKeeps ==
  ASSUME SchemaInv, NEW t \in Threads, Restore(t)
  PROVE  SchemaInv'
  <1> SUFFICES ASSUME NEW p, NEW m, NEW g, Renames(t, p, m, g),
                      NEW known, NEW left, NEW rec, Detaches(t, p, g, known, left, rec)
               PROVE  SchemaInv'
    BY DEF Renames, Detaches
  <1>1. TypesInv /\ Renaming(t)
    BY DEF SchemaInv, Restore, Renaming
  <1>2. /\ p \in Processes /\ m \in Models /\ Has(p, m) /\ op[t] \in RenameOps
        /\ g.ctx \in 1 .. Len(contexts[p]) /\ g.name \in Names
        /\ g.table \in Object /\ g.table.cols = Columns[m]
        /\ g.table.id \in Nat /\ g.table.id <= serial /\ serial \in Nat /\ known \in [Names -> Object \cup {NoObject}]
    BY <1>1, RenamedManager DEF Detaches
  <1>3. /\ SetObjects(p, g.ctx, left) /\ Goto(t, rec)
        /\ UNCHANGED <<database, objects, ops, faults>>
    BY DEF Restore, Proc, Renames, Detaches
  <1>4. mgr' = mgr /\ serial' = serial /\ claimed' = claimed
    BY <1>3 DEF objects
  <1>5. /\ left \in [Names -> Object \cup {NoObject}]
        /\ \A k \in Names : left[k] = known[k] \/ (left[k] = NoObject /\ known[k] = g.table)
    BY ZenonT(60), <1>2 DEF Detached, Detaches
  <1>6. /\ rec \in RenameOps /\ rec.at = "reset" /\ rec.model = op[t].model
        /\ rec.alone = op[t].alone
    <2>1. {"reset", "rebuild", "assign"} \subseteq Renamings
      BY DEF Renamings
    <2> QED BY <1>2, <2>1, RenameAt DEF Detaches
  <1>7. op' \in [Threads -> Ops] /\ op'[t] = rec /\ \A u \in Threads \ {t} : op'[u] = op[u]
    BY <1>1, <1>3, <1>6, GotoOp, RenameOpsIn
  <1>8. /\ CacheTypes' /\ UNCHANGED <<cached, engines, engine>>
        /\ \A q \in Processes \ {p} : contexts'[q] = contexts[q]
        /\ Len(contexts'[p]) = Len(contexts[p])
        /\ contexts'[p][g.ctx].tables = left
        /\ \A j \in 1 .. Len(contexts[p]) \ {g.ctx} : contexts'[p][j] = contexts[p][j]
        /\ contexts'[p][g.ctx].engine = contexts[p][g.ctx].engine
        /\ contexts'[p][g.ctx].disposed = contexts[p][g.ctx].disposed
    BY <1>1, <1>2, <1>3, <1>5, SetObjectsDoes DEF Objects
  <1>9. \A q \in Processes :
           /\ Len(contexts'[q]) = Len(contexts[q])
           /\ \A j \in 1 .. Len(contexts[q]) :
                 /\ contexts'[q][j].engine = contexts[q][j].engine
                 /\ contexts'[q][j].disposed = contexts[q][j].disposed
    BY <1>8
  <1>10. ASSUME NEW q \in Processes, NEW j \in 1 .. Len(contexts[q]), NEW k \in Names
         PROVE  \/ contexts'[q][j].tables[k] = contexts[q][j].tables[k]
                \/ /\ contexts'[q][j].tables[k] = NoObject
                   /\ q = p /\ contexts[q][j].tables[k] = g.table
    <2>1. CASE q = p /\ j = g.ctx
      <3>1. contexts'[q][j].tables[k] = left[k] /\ contexts[q][j].tables[k] = known[k]
        BY ZenonT(60), <1>8, <2>1 DEF Objects, Detaches
      <3> QED BY <1>5, <2>1, <3>1
    <2>2. CASE ~(q = p /\ j = g.ctx)
      BY <1>8, <2>2
    <2> QED BY <2>1, <2>2
  <1>11. Moves(p, g.ctx, g.name)
    BY <1>10 DEF Moves
  <1>12. Arrives(p, m, t, g.ctx, g.name, g.table, g.table)
    <2>1. Left(p, m, t, g.table)
      BY <1>2, <1>4, OwnTableLeft DEF Renames
    <2>2. Unbound(p, m)' /\ ~Attaching(t)'
      BY <1>6, <1>7 DEF Unbound, Restoring, Attaching, Renames
    <2>3. mgr'[p][m] = g
      BY <1>4 DEF Renames
    <2>4. serial' \in Nat /\ serial <= serial' /\ claimed \subseteq claimed' /\ g.table.id <= serial'
      BY <1>2, <1>4
    <2> HIDE DEF Left, Unbound, Attaching
    <2> QED BY <1>4, <1>7, <1>10, <2>1, <2>2, <2>3, <2>4 DEF Arrives, Renames
  <1>13. Stands(rec, mgr'[p][m]) /\ ~Assigning(t)' /\ mgr'[p][m] # NoManager
    BY <1>2, <1>4, <1>6, <1>7 DEF Stands, Assigning, Has, Renames
  <1>14. ObjectTypes'
    BY <1>1, <1>3, TypesParts, PartsKept
  <1> HIDE DEF Moves, Arrives, Stands
  <1>15. /\ UNCHANGED <<database, ops, faults, cached, engines, engine>>
         /\ op' \in [Threads -> Ops] /\ op'[t] \in RenameOps
         /\ op'[t].model = op[t].model /\ op'[t].alone = op[t].alone
         /\ Stands(op'[t], mgr'[p][m]) /\ Renaming(t) /\ CacheTypes'
         /\ g.table \in Object /\ g.table.cols = Columns[m]
    BY <1>1, <1>2, <1>3, <1>6, <1>7, <1>8, <1>13
  <1>16. ManagerMoves(t, p, m, g, g.name, g.name, g.table)
    BY <1>9, <1>11, <1>12, <1>13, <1>14, <1>15 DEF ManagerMoves
  <1> QED BY <1>16, ManagerStep

\* Manager g gets its old name, and the thread goes on with call rec.
Resets(t, g, n, h, rec) ==
    n = op[t].from /\ h = [g EXCEPT !.name = n] /\ rec = [op[t] EXCEPT !.at = "rebuild"]

\* The name of the manager is set back.
LEMMA ResetKeeps ==
  ASSUME SchemaInv, NEW t \in Threads, Reset(t)
  PROVE  SchemaInv'
  <1> SUFFICES ASSUME NEW p, NEW m, NEW g, Renames(t, p, m, g),
                      NEW n, NEW h, NEW rec, Resets(t, g, n, h, rec)
               PROVE  SchemaInv'
    BY DEF Renames, Resets
  <1>1. TypesInv /\ Renaming(t)
    BY DEF SchemaInv, Reset, Renaming, Restoring
  <1>2. /\ p \in Processes /\ m \in Models /\ Has(p, m) /\ op[t] \in RenameOps
        /\ g \in Manager /\ g.ctx \in 1 .. Len(contexts[p])
        /\ g.table \in Object /\ g.table.cols = Columns[m]
        /\ g.table.id \in Nat /\ g.table.id <= serial /\ serial \in Nat
    BY <1>1, RenamedManager
  <1>3. /\ mgr' = [mgr EXCEPT ![p][m].name = n] /\ Goto(t, rec)
        /\ UNCHANGED <<database, cache, serial, claimed, ops, faults>>
    BY DEF Reset, Proc, Renames, Resets
  <1>4. /\ n \in Names /\ h \in Manager /\ h.ctx = g.ctx /\ h.name = n /\ h.table = g.table
        /\ h # NoManager
    BY <1>2, ObjectNotNone DEF Manager, RenameOps, Resets
  <1>5. /\ mgr' \in [Processes -> [Models -> Manager \cup {NoManager}]] /\ mgr'[p][m] = h
        /\ \A q \in Processes, k \in Models : ~(q = p /\ k = m) => mgr'[q][k] = mgr[q][k]
    <2>1. mgr' = [mgr EXCEPT ![p][m] = h]
      BY <1>3 DEF Renames, Resets
    <2> QED BY <1>1, <1>2, <1>4, <2>1 DEF TypesInv
  <1>6. /\ rec \in RenameOps /\ rec.at = "rebuild" /\ rec.model = op[t].model
        /\ rec.alone = op[t].alone /\ rec.from = op[t].from
    <2>1. {"reset", "rebuild", "assign"} \subseteq Renamings
      BY DEF Renamings
    <2> QED BY <1>2, <2>1, RenameAt DEF Resets
  <1>7. op' \in [Threads -> Ops] /\ op'[t] = rec /\ \A u \in Threads \ {t} : op'[u] = op[u]
    BY <1>1, <1>3, <1>6, GotoOp, RenameOpsIn
  <1>8. /\ Moves(p, g.ctx, n) /\ CacheTypes'
        /\ \A q \in Processes :
              /\ Len(contexts'[q]) = Len(contexts[q])
              /\ \A j \in 1 .. Len(contexts[q]) :
                    /\ contexts'[q][j].engine = contexts[q][j].engine
                    /\ contexts'[q][j].disposed = contexts[q][j].disposed
                    /\ \A k \in Names : contexts'[q][j].tables[k] = contexts[q][j].tables[k]
    BY <1>1, <1>3, SameMetadata
  <1>9. Arrives(p, m, t, g.ctx, n, g.table, g.table)
    <2>1. Left(p, m, t, g.table)
      BY <1>2, <1>3, OwnTableLeft DEF Renames
    <2>2. Unbound(p, m)' /\ ~Attaching(t)'
      BY <1>6, <1>7 DEF Unbound, Restoring, Attaching, Renames
    <2>3. serial' \in Nat /\ serial <= serial' /\ claimed \subseteq claimed' /\ g.table.id <= serial'
      BY <1>2, <1>3
    <2> HIDE DEF Left, Unbound, Attaching
    <2> QED BY <1>4, <1>5, <1>7, <1>8, <2>1, <2>2, <2>3 DEF Arrives, Renames
  <1>10. Stands(rec, mgr'[p][m]) /\ ~Assigning(t)' /\ mgr'[p][m] # NoManager
    BY <1>4, <1>5, <1>6, <1>7 DEF Stands, Assigning, Resets
  <1>11. ObjectTypes' /\ UNCHANGED <<cached, engines, engine>>
    BY <1>1, <1>3, <1>5 DEF ObjectTypes, TypesInv, cache
  <1> HIDE DEF Moves, Arrives, Stands
  <1>12. /\ UNCHANGED <<database, ops, faults, cached, engines, engine>>
         /\ op' \in [Threads -> Ops] /\ op'[t] \in RenameOps
         /\ op'[t].model = op[t].model /\ op'[t].alone = op[t].alone
         /\ Stands(op'[t], mgr'[p][m]) /\ Renaming(t)
         /\ g.table \in Object /\ g.table.cols = Columns[m]
    BY <1>1, <1>2, <1>3, <1>6, <1>7, <1>10, <1>11
  <1>13. \A q \in Processes :
            /\ Len(contexts'[q]) = Len(contexts[q])
            /\ \A j \in 1 .. Len(contexts[q]) :
                  /\ contexts'[q][j].engine = contexts[q][j].engine
                  /\ contexts'[q][j].disposed = contexts[q][j].disposed
    BY <1>8
  <1>14. CacheTypes' /\ ObjectTypes' /\ Moves(p, g.ctx, n)
    BY <1>8, <1>11
  <1>15. ManagerMoves(t, p, m, g, n, n, g.table)
    BY <1>9, <1>10, <1>12, <1>13, <1>14 DEF ManagerMoves
  <1> QED BY <1>15, ManagerStep

\* The metadata where manager g looks for its name n, the Table b it has or gets
\* there, and the call the thread goes on with.
Rebuilds(t, p, m, g, n, known, b, rec) ==
    /\ n = g.name /\ known = Objects(p, g.ctx) /\ b = Built(known, n, m)
    /\ rec = [op[t] EXCEPT !.at = "assign", !.table = b]

\* _build_table for the old name, which may find that of another model there.
LEMMA RebuildKeeps ==
  ASSUME SchemaInv, NEW t \in Threads, Rebuild(t)
  PROVE  SchemaInv'
  <1> SUFFICES ASSUME NEW p, NEW m, NEW g, Renames(t, p, m, g),
                      NEW n, NEW known, NEW b, NEW rec, Rebuilds(t, p, m, g, n, known, b, rec)
               PROVE  SchemaInv'
    BY DEF Renames, Rebuilds
  <1>1. /\ TypesInv /\ SlotsInv /\ AloneInv /\ Renaming(t) /\ op[t].at = "rebuild"
    BY DEF SchemaInv, Rebuild, Renaming, Restoring
  <1>2. /\ p \in Processes /\ m \in Models /\ Has(p, m) /\ op[t] \in RenameOps
        /\ g \in Manager /\ g.ctx \in 1 .. Len(contexts[p]) /\ n \in Names
        /\ g.table \in Object /\ g.table.cols = Columns[m]
        /\ g.table.id \in Nat /\ g.table.id <= serial /\ serial \in Nat
        /\ known \in [Names -> Object \cup {NoObject}]
    BY <1>1, RenamedManager DEF Rebuilds
  <1>3. /\ UNCHANGED <<database, mgr, ops, faults>>
        /\ \/ /\ Compatible(known, n, m) /\ SetObjects(p, g.ctx, [known EXCEPT ![n] = b])
              /\ claimed' = claimed \cup {<<p, known[n].id>>} /\ serial' = serial + 1
              /\ Goto(t, rec)
           \/ /\ claimed' = claimed \cup {<<p, g.table.id>>} /\ Return(t)
              /\ UNCHANGED <<cache, serial>>
    BY DEF Rebuild, Proc, Renames, Rebuilds
  <1>4. claimed \subseteq claimed' /\ serial' \in Nat /\ serial <= serial'
    BY <1>2, <1>3
  <1>5. Left(p, m, t, g.table)
    BY <1>2, <1>4, OwnTableLeft DEF Renames
  <1>6. mgr' = mgr /\ mgr'[p][m] = g /\ mgr'[p][m] # NoManager
    BY <1>2, <1>3 DEF Renames, Has
  <1>7. known[n].id \in Nat /\ b \in Object
    BY <1>2, BuiltType DEF Rebuilds
  <1>8. ObjectTypes'
    BY <1>1, <1>2, <1>3, <1>4, <1>6, <1>7 DEF ObjectTypes, TypesInv
  <1>9. CASE /\ claimed' = claimed \cup {<<p, g.table.id>>} /\ Return(t)
             /\ UNCHANGED <<cache, serial>>
    <2>1. op' \in [Threads -> Ops] /\ op'[t] = Idle /\ \A u \in Threads \ {t} : op'[u] = op[u]
      BY <1>1, <1>9, ReturnOp
    <2>2. ~Renaming(t)' /\ ~Assigning(t)' /\ ~Attaching(t)'
      BY <2>1 DEF Renaming, Restoring, Assigning, Attaching, Idle
    <2>3. /\ Moves(p, g.ctx, n) /\ CacheTypes'
          /\ \A q \in Processes :
                /\ Len(contexts'[q]) = Len(contexts[q])
                /\ \A j \in 1 .. Len(contexts[q]) :
                      /\ contexts'[q][j].engine = contexts[q][j].engine
                      /\ contexts'[q][j].disposed = contexts[q][j].disposed
                      /\ \A k \in Names : contexts'[q][j].tables[k] = contexts[q][j].tables[k]
      BY <1>1, <1>9, SameMetadata
    <2>4. Arrives(p, m, t, g.ctx, n, g.table, g.table)
      <3>1. <<p, g.table.id>> \in claimed' /\ g.table.id <= serial'
        BY <1>2, <1>9
      <3>2. g.name = n /\ Home[t] = p /\ op[t].model = m
        BY DEF Rebuilds, Renames
      <3> HIDE DEF Left, Attaching
      <3> QED BY <1>4, <1>5, <1>6, <2>1, <2>2, <2>3, <3>1, <3>2 DEF Arrives
    <2>5. /\ UNCHANGED <<database, ops, faults, cached, engines, engine>>
          /\ op' \in [Threads -> Ops] /\ op'[t] = Idle /\ mgr'[p][m] # NoManager
          /\ Renaming(t) /\ g.table \in Object /\ g.table.cols = Columns[m]
      BY <1>1, <1>2, <1>3, <1>6, <1>9, <2>1 DEF cache
    <2>6. \A q \in Processes :
             /\ Len(contexts'[q]) = Len(contexts[q])
             /\ \A j \in 1 .. Len(contexts[q]) :
                   /\ contexts'[q][j].engine = contexts[q][j].engine
                   /\ contexts'[q][j].disposed = contexts[q][j].disposed
      BY <2>3
    <2>7. CacheTypes' /\ ObjectTypes' /\ Moves(p, g.ctx, n)
      BY <1>8, <2>3
    <2> HIDE DEF Moves, Arrives, Renaming
    <2>8. ManagerMoves(t, p, m, g, n, n, g.table)
      BY <2>2, <2>4, <2>5, <2>6, <2>7 DEF ManagerMoves
    <2> QED BY <2>8, ManagerStep
  <1>10. CASE /\ Compatible(known, n, m) /\ SetObjects(p, g.ctx, [known EXCEPT ![n] = b])
              /\ claimed' = claimed \cup {<<p, known[n].id>>} /\ serial' = serial + 1
              /\ Goto(t, rec)
    <2> DEFINE next == [known EXCEPT ![n] = b]
    <2>1. /\ next \in [Names -> Object \cup {NoObject}]
          /\ next[n] = b /\ \A k \in Names \ {n} : next[k] = known[k]
      BY ZenonT(60), <1>2, <1>7
    <2>2. SetObjects(p, g.ctx, next)
      BY <1>10
    <2> HIDE DEF next
    <2>3. /\ CacheTypes' /\ UNCHANGED <<cached, engines, engine>>
          /\ \A q \in Processes \ {p} : contexts'[q] = contexts[q]
          /\ Len(contexts'[p]) = Len(contexts[p])
          /\ contexts'[p][g.ctx].tables = next
          /\ \A j \in 1 .. Len(contexts[p]) \ {g.ctx} : contexts'[p][j] = contexts[p][j]
          /\ contexts'[p][g.ctx].engine = contexts[p][g.ctx].engine
          /\ contexts'[p][g.ctx].disposed = contexts[p][g.ctx].disposed
      BY <1>1, <1>2, <2>1, <2>2, SetObjectsDoes DEF Objects
    <2>4. b.cols = Columns[m]
      BY <1>2, <1>10, BuiltType DEF Rebuilds
    <2>5. known = contexts[p][g.ctx].tables
      BY DEF Rebuilds, Objects
    \* The Table is new, or somebody has it already and it is shared from now on.
    <2>6. \/ known[n] = NoObject /\ b.name = n /\ b.id = serial + 1
          \/ /\ known[n] # NoObject /\ b = known[n] /\ b.name = n
             /\ <<p, b.id>> \in claimed' /\ b.id <= serial
      <3>1. b = IF known[n] = NoObject THEN Fresh(n, m) ELSE known[n]
        BY <1>2, BuiltType DEF Rebuilds
      <3>2. CASE known[n] = NoObject
        BY <3>1, <3>2 DEF Fresh
      <3>3. CASE known[n] # NoObject
        <4>1. known[n].id <= serial /\ known[n].name = n
          BY SMTT(60), <1>1, <1>2, <2>5, <3>3 DEF SlotsInv, Objects
        <4>2. b = known[n]
          BY <3>1, <3>3
        <4> QED BY <1>10, <3>3, <4>1, <4>2
      <3> QED BY <3>2, <3>3
    <2>7. b.id \in Nat /\ b.id <= serial' /\ b.name = n
      BY SMTT(60), <1>2, <1>7, <1>10, <2>6 DEF Object
    <2>8. ASSUME NEW q \in Processes, NEW j \in 1 .. Len(contexts[q]), NEW k \in Names
          PROVE  \/ contexts'[q][j].tables[k] = contexts[q][j].tables[k]
                 \/ /\ q = p /\ j = g.ctx /\ k = n /\ contexts[q][j].tables[k] = NoObject
                    /\ contexts'[q][j].tables[k] = b /\ b.name = n /\ b.id = serial + 1
      <3>1. CASE q = p /\ j = g.ctx /\ k = n
        BY <2>1, <2>3, <2>5, <2>6, <3>1
      <3>2. CASE q = p /\ j = g.ctx /\ k # n
        BY <2>1, <2>3, <2>5, <3>2
      <3>3. CASE ~(q = p /\ j = g.ctx)
        BY <2>3, <3>3
      <3> QED BY <3>1, <3>2, <3>3
    <2>9. Moves(p, g.ctx, n)
      BY <1>10, <2>8 DEF Moves
    <2>10. /\ rec \in RenameOps /\ rec.at = "assign" /\ rec.model = op[t].model
           /\ rec.alone = op[t].alone /\ rec.from = op[t].from /\ rec.table = b
      BY <1>2, <1>7 DEF RenameOps, Renamings, Rebuilds
    <2>11. op' \in [Threads -> Ops] /\ op'[t] = rec /\ \A u \in Threads \ {t} : op'[u] = op[u]
      BY <1>1, <1>10, <2>10, GotoOp, RenameOpsIn
    <2>12. Home[t] = p /\ op[t].model = m /\ g.name = n
      BY DEF Renames, Rebuilds
    <2>13. Arrives(p, m, t, g.ctx, n, g.table, g.table)
      <3>1. Unbound(p, m)' /\ ~Attaching(t)'
        BY <2>10, <2>11, <2>12 DEF Unbound, Restoring, Attaching
      <3>2. g.table.id <= serial'
        BY <1>2, <1>10
      <3> HIDE DEF Left, Attaching, Unbound
      <3> QED BY <1>4, <1>5, <1>6, <2>8, <2>11, <2>12, <3>1, <3>2 DEF Arrives
    <2>14. Left(p, m, t, b)
      <3>1. CASE <<p, b.id>> \in claimed'
        BY <3>1 DEF Left
      <3>2. CASE b.id = serial + 1
        BY <1>2, <3>2, NewTableLeft
      <3> QED BY <2>6, <3>1, <3>2
    <2>15. <<p, b.id>> \in claimed' \/ mgr[p][m].table.id # b.id
      BY SMTT(60), <1>2, <1>6, <2>6
    <2>16. Assigned(t)'
      <3>1. \A l \in Models : mgr'[p][l] # NoManager /\ mgr'[p][l].table.id = b.id
               => <<p, b.id>> \in claimed'
        BY <1>6, <2>14, <2>15 DEF Left, Has
      <3>2. ASSUME NEW u \in Threads, Holding(u)', Home[u] = p, op'[u].table.id = b.id, u # t
            PROVE  <<p, b.id>> \in claimed'
        <4>1. op'[u] = op[u] /\ Holding(u)
          BY <2>11, <3>2 DEF Holding, Attaching, Assigning
        <4> HIDE DEF Holding
        <4> QED BY <2>14, <3>2, <4>1 DEF Left
      <3>3. contexts'[p][g.ctx].tables[n] = b
        BY <2>1, <2>3
      <3> HIDE DEF Holding
      <3> QED BY <1>6, <2>7, <2>10, <2>11, <2>12, <3>1, <3>2, <3>3
              DEF Assigned, Shared, Objects, Has
    <2>17. op[t].alone => Stands(op'[t], mgr'[p][m])
      <3>1. op[t].alone => n = op[t].from
        BY <1>1, <2>12 DEF AloneInv, Stands, Renames
      <3> QED BY <1>6, <2>7, <2>10, <2>11, <2>12, <3>1 DEF Stands
    <2>18. /\ UNCHANGED <<database, ops, faults, cached, engines, engine>>
           /\ op' \in [Threads -> Ops] /\ op'[t] \in RenameOps
           /\ op'[t].model = op[t].model /\ op'[t].alone = op[t].alone
           /\ op'[t].table \in Object /\ op'[t].table.cols = Columns[m]
           /\ Renaming(t) /\ g.table \in Object /\ g.table.cols = Columns[m]
      BY <1>1, <1>2, <1>3, <1>7, <2>3, <2>4, <2>10, <2>11
    <2>19. \A q \in Processes :
              /\ Len(contexts'[q]) = Len(contexts[q])
              /\ \A j \in 1 .. Len(contexts[q]) :
                    /\ contexts'[q][j].engine = contexts[q][j].engine
                    /\ contexts'[q][j].disposed = contexts[q][j].disposed
      BY <2>3
    <2>20. CacheTypes' /\ ObjectTypes' /\ mgr'[p][m] # NoManager
      BY <1>6, <1>8, <2>3
    <2> HIDE DEF Moves, Arrives, Stands, Assigned
    <2>21. ManagerMoves(t, p, m, g, n, n, g.table)
      BY <2>9, <2>13, <2>16, <2>17, <2>18, <2>19, <2>20 DEF ManagerMoves
    <2> QED BY <2>21, ManagerStep
  <1> QED BY <1>3, <1>9, <1>10

\* Manager g gets Table b.
Assigns(t, g, b, h) == b = op[t].table /\ h = [g EXCEPT !.table = b]

\* The manager takes the Table.
LEMMA AssignKeeps ==
  ASSUME SchemaInv, NEW t \in Threads, Assign(t)
  PROVE  SchemaInv'
  <1> SUFFICES ASSUME NEW p, NEW m, NEW g, Renames(t, p, m, g),
                      NEW b, NEW h, Assigns(t, g, b, h)
               PROVE  SchemaInv'
    BY DEF Renames, Assigns
  <1>1. /\ TypesInv /\ ColumnsInv /\ AssignedInv /\ AloneInv
        /\ Renaming(t) /\ Assigning(t) /\ Holding(t)
    BY DEF SchemaInv, Assign, Renaming, Restoring, Assigning, Holding
  <1>2. /\ p \in Processes /\ m \in Models /\ Has(p, m) /\ op[t] \in RenameOps
        /\ g \in Manager /\ g.ctx \in 1 .. Len(contexts[p]) /\ serial \in Nat
    BY <1>1, RenamedManager
  <1>3. /\ mgr' = [mgr EXCEPT ![p][m].table = b] /\ Return(t)
        /\ claimed' = claimed \cup IF op[t].alone THEN {} ELSE {<<p, b.id>>}
        /\ UNCHANGED <<database, cache, serial, ops, faults>>
    BY DEF Assign, Proc, Renames, Assigns
  <1>4. /\ b \in Object /\ b.cols = Columns[m] /\ b.id \in Nat
    <2>1. b \in Object /\ b.cols = Columns[m]
      <3> HIDE DEF Holding
      <3> QED BY <1>1 DEF ColumnsInv, Renames, Assigns
    <2> QED BY <2>1 DEF Object
  <1>5. /\ b.id <= serial
        /\ op[t].alone /\ <<p, b.id>> \notin claimed =>
              contexts[p][g.ctx].tables[g.name] = b
        /\ \A k \in Models : Has(p, k) /\ mgr[p][k].table.id = b.id => <<p, b.id>> \in claimed
        /\ \A u \in Threads : Holding(u) /\ Home[u] = p /\ op[u].table.id = b.id /\ u # t
              => <<p, b.id>> \in claimed
    <2>1. Assigned(t)
      BY <1>1 DEF AssignedInv
    <2> HIDE DEF Holding
    <2> QED BY <2>1 DEF Assigned, Shared, Objects, Renames, Assigns
  <1>6. h \in Manager /\ h.ctx = g.ctx /\ h.name = g.name /\ h.table = b /\ h # NoManager
    BY <1>2, <1>4, ObjectNotNone DEF Manager, Assigns
  <1>7. /\ mgr' \in [Processes -> [Models -> Manager \cup {NoManager}]] /\ mgr'[p][m] = h
        /\ \A q \in Processes, k \in Models : ~(q = p /\ k = m) => mgr'[q][k] = mgr[q][k]
    <2>1. mgr' = [mgr EXCEPT ![p][m] = h]
      BY <1>3 DEF Renames, Assigns
    <2> QED BY <1>1, <1>2, <1>6, <2>1 DEF TypesInv
  <1>8. op' \in [Threads -> Ops] /\ op'[t] = Idle /\ \A u \in Threads \ {t} : op'[u] = op[u]
    BY <1>1, <1>3, ReturnOp
  <1>9. /\ Moves(p, g.ctx, g.name) /\ CacheTypes' /\ contexts' = contexts
        /\ \A q \in Processes :
              /\ Len(contexts'[q]) = Len(contexts[q])
              /\ \A j \in 1 .. Len(contexts[q]) :
                    /\ contexts'[q][j].engine = contexts[q][j].engine
                    /\ contexts'[q][j].disposed = contexts[q][j].disposed
                    /\ \A k \in Names : contexts'[q][j].tables[k] = contexts[q][j].tables[k]
    BY <1>1, <1>3, SameMetadata DEF cache
  <1>10. Arrives(p, m, t, g.ctx, g.name, b, g.table)
    <2>1. claimed \subseteq claimed'
      BY <1>3
    <2>2. Left(p, m, t, g.table)
      BY <1>2, <2>1, OwnTableLeft DEF Renames
    <2>3. Left(p, m, t, b)
      <3> HIDE DEF Holding
      <3> QED BY <1>5, <2>1 DEF Left
    <2>4. <<p, b.id>> \in claimed' \/ contexts'[p][g.ctx].tables[g.name] = b
      BY <1>3, <1>5, <1>9
    <2>5. ~Attaching(t)'
      BY <1>8 DEF Attaching, Idle
    <2>6. serial' \in Nat /\ serial <= serial' /\ b.id <= serial'
      BY <1>2, <1>3, <1>5
    <2> HIDE DEF Left, Unbound, Attaching
    <2> QED BY <1>6, <1>7, <1>8, <1>9, <2>1, <2>2, <2>3, <2>4, <2>5, <2>6 DEF Arrives, Renames
  <1>11. ~Renaming(t)' /\ ~Assigning(t)'
    BY <1>8 DEF Renaming, Restoring, Assigning, Idle
  <1>12. ObjectTypes' /\ UNCHANGED <<cached, engines, engine>>
    BY <1>1, <1>2, <1>3, <1>4, <1>7 DEF ObjectTypes, TypesInv, cache
  <1> HIDE DEF Moves, Arrives, Renaming
  <1>13. /\ UNCHANGED <<database, ops, faults, cached, engines, engine>>
         /\ op' \in [Threads -> Ops] /\ op'[t] = Idle /\ mgr'[p][m] # NoManager
         /\ Renaming(t) /\ b \in Object /\ b.cols = Columns[m]
    BY <1>1, <1>3, <1>4, <1>6, <1>7, <1>8, <1>12
  <1>14. \A q \in Processes :
            /\ Len(contexts'[q]) = Len(contexts[q])
            /\ \A j \in 1 .. Len(contexts[q]) :
                  /\ contexts'[q][j].engine = contexts[q][j].engine
                  /\ contexts'[q][j].disposed = contexts[q][j].disposed
    BY <1>9
  <1>15. CacheTypes' /\ ObjectTypes' /\ Moves(p, g.ctx, g.name)
    BY <1>9, <1>12
  <1>16. ManagerMoves(t, p, m, g, g.name, g.name, b)
    BY <1>10, <1>11, <1>13, <1>14, <1>15 DEF ManagerMoves
  <1> QED BY <1>16, ManagerStep

LEMMA BuildKeeps ==
  ASSUME SchemaInv, NEW t \in Threads, Build(t)
  PROVE  SchemaInv'
  <1>1. /\ TypesInv /\ CacheInv /\ UsesInv /\ LedgerInv /\ AloneInv /\ ColumnsInv
        /\ SlotsInv /\ HoldersInv /\ AssignedInv
    BY SMTT(60) DEF SchemaInv
  <1> SUFFICES ASSUME NEW p, NEW m, NEW i, NEW n, NEW known, NEW b,
                      BuildTakes(t, p, m, i, n, known, b)
               PROVE  SchemaInv'
    BY SMTT(60) DEF BuildTakes
  <1> DEFINE check == [at |-> "check", model |-> m, ctx |-> i, attach |-> TRUE, table |-> b]
             g == [ctx |-> i, name |-> n, table |-> b]
  <1>2. /\ p = Home[t] /\ m = op[t].model /\ i = op[t].ctx /\ n = TableName[m]
        /\ p \in Processes /\ m \in Models /\ n \in Names /\ i \in 1 .. Len(contexts[p])
        /\ op[t].at = "build" /\ ~Has(p, m)
        /\ UNCHANGED <<database, ops, faults>>
        /\ \/ Return(t) /\ UNCHANGED <<cache, objects>>
           \/ /\ Compatible(known, n, m) /\ b \in Object /\ b.cols = Columns[m]
              /\ SetObjects(p, i, [known EXCEPT ![n] = b])
              /\ serial' = serial + 1 /\ claimed' = claimed \cup {<<p, known[n].id>>}
              /\ \/ Goto(t, check) /\ UNCHANGED mgr
                 \/ mgr' = [mgr EXCEPT ![p][m] = g] /\ Return(t)
    <2>1. BuildEffect(t, p, m, i, n, known, b)
      BY <1>1, BuildDoes
    <2>2. BuildTakes(t, p, m, i, n, known, b)
      BY SMTT(60)
    <2> QED BY <2>1, <2>2 DEF BuildEffect, BuildTakes
  <1>3. /\ known \in [Names -> Object \cup {NoObject}] /\ known = contexts[p][i].tables
        /\ b = IF known[n] = NoObject THEN Fresh(n, m) ELSE known[n]
        /\ serial \in Nat
    <2>1. known = Objects(p, i) /\ b = Built(known, n, m)
      BY DEF BuildTakes
    <2>2. serial \in Nat
      BY <1>1 DEF TypesInv
    <2> QED BY ZenonT(60), <1>1, <1>2, <2>1, <2>2, ContextType DEF Objects, Built
  <1>4. CASE Return(t) /\ UNCHANGED <<cache, objects>>
    <2>1. op' \in [Threads -> Ops] /\ op'[t] = Idle /\ \A u \in Threads \ {t} : op'[u] = op[u]
      BY <1>1, <1>4, ReturnOp
    <2>2. TypesInv'
      BY <1>1, <1>2, <1>4, <2>1, TypesParts, TypesPartsNext, PartsKept, CountersStep
    <2>3. Plain(t)
      BY <1>2, <2>1 DEF Plain, Using, Bringing, Attaching, Assigning, Holding, Restoring, Idle,
                        Renamings
    <2>4. ~Adds(t) /\ ~Adds(t)' /\ op'[t].at \notin Renamings
      BY <1>2, <2>1 DEF Adds, Idle, Renamings
    <2>5. UNCHANGED <<mgr, claimed, serial, live, ledger, applied, excused>>
      BY <1>2, <1>4 DEF objects, database
    <2>6. AloneInv'
      BY <1>1, <2>1, <2>4, <2>5, NoRename
    <2>7. LedgerInv'
      BY SMTT(60), <1>1, <2>1, <2>4, <2>5, LiveKept, LedgerKept DEF Accounts, TypesInv
    <2> QED BY SMTT(60), <1>1, <1>4, <2>1, <2>2, <2>3, <2>5, <2>6, <2>7, PlainSchemaStep DEF TypesInv
  <1>5. CASE /\ Compatible(known, n, m) /\ b \in Object /\ b.cols = Columns[m]
             /\ SetObjects(p, i, [known EXCEPT ![n] = b])
             /\ serial' = serial + 1 /\ claimed' = claimed \cup {<<p, known[n].id>>}
             /\ \/ Goto(t, check) /\ UNCHANGED mgr
                \/ mgr' = [mgr EXCEPT ![p][m] = g] /\ Return(t)
    <2> DEFINE next == [known EXCEPT ![n] = b]
    <2>1. /\ next \in [Names -> Object \cup {NoObject}]
          /\ next[n] = b /\ \A k \in Names \ {n} : next[k] = known[k]
      BY ZenonT(60), <1>2, <1>3, <1>5
    <2> HIDE DEF next
    <2>2. SetObjects(p, i, next)
      BY <1>5 DEF next
    <2>3. /\ CacheTypes' /\ UNCHANGED <<cached, engines, engine>>
          /\ \A q \in Processes \ {p} : contexts'[q] = contexts[q]
          /\ Len(contexts'[p]) = Len(contexts[p])
          /\ contexts'[p][i].tables = next
          /\ \A j \in 1 .. Len(contexts[p]) \ {i} : contexts'[p][j] = contexts[p][j]
          /\ contexts'[p][i].engine = contexts[p][i].engine
          /\ contexts'[p][i].disposed = contexts[p][i].disposed
      BY <1>1, <1>2, <2>1, <2>2, SetObjectsDoes DEF Objects
    <2>4. /\ check \in Ops /\ check.at = "check" /\ check.model = m /\ check.ctx = i
          /\ check.attach = TRUE /\ check.table = b
      <3>1. i \in Nat
        BY <1>2
      <3> QED BY <1>2, <1>5, <3>1 DEF Ops
    <2>5. g \in Manager /\ g.ctx = i /\ g.name = n /\ g.table = b /\ g # NoManager
      <3>1. i \in Nat \ {0}
        BY <1>2
      <3> QED BY <1>2, <1>5, <3>1, ObjectNotNone DEF Manager
    <2> HIDE DEF check, g
    <2>6. \/ Goto(t, check) /\ UNCHANGED mgr
          \/ mgr' = [mgr EXCEPT ![p][m] = g] /\ Return(t)
      BY <1>5
    <2>7. /\ op' \in [Threads -> Ops] /\ \A u \in Threads \ {t} : op'[u] = op[u]
          /\ op'[t] = check \/ op'[t] = Idle
      BY <1>1, <2>4, <2>6, GotoOp, ReturnOp
    <2>8. /\ mgr' \in [Processes -> [Models -> Manager \cup {NoManager}]]
          /\ \A q \in Processes, k \in Models : ~(q = p /\ k = m) => mgr'[q][k] = mgr[q][k]
          /\ \/ op'[t] = check /\ mgr'[p][m] = NoManager
             \/ op'[t] = Idle /\ mgr'[p][m] = g
      <3>1. CASE Goto(t, check) /\ UNCHANGED mgr
        BY <1>1, <1>2, <2>4, <3>1, GotoOp DEF TypesInv, Has
      <3>2. CASE mgr' = [mgr EXCEPT ![p][m] = g] /\ Return(t)
        BY <1>1, <1>2, <2>5, <3>2, ReturnOp DEF TypesInv
      <3> QED BY <2>6, <3>1, <3>2
    \* The Table is new, or somebody has it already and it is shared from now on.
    <2>9. \/ /\ known[n] = NoObject /\ b.name = n /\ b.id = serial + 1
          \/ /\ known[n] # NoObject /\ b = known[n] /\ <<p, b.id>> \in claimed' /\ b.id <= serial
      <3>1. CASE known[n] = NoObject
        BY <1>3, <3>1 DEF Fresh
      <3>2. CASE known[n] # NoObject
        <4>1. b = known[n] /\ known[n].id <= serial
          BY ZenonT(60), <1>1, <1>2, <1>3, <3>2 DEF SlotsInv, Objects
        <4> QED BY <1>5, <3>2, <4>1
      <3> QED BY <3>1, <3>2
    <2>10. serial' \in Nat /\ serial <= serial' /\ claimed \subseteq claimed' /\ b.id <= serial'
      <3>1. b.id \in Nat
        BY <1>5 DEF Object
      <3> QED BY <1>3, <1>5, <2>9, <3>1
    <2>11. \A q \in Processes : Len(contexts'[q]) = Len(contexts[q])
      BY <2>3
    <2>12. ASSUME NEW q \in Processes, NEW j \in 1 .. Len(contexts[q]), NEW k \in Names
           PROVE  \/ contexts'[q][j].tables[k] = contexts[q][j].tables[k]
                  \/ /\ q = p /\ j = i /\ k = n /\ contexts[q][j].tables[k] = NoObject
                     /\ contexts'[q][j].tables[k] = b /\ b.name = n /\ b.id = serial + 1
      <3>1. CASE q = p /\ j = i /\ k = n
        BY <1>3, <2>1, <2>3, <2>9, <3>1
      <3>2. CASE q = p /\ j = i /\ k # n
        BY <1>3, <2>1, <2>3, <3>2
      <3>3. CASE ~(q = p /\ j = i)
        BY <2>3, <3>3
      <3> QED BY <3>1, <3>2, <3>3
    <2>13. /\ ~Using(t)' /\ ~Adds(t) /\ ~Adds(t)' /\ op'[t].at \notin Renamings \cup {"close"}
           /\ Bringing(t)' => op'[t] = check
           /\ Attaching(t)' => op'[t] = check
           /\ Holding(t)' => op'[t] = check
           /\ Bringing(t) /\ ~Restoring(t) /\ ~Assigning(t)'
           /\ op'[t].at \in {"check", "create"} => op'[t] = check
      BY <1>2, <2>4, <2>7 DEF Using, Bringing, Attaching, Assigning, Holding, Restoring, Adds,
                              Renamings, Idle
    <2>14. TypesInv'
      <3>1. ObjectTypes'
        <4>1. known[n].id \in Nat
          BY ZenonT(60), <1>2, <1>3, BuiltType
        <4> QED BY SMTT(60), <1>1, <1>2, <1>5, <2>8, <2>10, <4>1 DEF ObjectTypes, TypesInv
      <3> QED BY <1>1, <1>2, <2>3, <2>7, <3>1, TypesParts, TypesPartsNext, PartsKept, CountersStep
    <2>15. CacheInv'
      <3>1. \A q \in Processes : \A j \in 1 .. Len(contexts[q]) :
               /\ contexts'[q][j].engine = contexts[q][j].engine
               /\ contexts'[q][j].disposed = contexts[q][j].disposed
        BY <2>3
      <3> QED BY <1>1, <2>3, <2>7, <2>11, <2>13, <3>1, CacheSame
    <2>16. SlotsInv'
      <3>1. Moves(p, i, n)
        BY <1>5, <2>12 DEF Moves
      <3> QED BY <1>1, <2>10, <2>11, <3>1, SlotsMove
    <2>17. UsesInv' /\ ColumnsInv'
      <3>1. mgr'[p][m] # NoManager =>
               /\ mgr'[p][m].ctx \in 1 .. Len(contexts[p])
               /\ mgr'[p][m].table.cols = Columns[m]
               /\ op'[t] = Idle
        BY <1>2, <1>5, <2>5, <2>8
      <3>2. \A u \in Threads \ {t} : Bringing(u) /\ Home[u] = p => op[u].model # m
        <4> HIDE DEF Bringing
        <4> QED BY <1>1, <1>2, <2>13 DEF UsesInv
      <3>3. op'[t] = Idle => ~Bringing(t)'
        BY DEF Bringing, Attaching, Idle
      <3>4. op'[t] = check =>
               /\ op'[t].model = m /\ op'[t].ctx = op[t].ctx /\ op'[t].table.cols = Columns[m]
               /\ op'[t].ctx \in 0 .. Len(contexts[p])
        BY <1>2, <1>5, <2>4
      <3>5. Has(p, m) => mgr'[p][m] # NoManager
        BY <1>2
      <3>6. mgr'[p][m] # NoManager =>
               /\ mgr'[p][m].ctx \in 1 .. Len(contexts[p])
               /\ mgr'[p][m].table.cols = Columns[m]
               /\ \A u \in Threads \ {t} : Bringing(u) /\ Home[u] = p => op[u].model # m
               /\ ~Bringing(t)'
        <4> HIDE DEF Bringing
        <4> QED BY <3>1, <3>2, <3>3
      <3> HIDE DEF Using, Bringing, Attaching, Holding
      <3>7. Using(t)' => op'[t].model = m /\ Has(p, m)
        BY <2>13
      <3>8. Bringing(t)' => /\ Bringing(t) /\ op'[t].model = m /\ op[t].model = m
                            /\ op'[t].ctx = op[t].ctx
        BY <1>2, <2>13, <3>4
      <3>9. Holding(t)' => op'[t].table \in Object /\ op'[t].model = m
                           /\ op'[t].table.cols = Columns[m]
        BY <1>5, <2>4, <2>13, <3>4
      <3>10. op'[t].at \in {"check", "create"} => op'[t].ctx \in 0 .. Len(contexts[p])
        BY <2>13, <3>4
      <3>11. /\ Home[t] = p /\ p \in Processes /\ m \in Models
             /\ \A q \in Processes, k \in Models : ~(q = p /\ k = m) => mgr'[q][k] = mgr[q][k]
             /\ \A u \in Threads \ {t} : op'[u] = op[u]
        BY <1>2, <2>7, <2>8
      <3> QED BY <1>1, <2>11, <3>5, <3>6, <3>7, <3>8, <3>9, <3>10, <3>11, UserArrives
    <2>18. HoldersInv' /\ AssignedInv'
      <3>1. Left(p, m, t, b)
        <4>1. CASE <<p, b.id>> \in claimed'
          BY <4>1 DEF Left
        <4>2. CASE b.id = serial + 1
          BY <1>2, <4>2, NewTableLeft
        <4> QED BY <2>9, <4>1, <4>2
      <3>2. \A q \in Processes : \A j \in 1 .. Len(contexts[q]) : \A k \in Names :
               \/ contexts[q][j].tables[k] = NoObject
               \/ contexts'[q][j].tables[k] = contexts[q][j].tables[k]
        BY <2>12
      <3>3. contexts'[p][i].tables[n] = b
        BY <2>1, <2>3
      <3>4. ~(mgr'[p][m] # NoManager /\ Attaching(t)')
        BY <2>8 DEF Attaching, Idle
      <3>5. mgr'[p][m] # NoManager =>
               mgr'[p][m].ctx = i /\ mgr'[p][m].name = n /\ mgr'[p][m].table = b
        BY <2>5, <2>8
      <3>6. Attaching(t)' => op'[t].ctx = i /\ TableName[op'[t].model] = n /\ op'[t].table = b
        BY <1>2, <2>4, <2>13
      <3>7. Arrives(p, m, t, i, n, b, b)
        <4> HIDE DEF Left, Attaching
        <4>1. \A q \in Processes : \A j \in 1 .. Len(contexts[q]) : \A k \in Names :
                 \/ contexts[q][j].tables[k] = NoObject
                 \/ contexts'[q][j].tables[k] = contexts[q][j].tables[k]
                 \/ q = p /\ contexts[q][j].tables[k] = b
          BY <3>2, Zenon
        <4>2. Home[t] = p
          BY <1>2
        <4>3. /\ \A q \in Processes, k \in Models : ~(q = p /\ k = m) => mgr'[q][k] = mgr[q][k]
              /\ \A u \in Threads \ {t} : op'[u] = op[u]
          BY <2>7, <2>8, Zenon
        <4>4. <<p, b.id>> \notin claimed' => contexts'[p][i].tables[n] = b
          BY <3>3
        <4>5. Restoring(t) => op[t].model = m
          BY <2>13
        <4> QED BY <2>10, <3>1, <3>4, <3>5, <3>6, <4>1, <4>2, <4>3, <4>4, <4>5, Zenon DEF Arrives
      <3>8. ASSUME NEW u \in Threads \ {t}, Assigning(u), Home[u] = p, op[u].model = m
            PROVE  ~op[u].alone
        <4>1. Using(u)
          BY <3>8 DEF Using, Assigning, Renamings
        <4>2. Has(p, m)
          BY <1>1, <3>8, <4>1 DEF UsesInv
        <4> QED BY <1>2, <4>2
      <3> HIDE DEF Arrives
      <3>9. HoldersInv'
        BY <1>1, <1>2, <1>5, <3>7, HolderArrives
      <3>10. AssignedInv'
        BY <1>1, <1>2, <1>5, <2>13, <3>7, <3>8, AssignedArrives
      <3> QED BY <3>9, <3>10
    <2>19. AloneInv'
      BY <1>1, <1>2, <2>7, <2>8, <2>13, AloneArrives
    <2>20. LedgerInv'
      <3>1. UNCHANGED <<live, ledger, applied, excused>>
        BY <1>2 DEF database
      <3> QED BY <1>1, <2>7, <2>10, <2>13, <3>1, LiveKept, LedgerKept DEF Accounts
    <2> QED BY SMTT(60), <2>14, <2>15, <2>16, <2>17, <2>18, <2>19, <2>20 DEF SchemaInv
  <1> QED BY <1>2, <1>4, <1>5


-----------------------------------------------------------------------------
(* The initial states, and every step.                                     *)

LEMMA InitInv == Init => SchemaInv
  <1> SUFFICES ASSUME Init PROVE SchemaInv
    OBVIOUS
  <1> DEFINE name == TableName[Imported]
             table == [name |-> name, cols |-> Columns[Imported], id |-> OldIds + 1]
             imported == [ctx |-> 1, name |-> name, table |-> table]
             slots == [NoObjects EXCEPT ![name] = table]
             context == [engine |-> 1, disposed |-> FALSE, tables |-> slots]
  <1>1. /\ live = Old /\ ledger = {} /\ applied = {} /\ excused = {}
        /\ contexts = [p \in Processes |-> <<context>>]
        /\ cached = [p \in Processes |-> 1]
        /\ engines = [p \in Processes |-> <<FALSE>>] /\ engine = [p \in Processes |-> 1]
        /\ mgr = [p \in Processes |->
                     [m \in Models |-> IF m = Imported THEN imported ELSE NoManager]]
        /\ op = [t \in Threads |-> Idle]
        /\ claimed = {} /\ serial = OldIds + 1 /\ ops = 0 /\ faults = 0
    BY DEF Init
  <1>2. Imported \in Models /\ name \in Names /\ OldIds \in Nat
    BY SchemaAssumption
  <1>3. table \in Object /\ table.name = name /\ table.cols = Columns[Imported]
        /\ table.id = OldIds + 1 /\ table # NoObject
    BY <1>2, ColumnsType, ObjectNotNone DEF Object
  <1> HIDE DEF table
  <1>4. /\ slots \in [Names -> Object \cup {NoObject}] /\ slots[name] = table
        /\ \A n \in Names \ {name} : slots[n] = NoObject
    BY <1>2, <1>3, NoObjectsType DEF NoObjects
  <1> HIDE DEF slots
  <1>5. /\ context \in Context /\ context.engine = 1 /\ context.disposed = FALSE
        /\ context.tables = slots
    BY <1>4 DEF Context
  <1>6. /\ imported \in Manager /\ imported.ctx = 1 /\ imported.name = name
        /\ imported.table = table /\ imported # NoManager
    BY <1>2, <1>3, ObjectNotNone DEF Manager
  <1> HIDE DEF context, imported, name
  <1>7. ASSUME NEW p \in Processes
        PROVE  /\ Len(contexts[p]) = 1 /\ contexts[p][1] = context
               /\ Len(engines[p]) = 1 /\ engines[p][1] = FALSE
               /\ cached[p] = 1 /\ engine[p] = 1
               /\ \A m \in Models : Has(p, m) => m = Imported /\ mgr[p][m] = imported
    BY <1>1, <1>6 DEF Has
  <1>8. \A t \in Threads : op[t].at = "idle"
    BY <1>1 DEF Idle
  <1>9. TypesInv
    <2>1. <<context>> \in Seq(Context) /\ <<FALSE>> \in Seq(BOOLEAN)
      BY <1>5
    <2>2. live \in [Names -> [id : Nat, cols : SUBSET AllColumns]]
      <3>1. NoTable \in [id : Nat, cols : SUBSET AllColumns]
        BY DEF NoTable
      <3>2. 1 .. OldIds \subseteq Nat
        BY <1>2
      <3>3. [id : 1 .. OldIds, cols : SUBSET AllColumns] \cup {NoTable}
               \subseteq [id : Nat, cols : SUBSET AllColumns]
        BY <3>1, <3>2
      <3> QED BY <1>1, <3>3, SchemaAssumption
    <2>3. contexts \in [Processes -> Seq(Context)] /\ cached \in [Processes -> Nat]
      BY <1>1, <2>1
    <2>4. engines \in [Processes -> Seq(BOOLEAN)] /\ engine \in [Processes -> Nat]
      BY <1>1, <2>1
    <2>5. mgr \in [Processes -> [Models -> Manager \cup {NoManager}]]
      BY <1>1, <1>6
    <2>6. op \in [Threads -> Ops]
      BY <1>1 DEF Ops
    <2>7. ops \in 0 .. MaxOps /\ faults \in 0 .. MaxFaults /\ serial \in Nat
      BY <1>1, <1>2, SchemaAssumption
    <2> QED BY <1>1, <2>2, <2>3, <2>4, <2>5, <2>6, <2>7 DEF TypesInv
  <1>10. CacheInv
    <2> SUFFICES ASSUME NEW p \in Processes PROVE CacheAt(p)
      BY DEF CacheInv
    <2>1. /\ Len(contexts[p]) = 1 /\ contexts[p][1] = context
          /\ Len(engines[p]) = 1 /\ engines[p][1] = FALSE /\ cached[p] = 1 /\ engine[p] = 1
      BY <1>7
    <2>2. \A i \in 1 .. Len(contexts[p]) :
             /\ contexts[p][i].engine \in 1 .. Len(engines[p])
             /\ contexts[p][i].disposed <=> i # cached[p]
             /\ i = cached[p] => contexts[p][i].engine = engine[p]
      <3> SUFFICES ASSUME NEW i \in 1 .. Len(contexts[p])
                   PROVE  /\ contexts[p][i].engine \in 1 .. Len(engines[p])
                          /\ contexts[p][i].disposed <=> i # cached[p]
                          /\ i = cached[p] => contexts[p][i].engine = engine[p]
        OBVIOUS
      <3>1. i = 1
        BY <2>1
      <3> QED BY <1>5, <2>1, <3>1
    <2>3. cached[p] \in 0 .. Len(contexts[p]) /\ engine[p] \in 0 .. Len(engines[p])
      BY <2>1
    <2>4. ~engines[p][engine[p]]
      BY <2>1, Zenon
    <2> QED BY <1>8, <2>2, <2>3, <2>4 DEF CacheAt
  <1>11. UsesInv /\ ColumnsInv
    <2>1. \A t \in Threads : ~Using(t) /\ ~Bringing(t) /\ ~Holding(t)
      BY <1>8 DEF Using, Bringing, Attaching, Assigning, Holding, Renamings
    <2>2. ASSUME NEW p \in Processes, NEW m \in Models, Has(p, m)
          PROVE  mgr[p][m].ctx \in 1 .. Len(contexts[p]) /\ mgr[p][m].table.cols = Columns[m]
      <3>1. m = Imported /\ mgr[p][m] = imported /\ Len(contexts[p]) = 1
        BY <1>7, <2>2
      <3> QED BY <1>3, <1>6, <3>1
    <2> HIDE DEF Using, Bringing, Holding, Has
    <2> QED BY <1>8, <2>1, <2>2 DEF UsesInv, ColumnsInv
  <1>12. SlotsInv
    <2> SUFFICES ASSUME NEW p \in Processes, NEW i \in 1 .. Len(contexts[p]),
                        NEW j \in 1 .. Len(contexts[p]), NEW n \in Names, NEW k \in Names,
                        Objects(p, i)[n] # NoObject
                 PROVE  /\ Objects(p, i)[n].name = n /\ Objects(p, i)[n].id <= serial
                        /\ Objects(p, i)[n].id = Objects(p, j)[k].id => i = j /\ n = k
      BY DEF SlotsInv
    <2>1. i = 1 /\ j = 1 /\ Objects(p, i) = slots /\ Objects(p, j) = slots
      <3>1. Len(contexts[p]) = 1 /\ contexts[p][1] = context
        BY <1>7
      <3>2. i = 1 /\ j = 1
        BY <3>1
      <3> QED BY <1>5, <3>1, <3>2 DEF Objects
    <2>2. n = name /\ slots[n] = table
      BY <1>4, <2>1
    <2>3. k # name => slots[k].id = 0
      <3>1. NoObject.id = 0
        BY ZenonT(60) DEF NoObject
      <3> QED BY <1>4, <3>1
    <2> QED BY <1>1, <1>2, <1>3, <1>4, <2>1, <2>2, <2>3
  <1>13. HoldersInv
    <2>1. \A t \in Threads : ~Attaching(t)
      BY <1>8 DEF Attaching
    <2>2. ASSUME NEW p \in Processes, NEW m \in Models, Has(p, m)
          PROVE  /\ mgr[p][m].table.id <= serial
                 /\ Objects(p, mgr[p][m].ctx)[mgr[p][m].name] = mgr[p][m].table
                 /\ \A k \in Models : Has(p, k) => k = m
      BY <1>1, <1>2, <1>3, <1>4, <1>5, <1>6, <1>7, <2>2 DEF Objects
    <2> HIDE DEF Attaching, Has
    <2> QED BY <2>1, <2>2 DEF HoldersInv
  <1>14. AloneInv /\ AssignedInv
    BY <1>8 DEF AloneInv, AssignedInv, Assigning, Renaming, Restoring
  <1>15. LedgerInv
    <2>1. \A t \in Threads : ~Adds(t)
      BY <1>8 DEF Adds
    <2>2. \A n \in Names : live[n] = NoTable \/ live[n].id \in 1 .. OldIds
      BY <1>1, SchemaAssumption
    <2>3. NoTable.id = 0
      BY DEF NoTable
    <2>4. \A n, k \in Names : live[n] # NoTable /\ live[n].id = live[k].id => n = k
      BY <1>1, SchemaAssumption
    <2> HIDE DEF Adds
    <2> QED BY <1>1, <1>2, <2>1, <2>2, <2>3, <2>4 DEF LedgerInv
  <1> QED BY <1>9, <1>10, <1>11, <1>12, <1>13, <1>14, <1>15 DEF SchemaInv

LEMMA StutterKeeps ==
  ASSUME SchemaInv, UNCHANGED vars
  PROVE  SchemaInv'
  <1>1. /\ live' = live /\ ledger' = ledger /\ applied' = applied /\ excused' = excused
        /\ contexts' = contexts /\ cached' = cached /\ engines' = engines /\ engine' = engine
        /\ mgr' = mgr /\ serial' = serial /\ claimed' = claimed
        /\ op' = op /\ ops' = ops /\ faults' = faults
    BY DEF vars, database, cache, objects
  <1>2. TypesInv'
    BY <1>1 DEF SchemaInv, TypesInv
  <1>3. CacheInv'
    BY <1>1 DEF SchemaInv, CacheInv, CacheAt
  <1>4. UsesInv'
    <2>1. \A p, m : Has(p, m)' <=> Has(p, m)
      BY <1>1 DEF Has
    <2>2. \A t : Using(t)' <=> Using(t)
      BY <1>1 DEF Using
    <2>3. \A t : Bringing(t)' <=> Bringing(t)
      BY <1>1 DEF Bringing, Attaching
    <2> QED BY <1>1, <2>1, <2>2, <2>3, SMTT(30) DEF SchemaInv, UsesInv
  <1>5. ColumnsInv'
    <2>1. \A p, m : Has(p, m)' <=> Has(p, m)
      BY <1>1 DEF Has
    <2>2. \A t : Holding(t)' <=> Holding(t)
      BY <1>1 DEF Holding, Attaching, Assigning
    <2> QED BY <1>1, <2>1, <2>2, SMTT(30) DEF SchemaInv, ColumnsInv
  <1>6. SlotsInv'
    <2>1. \A p, i : Objects(p, i)' = Objects(p, i)
      BY <1>1 DEF Objects
    <2>2. \A p : Len(contexts'[p]) = Len(contexts[p])
      BY <1>1
    <2> QED BY <1>1, <2>1, <2>2, SMTT(30) DEF SchemaInv, SlotsInv
  <1>7. HoldersInv'
    <2>1. \A p, i : Objects(p, i)' = Objects(p, i)
      BY SMTT(60), <1>1 DEF Objects
    <2>2. \A p, table : Shared(p, table)' <=> Shared(p, table)
      BY <1>1 DEF Shared
    <2>3. \A p, m : Has(p, m)' <=> Has(p, m)
      BY SMTT(60), <1>1 DEF Has
    <2>4. \A t : Attaching(t)' <=> Attaching(t)
      BY <1>1 DEF Attaching
    <2>5. \A p, m : Unbound(p, m)' <=> Unbound(p, m)
      BY <1>1 DEF Unbound, Restoring
    <2> QED BY <1>1, <2>1, <2>2, <2>3, <2>4, <2>5, SMTT(30) DEF SchemaInv, HoldersInv
  <1>8. AloneInv'
    BY <1>1 DEF SchemaInv, AloneInv, Renaming, Restoring
  <1>9. LedgerInv'
    BY <1>1 DEF SchemaInv, LedgerInv, Adds
  <1>10. AssignedInv'
    <2>1. \A t : Assigning(t)' <=> Assigning(t)
      BY <1>1 DEF Assigning
    <2>2. \A t : Assigned(t)' <=> Assigned(t)
      <3>1. \A t : Holding(t)' <=> Holding(t)
        BY <1>1 DEF Holding, Attaching, Assigning
      <3>2. \A p, m : Has(p, m)' <=> Has(p, m)
        BY <1>1 DEF Has
      <3>3. \A p, i : Objects(p, i)' = Objects(p, i)
        BY <1>1 DEF Objects
      <3>4. \A p, table : Shared(p, table)' <=> Shared(p, table)
        BY <1>1 DEF Shared
      <3> QED BY <1>1, <3>1, <3>2, <3>3, <3>4, SMTT(30) DEF Assigned
    <2> QED BY <2>1, <2>2 DEF SchemaInv, AssignedInv
  <1> QED BY <1>2, <1>3, <1>4, <1>5, <1>6, <1>7, <1>8, <1>9, <1>10 DEF SchemaInv

LEMMA InvStep == SchemaInv /\ [Next]_vars => SchemaInv'
  <1> SUFFICES ASSUME SchemaInv, [Next]_vars PROVE SchemaInv'
    OBVIOUS
  <1>1. CASE UNCHANGED vars
    BY <1>1, StutterKeeps
  <1>2. ASSUME NEW p \in Processes, Crash(p) PROVE SchemaInv'
    BY <1>2, CrashKeeps
  <1>3. ASSUME NEW t \in Threads,
               Dispose(t) \/ DisposeAll(t) \/ DisposeNext(t) \/ Close(t)
        PROVE  SchemaInv'
    BY <1>3, DisposeKeeps, DisposeAllKeeps, DisposeNextKeeps, CloseKeeps
  <1>4. ASSUME NEW t \in Threads, Build(t) \/ CheckTables(t) \/ Created(t)
        PROVE  SchemaInv'
    BY <1>4, BuildKeeps, CheckTablesKeeps, CreatedKeeps
  <1>5. ASSUME NEW t \in Threads, op[t].at = "create", NEW x \in op[t].todo, CreateTable(t, x)
        PROVE  SchemaInv'
    BY <1>5, CreateTableKeeps
  <1>6. ASSUME NEW t \in Threads,
               \/ Alter(t) \/ Rebind(t) \/ Verify(t) \/ Rollback(t)
               \/ Restore(t) \/ Reset(t) \/ Rebuild(t) \/ Assign(t)
        PROVE  SchemaInv'
    BY <1>6, AlterKeeps, RebindKeeps, VerifyKeeps, RollbackKeeps, RestoreKeeps, ResetKeeps,
       RebuildKeeps, AssignKeeps
  <1>7. ASSUME NEW t \in Threads, AddColumn(t) \/ Record(t) \/ \E c \in AllColumns : Ensure(t, c)
        PROVE  SchemaInv'
    BY <1>7, AddColumnKeeps, RecordKeeps, EnsureKeeps
  <1>8. ASSUME NEW t \in Threads, NEW m \in Models,
               Register(t, m) \/ CreateSchema(t, m) \/ DropSchema(t, m) \/ Migrate(t, m)
        PROVE  SchemaInv'
    BY <1>8, RegisterKeeps, CreateSchemaKeeps, DropSchemaKeeps, MigrateKeeps
  <1>9. ASSUME NEW t \in Threads, NEW m \in Models, NEW n \in Names, RenameTable(t, m, n)
        PROVE  SchemaInv'
    BY <1>9, RenameTableKeeps
  <1>10. ASSUME NEW t \in Threads, NEW m \in Models, NEW c \in Columns[m], EnsureColumn(t, m, c)
         PROVE  SchemaInv'
    BY <1>10, EnsureColumnKeeps
  <1> QED BY <1>1, <1>2, <1>3, <1>4, <1>5, <1>6, <1>7, <1>8, <1>9, <1>10 DEF Next


-----------------------------------------------------------------------------
(* What the invariant gives.                                               *)

\* Whose call a step ends.
LEMMA Others ==
  ASSUME TypesInv, NEW t \in Threads, NEW u \in Threads, u # t, NEW record
  PROVE  /\ Goto(u, record) => op'[t] = op[t]
         /\ Return(u) => op'[t] = op[t]
  BY DEF TypesInv, Goto, Return

\* A rename ends in its own ALTER or verification, or when the manager has been
\* restored or could not be; or in a crash.
LEMMA RenameEnds ==
  ASSUME SchemaInv, Next, NEW t \in Threads, Renaming(t), op'[t] = Idle,
         mgr'[Home[t]][op[t].model] # NoManager
  PROVE  Alter(t) \/ Verify(t) \/ Rebuild(t) \/ Assign(t)
  <1>1. TypesInv /\ Home[t] \in Processes /\ op[t].model \in Models /\ op[t] \in RenameOps
    <2>1. TypesInv /\ UsesInv
      BY DEF SchemaInv
    <2> QED BY <2>1, HomeType, RenamingFields
  <1>2. op'[t] # op[t] /\ op[t] # Idle
    BY DEF Renaming, Restoring, Idle
  <1>3. ASSUME NEW u \in Threads, u # t PROVE \A record : Goto(u, record) => op'[t] = op[t]
    BY <1>1, <1>3, Others
  <1>4. \A p \in Processes : ~Crash(p)
    <2> SUFFICES ASSUME NEW p \in Processes, Crash(p) PROVE FALSE
      OBVIOUS
    <2>1. CASE p = Home[t]
      BY <1>1, <2>1 DEF Crash, TypesInv
    <2>2. CASE p # Home[t]
      BY <1>2, <2>2 DEF Crash
    <2> QED BY <2>1, <2>2
  <1>5. ASSUME NEW u \in Threads, u # t
        PROVE  /\ ~Dispose(u) /\ ~DisposeAll(u) /\ ~DisposeNext(u) /\ ~Close(u)
               /\ ~Build(u) /\ ~CheckTables(u) /\ ~Created(u)
               /\ \A x : ~CreateTable(u, x)
               /\ ~Alter(u) /\ ~Rebind(u) /\ ~Verify(u) /\ ~Rollback(u)
               /\ ~Restore(u) /\ ~Reset(u) /\ ~Rebuild(u) /\ ~Assign(u)
               /\ ~AddColumn(u) /\ ~Record(u) /\ \A c : ~Ensure(u, c)
    <2>1. \A record : ~Goto(u, record)
      BY <1>2, <1>3, <1>5
    <2>2. ~Return(u)
      BY <2>1 DEF Return
    <2>3. ~Dispose(u) /\ ~DisposeAll(u) /\ ~DisposeNext(u) /\ ~Close(u)
      BY <2>1, <2>2 DEF Dispose, DisposeAll, DisposeNext, Close, Evict
    <2>4. ~Build(u) /\ ~CheckTables(u) /\ ~Created(u) /\ \A x : ~CreateTable(u, x)
      BY <2>1, <2>2 DEF Build, CheckTables, Created, CreateTable
    <2>5. ~Alter(u) /\ ~Rebind(u) /\ ~Verify(u) /\ ~Rollback(u)
      BY SMTT(60), <2>1, <2>2 DEF Alter, Rebind, Verify, Rollback
    <2>7. ~Restore(u) /\ ~Reset(u) /\ ~Rebuild(u) /\ ~Assign(u)
      BY ZenonT(60), <2>1, <2>2 DEF Restore, Reset, Rebuild, Assign
    <2>6. ~AddColumn(u) /\ ~Record(u) /\ \A c : ~Ensure(u, c)
      BY ZenonT(60), <2>1, <2>2 DEF AddColumn, Record, Ensure, Raise
    <2> QED BY <2>3, <2>4, <2>5, <2>6, <2>7
  <1>6. ASSUME NEW u \in Threads, NEW m \in Models
        PROVE  /\ ~Register(u, m) /\ ~CreateSchema(u, m) /\ ~DropSchema(u, m) /\ ~Migrate(u, m)
               /\ \A n \in Names : ~RenameTable(u, m, n)
               /\ \A c : ~EnsureColumn(u, m, c)
    <2>1. CASE u = t
      BY <1>2, <2>1 DEF Register, CreateSchema, DropSchema, Migrate, RenameTable, EnsureColumn, Call
    <2>2. CASE u # t
      <3>1. \A record : ~Goto(u, record)
        BY <1>2, <1>3, <2>2
      <3>2. /\ ~Register(u, m) /\ ~CreateSchema(u, m) /\ ~DropSchema(u, m) /\ ~Migrate(u, m)
            /\ \A c : ~EnsureColumn(u, m, c)
        BY ZenonT(60), <1>2, <3>1 DEF Register, CreateSchema, DropSchema, Migrate, EnsureColumn
      <3>3. ASSUME NEW n \in Names, RenameTable(u, m, n) PROVE FALSE
        <4> DEFINE rec == [at |-> "alter", model |-> m, from |-> mgr[Proc(u)][m].name, target |-> n,
                           alone |-> Rivals(u, m) = {}, moved |-> FALSE,
                           table |-> NoObject]
        <4>0. op' = [v \in Threads |->
                        IF v = u THEN rec
                        ELSE IF v \in Rivals(u, m) THEN [op[v] EXCEPT !.alone = FALSE] ELSE op[v]]
          BY <3>3 DEF RenameTable
        <4> HIDE DEF rec
        <4>1. op'[t] = op[t] \/ op'[t] = [op[t] EXCEPT !.alone = FALSE]
          BY <2>2, <4>0
        <4>2. op'[t].at = op[t].at
          BY <1>1, <4>1, RenameNotAlone
        <4> QED BY <4>2 DEF Renaming, Restoring, Idle
      <3> QED BY <3>2, <3>3
    <2> QED BY <2>1, <2>2
  <1>7. /\ ~Dispose(t) /\ ~DisposeAll(t) /\ ~DisposeNext(t) /\ ~Close(t)
        /\ ~Build(t) /\ ~CheckTables(t) /\ ~Created(t) /\ op[t].at # "create"
        /\ ~AddColumn(t) /\ ~Record(t) /\ \A c : ~Ensure(t, c)
    BY ZenonT(60), <1>2 DEF Dispose, DisposeAll, DisposeNext, Close, Build, CheckTables, Created,
                AddColumn, Record, Ensure, Call, Renaming, Restoring
  <1>8. ~Rebind(t) /\ ~Rollback(t) /\ ~Restore(t) /\ ~Reset(t)
    <2>1. op[t] \in RenameOps
      BY <1>1
    <2>2. ASSUME NEW at \in Renamings PROVE [op[t] EXCEPT !.at = at] # Idle
      BY <2>1 DEF RenameOps, Renamings, Idle
    <2>3. ASSUME NEW record, Goto(t, record) PROVE op'[t] = record
      BY <1>1, <2>3 DEF TypesInv, Goto
    <2>4. ~Rebind(t)
      <3> SUFFICES ASSUME Rebind(t) PROVE FALSE
        OBVIOUS
      <3> DEFINE at == IF Binds(Home[t], op[t].model, op[t].target) THEN "verify" ELSE "rollback"
      <3>1. at \in Renamings /\ Goto(t, [op[t] EXCEPT !.at = at])
        BY DEF Rebind, Proc, Renamings
      <3> HIDE DEF at
      <3> QED BY <2>2, <2>3, <3>1
    <2>5. ~Rollback(t)
      <3> SUFFICES ASSUME Rollback(t) PROVE FALSE
        OBVIOUS
      <3> DEFINE moved == [op[t] EXCEPT !.at = "restore", !.moved = FALSE]
      <3>1. Goto(t, moved) \/ Goto(t, [op[t] EXCEPT !.at = "restore"])
        BY DEF Rollback
      <3>2. moved # Idle
        BY <2>1 DEF RenameOps, Idle
      <3>3. "restore" \in Renamings
        BY DEF Renamings
      <3> HIDE DEF moved
      <3> QED BY <2>2, <2>3, <3>1, <3>2, <3>3
    <2>6. ~Restore(t) /\ ~Reset(t)
      <3>1. {"reset", "rebuild"} \subseteq Renamings
        BY DEF Renamings
      <3>2. Restore(t) => Goto(t, [op[t] EXCEPT !.at = "reset"])
        BY DEF Restore
      <3>3. Reset(t) => Goto(t, [op[t] EXCEPT !.at = "rebuild"])
        BY DEF Reset
      <3> QED BY <2>2, <2>3, <3>1, <3>2, <3>3
    <2> QED BY <2>4, <2>5, <2>6
  <1> QED BY <1>4, <1>5, <1>6, <1>7, <1>8 DEF Next

\* What a rename that ends has done.
LEMMA RenameDone ==
  ASSUME SchemaInv, Next, NEW t \in Threads, Renaming(t), op'[t] = Idle,
         mgr'[Home[t]][op[t].model] # NoManager, op[t].alone,
         op[t].at # "rebuild", op[t].at = "assign" => ~op[t].moved
  PROVE  LET g == mgr'[Home[t]][op[t].model] IN
         /\ g.name = IF op[t].moved THEN op[t].target ELSE op[t].from
         /\ op[t].at # "alter" => g.table.name = g.name
  <1>1. TypesInv /\ UsesInv /\ AloneInv
    BY DEF SchemaInv
  <1>2. Home[t] \in Processes /\ op[t].model \in Models /\ op[t].from \in Names
        /\ op[t] \in RenameOps
    BY <1>1, HomeType, RenamingFields
  <1>3. Stands(op[t], mgr[Home[t]][op[t].model])
    BY <1>1 DEF AloneInv
  <1>4. CASE Alter(t)
    BY <1>3, <1>4 DEF Alter, objects, Stands
  <1>5. CASE Verify(t)
    BY <1>3, <1>5 DEF Verify, objects, Stands
  <1>6. CASE Rebuild(t)
    BY <1>6 DEF Rebuild
  <1>7. CASE Assign(t)
    <2> DEFINE p == Home[t]
               m == op[t].model
               g == mgr[p][m]
    <2>1. op[t].at = "assign" /\ mgr' = [mgr EXCEPT ![p][m].table = op[t].table]
      BY <1>7 DEF Assign, Proc
    <2>2. Has(p, m)
      <3>1. Using(t)
        BY <2>1 DEF Using, Renamings
      <3> QED BY <1>1, <3>1 DEF UsesInv
    <2>3. g.name = op[t].from /\ op[t].table.name = op[t].from
      BY <1>3, <2>1 DEF Stands
    <2>4. mgr'[p][m] = [g EXCEPT !.table = op[t].table]
      BY <1>1, <1>2, <2>1 DEF TypesInv
    <2>5. mgr'[p][m].name = g.name /\ mgr'[p][m].table = op[t].table
      BY <1>1, <1>2, <2>2, <2>4, ManagerType DEF Manager
    <2> QED BY <2>1, <2>3, <2>5
  <1> QED BY <1>4, <1>5, <1>6, <1>7, RenameEnds

-----------------------------------------------------------------------------
(* The theorems.                                                           *)

\* In every reachable state of any instance all nine parts hold: types, the
\* engine cache (get_db_context, dispose_engine), the managers calls stand on, the
\* columns of the Tables they hold, the metadata of every context, who holds which
\* Table, what a thread has that restores a manager, where a rename stands, and
\* which columns were added and recorded.
THEOREM SchemaInductive == Spec => []SchemaInv
  BY InitInv, InvStep, PTL DEF Spec

\* Types; and the cached context, which get_db_context gives to new managers, is
\* not disposed and works on the cached engine.
THEOREM TypeCorrect == Spec => []TypeOK
  <1>1. SchemaInv => TypeOK
    <2> SUFFICES ASSUME SchemaInv PROVE TypeOK
      OBVIOUS
    <2>1. TypesInv /\ CacheInv /\ UsesInv
      BY DEF SchemaInv
    <2>2. ASSUME NEW p \in Processes
          PROVE  /\ cached[p] \in 0 .. Len(contexts[p]) /\ engine[p] \in 0 .. Len(engines[p])
                 /\ cached[p] # 0 => /\ ~contexts[p][cached[p]].disposed
                                     /\ contexts[p][cached[p]].engine = engine[p]
      <3>1. CacheAt(p) /\ cached[p] \in Nat /\ Len(contexts[p]) \in Nat
        BY <2>1, LenType DEF CacheInv, TypesInv
      <3> QED BY <3>1 DEF CacheAt
    <2>3. ASSUME NEW p \in Processes, NEW m \in Models
          PROVE  mgr[p][m].ctx \in 0 .. Len(contexts[p])
      <3>1. Len(contexts[p]) \in Nat
        BY <2>1, LenType
      <3>2. CASE Has(p, m)
        BY <2>1, <3>1, <3>2 DEF UsesInv
      <3>3. CASE ~Has(p, m)
        <4>1. NoManager.ctx = 0
          BY DEF NoManager
        <4> QED BY <3>1, <3>3, <4>1 DEF Has
      <3> QED BY <3>2, <3>3
    <2>4. /\ live \in [Names -> [id : Nat, cols : SUBSET AllColumns]]
          /\ ledger \subseteq Nat \X AllColumns \X Threads
          /\ ops \in 0 .. MaxOps /\ faults \in 0 .. MaxFaults
      BY <2>1 DEF TypesInv, Entries
    <2> QED BY <2>2, <2>3, <2>4 DEF TypeOK
  <1> QED BY <1>1, SchemaInductive, PTL

\* Every context on an engine that was disposed of is marked, however many
\* threads take and dispose of contexts at one time (dispose_all, dispose_engine,
\* get_db_context).
THEOREM DisposedIsMarkedHolds == Spec => []DisposedIsMarked
  <1>1. SchemaInv => DisposedIsMarked
    <2> SUFFICES ASSUME SchemaInv, NEW p \in Processes, NEW i \in 1 .. Len(contexts[p]),
                        ~contexts[p][i].disposed
                 PROVE  ~engines[p][contexts[p][i].engine]
      BY Zenon DEF DisposedIsMarked
    <2>1. CacheAt(p) /\ TypesInv
      BY DEF SchemaInv, CacheInv
    <2>2. i = cached[p]
      BY <2>1 DEF CacheAt
    <2>3. contexts[p][i].engine = engine[p] /\ contexts[p][i].engine \in 1 .. Len(engines[p])
      BY <2>1, <2>2 DEF CacheAt
    <2>4. engine[p] # 0
      BY <2>1, <2>3, LenType
    <2>5. ~engines[p][engine[p]]
      BY <2>1, <2>4, Zenon DEF CacheAt
    <2> QED BY <2>3, <2>5, Zenon
  <1> QED BY <1>1, SchemaInductive, PTL

\* The Table a manager writes through has the columns of its model, whoever has
\* renamed what and shared which Table before (_build_table, _rebind_table_state).
THEOREM OwnColumnsHolds == Spec => []OwnColumns
  <1>1. SchemaInv => OwnColumns
    BY DEF SchemaInv, ColumnsInv, OwnColumns, Has
  <1> QED BY <1>1, SchemaInductive, PTL

\* The ledger records each added column once, and misses only those whose migrate
\* raised or could not write it (migrate, ensure_column, _record_migration).
THEOREM LedgerIsExactHolds == Spec => []LedgerIsExact
  <1>1. SchemaInv => LedgerIsExact
    <2> SUFFICES ASSUME LedgerInv PROVE LedgerIsExact
      BY DEF SchemaInv
    <2> QED BY DEF LedgerInv, LedgerIsExact, Adds
  <1> QED BY <1>1, SchemaInductive, PTL

\* A Table that nobody has shared is in the metadata of its manager's context when
\* the context is not locked, but for the moment in which a failed rename of that
\* manager is being undone
\* (_construct_table, _rebind_table_state, _restore_table_state).
THEOREM InMetadataHolds == Spec => []InMetadata
  <1>1. SchemaInv => InMetadata
    <2> SUFFICES ASSUME HoldersInv PROVE InMetadata
      BY DEF SchemaInv
    <2> QED BY DEF HoldersInv, InMetadata, Unclaimed, Found, Has, Shared, Objects
  <1> QED BY <1>1, SchemaInductive, PTL

\* When a rename_table that no other of its manager crossed ends, the manager and
\* its Table have the name the ALTERs left the table with, unless its rollback
\* failed or another model has claimed the original name (rename_table,
\* _rebind_table_state, _restore_table_state).
THEOREM RenameIsAtomicHolds == Spec => RenameIsAtomic
  <1> DEFINE A == \A t \in Threads :
                     LET o == op[t]
                         g == mgr'[Home[t]][o.model] IN
                     /\ Renaming(t) /\ op'[t] = Idle /\ g # NoManager
                     /\ o.alone /\ o.at # "rebuild" /\ (o.at = "assign" => ~o.moved)
                     => /\ g.name = IF o.moved THEN o.target ELSE o.from
                        /\ o.at # "alter" => g.table.name = g.name
  <1>1. SchemaInv /\ Next => A
    BY RenameDone
  <1>2. SchemaInv /\ [Next]_vars => [A]_vars
    <2> HIDE DEF A
    <2> QED BY <1>1
  <1>3. RenameIsAtomic <=> [][A]_vars
    BY DEF RenameIsAtomic
  <1> HIDE DEF A
  <1> QED BY <1>2, <1>3, SchemaInductive, PTL DEF Spec

=============================================================================
