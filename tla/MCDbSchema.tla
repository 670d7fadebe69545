----------------------------- MODULE MCDbSchema ------------------------------
(* DbSchema with two threads of one process and one of another, on a database *)
(* whose table is older than its model; another model shares that table, and  *)
(* a third has a table of its own.                                            *)
EXTENDS DbSchema, TLC

CONSTANTS t1, t2, t3, p1, p2, user, twin, other

MCThreads == {t1, t2, t3}
MCProcesses == {p1, p2}
MCHome == t1 :> p1 @@ t2 :> p1 @@ t3 :> p2
MCModels == {user, twin, other}
MCColumns == [m \in MCModels |-> IF m = other THEN {"id", "name"} ELSE {"id", "mail", "name"}]
MCTableName == [m \in MCModels |-> IF m = other THEN "people" ELSE "users"]
MCAutoCreate == {user, other}
MCNames == {"users", "people"}
MCOld == "users" :> [id |-> 1, cols |-> {"id"}] @@ "people" :> NoTable

Symmetry == Permutations({t1, t2})
=============================================================================
