------------------------------ MODULE MCDbStore ------------------------------
(* DbStore with two clients, a versioned row and two unversioned ones in    *)
(* databases of their own.                                                  *)
EXTENDS DbStore, TLC

CONSTANTS c1, c2, order, note, tag, main, notes

MCClients == {c1, c2}
MCKeys == {order, note, tag}
MCVersioned == {order}
MCUrl == order :> main @@ note :> notes @@ tag :> notes
MCMaxWrites == order :> 4 @@ note :> 1 @@ tag :> 1
MCManagers == <<main, notes>>

Symmetry == Permutations(MCClients) \cup Permutations({note, tag})
=============================================================================
