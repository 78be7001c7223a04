------------------------------ MODULE MCHashmap ------------------------------
(* Hashmap on a table of three entries.  Keys hash so that chains collide,  *)
(* run into each other and wrap round the end of the table, and there is    *)
(* one key more than entries: the table fills up, and the lookup of the key *)
(* that is left out has no unused entry to end at.                          *)
EXTENDS Hashmap, TLC

MCKeys == 1 .. 4
MCHash == (1 :> 2) @@ (2 :> 2) @@ (3 :> 0) @@ (4 :> 0)
=============================================================================
