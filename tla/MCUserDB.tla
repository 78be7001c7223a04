------------------------------ MODULE MCUserDB ------------------------------
(* The user database with two records, three registrations, two kills, and  *)
(* a name that is cut to another.                                           *)
EXTENDS UserDB

OneEach == [ch \in Challenges |-> 1]
MCCut   == [n \in Names |-> IF n = "ann1" THEN "ann" ELSE n]
=============================================================================
