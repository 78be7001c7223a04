----------------------------- MODULE MCAccounts -----------------------------
(* Accounts on a pool of two records.  The challenges do not fit in the     *)
(* completed list; the long name is cut to its first 31 bytes, "long".      *)
EXTENDS Accounts, TLC

Cut     == [n \in Names |-> IF n = "long1" THEN "long" ELSE n]
OneEach == [ch \in Challenges |-> 1]
=============================================================================
