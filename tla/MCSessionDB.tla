----------------------------- MODULE MCSessionDB -----------------------------
(* SessionDB with a pool and a table of PoolSize entries and one session id *)
(* more than fits; two ids hash to the last index, so that chains wrap.     *)
EXTENDS SessionDB, TLC

MCSids == 1 .. (Capacity + 1)
MCVals == 0 .. (Capacity - 1)
MCHash == [s \in MCSids |-> IF s <= 2 THEN Capacity - 1 ELSE s % Capacity]
=============================================================================
