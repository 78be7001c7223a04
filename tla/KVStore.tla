------------------------------- MODULE KVStore -------------------------------
(***************************************************************************)
(* What a map from keys to values promises its callers: insert sets, delete*)
(* removes, and a lookup answers with the value last set and not removed.  *)
(* Each call takes effect and answers in one step.                         *)
(***************************************************************************)
CONSTANTS Keys, Vals, Missing

VARIABLES kv,      \* the value of every key, or Missing
          answer   \* the last answer: the call, its key and value, what it found

Init == /\ kv = [k \in Keys |-> Missing]
        /\ answer = <<>>

Look(k) == /\ answer' = <<"get", k, Missing, kv[k]>>
           /\ UNCHANGED kv

Set(k, v) == /\ kv' = [kv EXCEPT ![k] = v]
             /\ answer' = <<"insert", k, v, kv[k]>>

Remove(k) == /\ kv' = [kv EXCEPT ![k] = Missing]
             /\ answer' = <<"delete", k, Missing, kv[k]>>

Next == \E k \in Keys : Look(k) \/ Remove(k) \/ \E v \in Vals : Set(k, v)

Spec == Init /\ [][Next]_<<kv, answer>>
=============================================================================
