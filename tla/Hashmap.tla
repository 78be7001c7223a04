------------------------------- MODULE Hashmap -------------------------------
(***************************************************************************)
(* src/src/data/cg_hashmap.c, one probe of the table per step.  A call     *)
(* first looks its key up (every operation does); an insertion that does   *)
(* not find it then walks again, to the first entry that is not occupied.  *)
(* The walk has no other end than what it finds.                           *)
(***************************************************************************)
EXTENDS HashmapOps

CONSTANT Missing     \* the null pointer a lookup may return

ASSUME MissingIsNoValue == Missing \notin Vals

VARIABLES table, count,
          call,      \* the call in progress: op, key, val, phase and idx
          answer     \* what the last call found

vars == <<table, count, call, answer>>

Phases == {"idle", "get", "place"}
Calls  == [op : {"get", "insert", "delete"}, key : Keys, val : Vals \cup {Missing},
           phase : Phases, idx : Index]

(* Zeroed memory: what an unused entry or an idle call holds is never read. *)
Idle        == CHOOSE c \in Calls : c.phase = "idle"
UnusedEntry == CHOOSE e \in Entries : e.occupied = Unused

Init ==
    /\ table = [i \in Index |-> UnusedEntry]
    /\ count = 0
    /\ call = Idle
    /\ answer = <<>>

Call(op, k, v) ==
    /\ call.phase = "idle"
    /\ call' = [op |-> op, key |-> k, val |-> v, phase |-> "get", idx |-> Hash[k]]
    /\ UNCHANGED <<table, count, answer>>

(* Slip: the walk is held at the end of the table and does not go round.    *)
WalkSlip ==
    /\ call' = [call EXCEPT !.idx = IF @ + 1 = Capacity THEN @ ELSE @ + 1]
    /\ UNCHANGED <<table, count, answer>>

Walk ==
    /\ call' = [call EXCEPT !.idx = Wrap(@ + 1)]
    /\ UNCHANGED <<table, count, answer>>

Return(found) ==
    /\ call' = Idle
    /\ answer' = <<call.op, call.key, call.val, found>>

Here == table[call.idx]

(* cg_hashmap_get_key_uint passes tombstones and other keys.                *)
GetWalks ==
    /\ call.phase = "get"
    /\ Here.occupied # Unused /\ ~HoldsKey(table, call.idx, call.key)
    /\ Walk

(* Slips: a deletion that cuts the chain, an insertion that keeps the old   *)
(* value.                                                                   *)
Finds(tombstone, keeps) ==
    /\ call.phase = "get" /\ HoldsKey(table, call.idx, call.key)
    /\ \/ call.op = "get" /\ UNCHANGED <<table, count>>
       \/ /\ call.op = "insert"
          /\ table' = IF keeps THEN table
                      ELSE [table EXCEPT ![call.idx].val = call.val]
          /\ UNCHANGED count
       \/ /\ call.op = "delete"
          /\ table' = [table EXCEPT ![call.idx].occupied = tombstone]
          /\ count' = count - 1
    /\ Return(Here.val)
GetFindsCuts  == Finds(Unused, FALSE)
GetFindsKeeps == Finds(Tombstone, TRUE)

GetFinds ==
    /\ call.phase = "get" /\ HoldsKey(table, call.idx, call.key)
    /\ \/ call.op = "get" /\ UNCHANGED <<table, count>>
       \/ /\ call.op = "insert"
          /\ table' = [table EXCEPT ![call.idx].val = call.val]
          /\ UNCHANGED count
       \/ /\ call.op = "delete"
          /\ table' = [table EXCEPT ![call.idx].occupied = Tombstone]
          /\ count' = count - 1
    /\ Return(Here.val)

(* Slip: the search for a place goes on from where the lookup ended.        *)
GetMissesSlip ==
    /\ call.phase = "get" /\ Here.occupied = Unused
    /\ \/ /\ call.op # "insert"
          /\ Return(Missing)
       \/ /\ call.op = "insert"
          /\ call' = [call EXCEPT !.phase = "place"]
          /\ UNCHANGED answer
    /\ UNCHANGED <<table, count>>

GetMisses ==
    /\ call.phase = "get" /\ Here.occupied = Unused
    /\ \/ /\ call.op # "insert"
          /\ Return(Missing)
       \/ /\ call.op = "insert"
          /\ call' = [call EXCEPT !.phase = "place", !.idx = Hash[call.key]]
          /\ UNCHANGED answer
    /\ UNCHANGED <<table, count>>

PlaceWalks ==
    /\ call.phase = "place" /\ Here.occupied = Occupied
    /\ Walk

PlaceWrites ==
    /\ call.phase = "place" /\ Here.occupied # Occupied
    /\ table' = [table EXCEPT ![call.idx] =
                   [occupied |-> Occupied, key |-> call.key, val |-> call.val]]
    /\ count' = count + 1
    /\ Return(Missing)

Step == GetWalks \/ GetFinds \/ GetMisses \/ PlaceWalks \/ PlaceWrites

Next == \/ \E op \in {"get", "delete"}, k \in Keys : Call(op, k, Missing)
        \/ \E k \in Keys, v \in Vals : Call("insert", k, v)
        \/ Step

Spec     == Init /\ [][Next]_vars
FairSpec == Spec /\ WF_vars(Step)

-----------------------------------------------------------------------------
(* The type invariant of the table and of the call in progress.             *)
TypeOK ==
    /\ table \in Tables
    /\ count \in 0 .. Capacity
    /\ call \in Calls

(* map.count is the number of occupied entries, the bound the session       *)
(* database's admission test relies on.                                     *)
CountIsOccupied == count = Cardinality(OccupiedIn(table))

(* Each key is in one entry at most and is reached from its hash: deletions *)
(* and insertions in any order never cut the chain a lookup follows, nor    *)
(* lose the count.                                                          *)
WellFormed == WellFormedTable(table) /\ CountIsOccupied

(* The walk finds what the definition of a lookup says is there.            *)
WalkFindsNearest ==
    /\ call.phase = "get" =>
         \A o \in GetStops(table, call.key) : Distance(call.key, call.idx) <= o
    /\ call.phase = "place" =>
         /\ ~Present(table, call.key)
         /\ \A o \in PlaceStops(table, call.key) : Distance(call.key, call.idx) <= o

(* The table is a map: every call takes effect and answers in one step, as  *)
(* the abstract store does.                                                 *)
Contents ==
    [k \in Keys |->
       IF \E i \in Index : HoldsKey(table, i, k)
         THEN table[CHOOSE i \in Index : HoldsKey(table, i, k)].val
         ELSE Missing]
Abstract == INSTANCE KVStore WITH kv <- Contents
ImplementsStore == Abstract!Spec

(* As long as some entry was never used, every call returns: in whatever    *)
(* order entries were filled, deleted and filled again, the walk comes to   *)
(* its end (cg_hashmap.c:42, and the search for a place at 108).            *)
ReturnsWhileUnused ==
    call.phase # "idle"
      ~> call.phase = "idle" \/ \A i \in Index : table[i].occupied # Unused

(* Every call returns: cg_hashmap_get_key_uint answers "A pointer to the    *)
(* cg_hashmap_entry if found and occupied, otherwise 0" (cg_hashmap.c:30).  *)
(* Not so: ReturnsWhileUnused says how far.                                 *)
CallsReturn == call.phase # "idle" ~> call.phase = "idle"
=============================================================================
