----------------------------- MODULE HashmapOps -----------------------------
(***************************************************************************)
(* The open-addressed table of src/src/data/cg_hashmap.c as a value: a     *)
(* function from indices to entries, with what lookup and insertion find   *)
(* in it.  Module Hashmap walks the table one entry at a time; the session *)
(* database uses these operators for its calls.                            *)
(***************************************************************************)
EXTENDS Integers, FiniteSets

CONSTANTS Keys,      \* 64-bit keys (session ids, hashes of routes)
          Vals,      \* values
          Capacity,  \* number of entries; a power of two in the code
          Hash       \* cg_hash_uint64(key) & mask, for every key

Index == 0 .. (Capacity - 1)

ASSUME HashmapAssumption ==
    /\ Keys # {} /\ Vals # {}
    /\ Capacity \in Nat \ {0}
    /\ Hash \in [Keys -> Index]

(* The values of the occupied byte; 0 is an entry that was never used.      *)
Unused    == 0
Occupied  == 1
Tombstone == 2

Entries == [occupied : {Unused, Occupied, Tombstone}, key : Keys, val : Vals]
Tables  == [Index -> Entries]

(* Slip: the index after the last one is not wrapped.                       *)
WrapSlip(n) == IF n <= Capacity THEN n ELSE n - Capacity

(* n & mask for n below twice the capacity.                                 *)
Wrap(n) == IF n < Capacity THEN n ELSE n - Capacity

(* The index a search for k reaches after o steps, and its inverse.         *)
Probe(k, o)    == Wrap(Hash[k] + o)
Distance(k, i) == IF i >= Hash[k] THEN i - Hash[k] ELSE i + Capacity - Hash[k]

HoldsKey(t, i, k) == t[i].occupied = Occupied /\ t[i].key = k

(* Distances at which lookup and the search for a place stop.  A search     *)
(* with no such distance goes round for ever.                               *)
GetStops(t, k) ==
    {o \in Index : t[Probe(k, o)].occupied = Unused \/ HoldsKey(t, Probe(k, o), k)}
PlaceStops(t, k) ==
    {o \in Index : t[Probe(k, o)].occupied # Occupied}

Nearest(S) == CHOOSE o \in S : \A p \in S : o <= p

GetReturns(t, k) == GetStops(t, k) # {}
SlotOf(t, k)     == Probe(k, Nearest(GetStops(t, k)))
Present(t, k)    == GetReturns(t, k) /\ HoldsKey(t, SlotOf(t, k), k)
PlaceFor(t, k)   == Probe(k, Nearest(PlaceStops(t, k)))

Insert(t, k, v) ==
    IF Present(t, k)
      THEN [t EXCEPT ![SlotOf(t, k)].val = v]
      ELSE [t EXCEPT ![PlaceFor(t, k)] = [occupied |-> Occupied, key |-> k, val |-> v]]

(* Slip: a deleted entry becomes one that was never used.                   *)
DeleteSlip(t, k) ==
    IF Present(t, k) THEN [t EXCEPT ![SlotOf(t, k)].occupied = Unused] ELSE t

Delete(t, k) ==
    IF Present(t, k) THEN [t EXCEPT ![SlotOf(t, k)].occupied = Tombstone] ELSE t

OccupiedIn(t) == {i \in Index : t[i].occupied = Occupied}

(* What makes a table a map: a key is in at most one entry, and no          *)
(* never-used entry lies between the index it hashes to and that entry, so  *)
(* no insertion or deletion cuts the chain a lookup follows.                *)
KeyOnceIn(t) ==
    \A i, j \in OccupiedIn(t) : t[i].key = t[j].key => i = j
ChainUnbrokenIn(t) ==
    \A i \in OccupiedIn(t) : \A o \in Index :
      o < Distance(t[i].key, i) => t[Probe(t[i].key, o)].occupied # Unused
WellFormedTable(t) == KeyOnceIn(t) /\ ChainUnbrokenIn(t)
=============================================================================
