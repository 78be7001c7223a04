---------------------------- MODULE HashmapProofs ----------------------------
(***************************************************************************)
(* The walks of Hashmap, one probe at a time, do what the definitions of   *)
(* HashmapOps say, and the table implements KVStore: for any capacity, any *)
(* keys and values and any hash function.                                  *)
(***************************************************************************)
EXTENDS Hashmap, HashmapOpsProofs

(* A call in progress has a value to set when it is an insertion and none   *)
(* when it is not; only an insertion looks for a place, in a table where    *)
(* its lookup has come to an end.                                           *)
CallIsOwn ==
    /\ call.phase # "idle" =>
         IF call.op = "insert" THEN call.val \in Vals ELSE call.val = Missing
    /\ call.phase = "place" => call.op = "insert" /\ GetReturns(table, call.key)

(* The inductive invariant.                                                 *)
HashInv == TypeOK /\ WellFormed /\ WalkFindsNearest /\ CallIsOwn

-----------------------------------------------------------------------------
(* An idle call is a call.                                                  *)
LEMMA IdleIsCall == Idle \in Calls /\ Idle.phase = "idle"
<1>1. PICK k \in Keys : TRUE
    BY HashmapAssumption
<1>2. 0 \in Index
    BY HashmapAssumption DEF Index
<1>3. [op |-> "get", key |-> k, val |-> Missing, phase |-> "idle", idx |-> 0] \in Calls
    BY <1>2 DEF Calls, Phases
<1>4. \E c \in Calls : c.phase = "idle"
    BY <1>3
<1> QED BY <1>4 DEF Idle

(* Each step of a walk takes it one further from the key's hash, until it   *)
(* is back there.                                                           *)
LEMMA WalkDistance ==
    ASSUME NEW k \in Keys, NEW i \in Index
    PROVE  /\ Wrap(i + 1) \in Index
           /\ Distance(k, Wrap(i + 1)) =
                IF Distance(k, i) + 1 < Capacity THEN Distance(k, i) + 1 ELSE 0
<1>1. Capacity \in Nat \ {0} /\ Hash[k] \in Index
    BY HashmapAssumption
<1> QED BY <1>1 DEF Wrap, Distance, Index

(* A walk that has not passed the nearest of the places it looks for, and   *)
(* is not at one, has not passed it a step later either.                    *)
LEMMA WalkOn ==
    ASSUME NEW k \in Keys, NEW i \in Index, NEW S, S \subseteq Index,
           \A o \in S : Distance(k, i) <= o, Distance(k, i) \notin S
    PROVE  \A o \in S : Distance(k, Wrap(i + 1)) <= o
<1> DEFINE d == Distance(k, i)
<1>1. \A o \in S : o \in 0 .. (Capacity - 1) /\ d <= o /\ d # o
    BY DEF Index
<1>2. d \in 0 .. (Capacity - 1) /\ Capacity \in Nat
    BY ProbeDistance, HashmapAssumption DEF Index
<1>3. Distance(k, Wrap(i + 1)) = IF d + 1 < Capacity THEN d + 1 ELSE 0
    BY WalkDistance
<1> HIDE DEF d
<1> QED BY <1>1, <1>2, <1>3

(* A walk starts before every place.                                        *)
LEMMA WalkStarts ==
    ASSUME NEW k \in Keys, NEW S, S \subseteq Index
    PROVE  \A o \in S : Distance(k, Hash[k]) <= o
<1>1. Capacity \in Nat \ {0} /\ Hash[k] \in Index
    BY HashmapAssumption
<1>2. Distance(k, Hash[k]) = 0 /\ \A o \in Index : 0 <= o
    BY <1>1 DEF Distance, Index
<1> QED BY <1>2

-----------------------------------------------------------------------------
(* The invariant holds of an empty table,                                   *)
LEMMA HashInit == Init => HashInv
<1> SUFFICES ASSUME Init PROVE HashInv
    OBVIOUS
<1>1. UnusedEntry \in Entries /\ UnusedEntry.occupied = Unused
  <2>1. PICK k \in Keys, v \in Vals : TRUE
      BY HashmapAssumption
  <2>2. [occupied |-> Unused, key |-> k, val |-> v] \in Entries
      BY DEF Entries
  <2>3. \E e \in Entries : e.occupied = Unused
      BY <2>2
  <2> QED BY <2>3 DEF UnusedEntry
<1>2. table \in Tables /\ OccupiedIn(table) = {}
    BY <1>1 DEF Init, Tables, OccupiedIn, Unused, Occupied
<1>3. Cardinality(OccupiedIn(table)) = 0
    BY <1>2, IndexSetSizes
<1>4. TypeOK
    BY <1>2, IdleIsCall, HashmapAssumption DEF Init, TypeOK
<1>5. WellFormed
    BY <1>2, <1>3 DEF Init, WellFormed, WellFormedTable, KeyOnceIn, ChainUnbrokenIn, CountIsOccupied
<1>6. WalkFindsNearest /\ CallIsOwn
    BY IdleIsCall DEF Init, WalkFindsNearest, CallIsOwn
<1> QED BY <1>4, <1>5, <1>6 DEF HashInv

(* What is in a table when count says how many entries are occupied.        *)
LEMMA CountTyped ==
    ASSUME NEW t \in Tables
    PROVE  /\ OccupiedIn(t) \subseteq Index
           /\ Cardinality(OccupiedIn(t)) \in 0 .. Capacity
<1>1. OccupiedIn(t) \subseteq Index
    BY DEF OccupiedIn
<1> QED BY <1>1, IndexSetSizes, HashmapAssumption

(* A search that came to an entry that was never used has shown that its    *)
(* key is absent.                                                           *)
LEMMA MissShowsAbsence ==
    ASSUME NEW t \in Tables, NEW k \in Keys, NEW i \in Index, t[i].occupied = Unused,
           \A o \in GetStops(t, k) : Distance(k, i) <= o
    PROVE  GetReturns(t, k) /\ ~Present(t, k)
<1>1. Distance(k, i) \in GetStops(t, k) /\ GetStops(t, k) \subseteq Index
    BY ProbeDistance DEF GetStops
<1>2. SlotOf(t, k) = i
    BY <1>1, NearestIs, ProbeDistance DEF SlotOf
<1> QED BY <1>1, <1>2 DEF GetReturns, Present, HoldsKey, Unused, Occupied

(* The search for a place ends where an insertion puts its entry.           *)
LEMMA PlaceIsNearest ==
    ASSUME NEW t \in Tables, NEW k \in Keys, NEW i \in Index, t[i].occupied # Occupied,
           \A o \in PlaceStops(t, k) : Distance(k, i) <= o
    PROVE  PlaceFor(t, k) = i
<1>1. Distance(k, i) \in PlaceStops(t, k) /\ PlaceStops(t, k) \subseteq Index
    BY ProbeDistance DEF PlaceStops
<1> QED BY <1>1, NearestIs, ProbeDistance DEF PlaceFor

(* What each step that ends a call does to the table: an insertion that     *)
(* found its key,                                                           *)
LEMMA SetStep ==
    ASSUME HashInv, call.phase = "get", HoldsKey(table, call.idx, call.key),
           call.op = "insert", table' = [table EXCEPT ![call.idx].val = call.val]
    PROVE  /\ table' \in Tables /\ WellFormedTable(table')
           /\ OccupiedIn(table') = OccupiedIn(table)
           /\ \A j \in Keys : \A w : MapsTo(table', j, w) <=>
                IF j = call.key THEN w = call.val ELSE MapsTo(table, j, w)
<1>1. call.key \in Keys /\ call.idx \in Index /\ call.val \in Vals
      /\ table \in Tables /\ WellFormedTable(table)
    BY DEF HashInv, TypeOK, Calls, CallIsOwn, WellFormed
<1>2. ASSUME NEW d, d = SetAt(table, call.idx, call.val)
      PROVE  /\ d \in Tables /\ WellFormedTable(d) /\ OccupiedIn(d) = OccupiedIn(table)
             /\ \A j \in Keys : \A w : MapsTo(d, j, w) <=>
                  IF j = call.key THEN w = call.val ELSE MapsTo(table, j, w)
    BY <1>1, <1>2, SetSets
<1>3. table' = SetAt(table, call.idx, call.val)
    BY DEF SetAt
<1> QED BY <1>2, <1>3

(* a deletion that found its key,                                          *)
LEMMA RemoveStep ==
    ASSUME HashInv, call.phase = "get", HoldsKey(table, call.idx, call.key),
           table' = [table EXCEPT ![call.idx].occupied = Tombstone]
    PROVE  /\ table' \in Tables /\ WellFormedTable(table')
           /\ OccupiedIn(table') = OccupiedIn(table) \ {call.idx}
           /\ call.idx \in OccupiedIn(table)
           /\ \A j \in Keys : \A w : MapsTo(table', j, w) <=>
                                       j # call.key /\ MapsTo(table, j, w)
<1>1. call.key \in Keys /\ call.idx \in Index /\ table \in Tables /\ WellFormedTable(table)
    BY DEF HashInv, TypeOK, Calls, WellFormed
<1>2. Present(table, call.key) /\ SlotOf(table, call.key) = call.idx
    BY <1>1, LookupFinds
<1>3. table' = Delete(table, call.key)
    BY <1>2 DEF Delete
<1>4. ASSUME NEW d, d = Delete(table, call.key)
      PROVE  /\ d \in Tables /\ WellFormedTable(d)
             /\ OccupiedIn(d) = OccupiedIn(table) \ {call.idx}
             /\ call.idx \in OccupiedIn(table)
             /\ \A j \in Keys : \A w : MapsTo(d, j, w) <=> j # call.key /\ MapsTo(table, j, w)
    BY <1>1, <1>2, <1>4, DeleteRemoves
<1> QED BY <1>3, <1>4

(* an insertion that found a place.                                         *)
LEMMA PlaceStep ==
    ASSUME HashInv, PlaceWrites
    PROVE  /\ table' \in Tables /\ WellFormedTable(table')
           /\ OccupiedIn(table') = OccupiedIn(table) \cup {call.idx}
           /\ call.idx \in Index \ OccupiedIn(table)
           /\ ~Present(table, call.key)
           /\ \A j \in Keys : \A w : MapsTo(table', j, w) <=>
                IF j = call.key THEN w = call.val ELSE MapsTo(table, j, w)
<1>1. call.key \in Keys /\ call.idx \in Index /\ call.val \in Vals /\ call.phase = "place"
      /\ table \in Tables /\ WellFormedTable(table)
    BY DEF HashInv, TypeOK, Calls, CallIsOwn, WellFormed, PlaceWrites
<1>2. GetReturns(table, call.key) /\ ~Present(table, call.key)
    BY <1>1 DEF HashInv, CallIsOwn, WalkFindsNearest
<1>3. PlaceFor(table, call.key) = call.idx
    BY <1>1, PlaceIsNearest DEF HashInv, WalkFindsNearest, PlaceWrites, Here
<1>4. table' = Insert(table, call.key, call.val)
    BY <1>2, <1>3 DEF Insert, PlaceWrites
<1> QED BY <1>1, <1>2, <1>3, <1>4, InsertAdds

(* and every step keeps it.                                                 *)
LEMMA HashStep == HashInv /\ [Next]_vars => HashInv'
<1> SUFFICES ASSUME HashInv, [Next]_vars PROVE HashInv'
    OBVIOUS
<1>1. /\ table \in Tables /\ WellFormedTable(table) /\ count = Cardinality(OccupiedIn(table))
      /\ call \in Calls /\ call.key \in Keys /\ call.idx \in Index
    BY DEF HashInv, TypeOK, WellFormed, CountIsOccupied, Calls
<1>2. CASE UNCHANGED vars
    BY <1>2 DEF vars, HashInv, TypeOK, WellFormed, CountIsOccupied, WalkFindsNearest, CallIsOwn
<1>3. ASSUME NEW o \in {"get", "insert", "delete"}, NEW k \in Keys, NEW v \in Vals \cup {Missing},
             Call(o, k, v), IF o = "insert" THEN v \in Vals ELSE v = Missing
      PROVE  HashInv'
  <2>1. Hash[k] \in Index
      BY HashmapAssumption
  <2>2. TypeOK' /\ WellFormed' /\ CallIsOwn'
      BY <1>3, <2>1 DEF HashInv, Call, TypeOK, Calls, Phases, WellFormed, CountIsOccupied, CallIsOwn
  <2>3. WalkFindsNearest'
    <3>1. call'.phase = "get" /\ call'.key = k /\ call'.idx = Hash[k] /\ table' = table
        BY <1>3 DEF Call
    <3>2. GetStops(table, k) \subseteq Index
        BY DEF GetStops
    <3> QED BY <3>1, <3>2, WalkStarts DEF WalkFindsNearest
  <2> QED BY <2>2, <2>3 DEF HashInv
<1>4. CASE GetWalks
  <2>1. call' = [call EXCEPT !.idx = Wrap(call.idx + 1)] /\ table' = table /\ count' = count
      BY <1>4 DEF GetWalks, Walk
  <2>2. Wrap(call.idx + 1) \in Index
      BY <1>1, WalkDistance
  <2>3. /\ call' \in Calls /\ call'.phase = "get" /\ call'.key = call.key
        /\ call'.op = call.op /\ call'.val = call.val /\ call'.idx = Wrap(call.idx + 1)
      BY <1>1, <1>4, <2>1, <2>2 DEF GetWalks, Calls
  <2>4. \A o \in GetStops(table, call.key) : Distance(call.key, Wrap(call.idx + 1)) <= o
    <3>1. GetStops(table, call.key) \subseteq Index
        BY DEF GetStops
    <3>2. Distance(call.key, call.idx) \notin GetStops(table, call.key)
        BY <1>1, <1>4, ProbeDistance DEF GetWalks, GetStops, Here
    <3> QED BY <1>1, <1>4, <3>1, <3>2, WalkOn DEF HashInv, WalkFindsNearest, GetWalks
  <2> QED BY <1>4, <2>1, <2>3, <2>4
          DEF GetWalks, HashInv, TypeOK, WellFormed, CountIsOccupied, WalkFindsNearest, CallIsOwn
<1>5. CASE GetFinds
  <2>1. call' = Idle /\ call.phase = "get" /\ HoldsKey(table, call.idx, call.key)
      BY <1>5 DEF GetFinds, Return
  <2>2. CASE call.op = "get" /\ UNCHANGED <<table, count>>
      BY <2>1, <2>2, IdleIsCall
         DEF HashInv, TypeOK, WellFormed, CountIsOccupied, WalkFindsNearest, CallIsOwn
  <2>3. CASE /\ call.op = "insert"
             /\ table' = [table EXCEPT ![call.idx].val = call.val]
             /\ UNCHANGED count
    <3>1. table' \in Tables /\ WellFormedTable(table') /\ OccupiedIn(table') = OccupiedIn(table)
        BY <2>1, <2>3, SetStep
    <3> QED BY <2>1, <2>3, <3>1, IdleIsCall
            DEF HashInv, TypeOK, WellFormed, CountIsOccupied, WalkFindsNearest, CallIsOwn
  <2>4. CASE /\ call.op = "delete"
             /\ table' = [table EXCEPT ![call.idx].occupied = Tombstone]
             /\ count' = count - 1
    <3>1. /\ table' \in Tables /\ WellFormedTable(table')
          /\ OccupiedIn(table') = OccupiedIn(table) \ {call.idx}
          /\ call.idx \in OccupiedIn(table)
        BY <2>1, <2>4, RemoveStep
    <3>2. count' = Cardinality(OccupiedIn(table'))
        BY <1>1, <2>4, <3>1, CountTyped, IndexSetSizes
    <3>3. count' \in 0 .. Capacity
        BY <3>1, <3>2, CountTyped
    <3> QED BY <2>1, <3>1, <3>2, <3>3, IdleIsCall
            DEF HashInv, TypeOK, WellFormed, CountIsOccupied, WalkFindsNearest, CallIsOwn
  <2> QED BY <1>5, <2>2, <2>3, <2>4 DEF GetFinds
<1>6. CASE GetMisses
  <2>1. table' = table /\ count' = count /\ table[call.idx].occupied = Unused /\ call.phase = "get"
      BY <1>6 DEF GetMisses, Here
  <2>2. CASE call.op # "insert" /\ Return(Missing)
      BY <2>1, <2>2, IdleIsCall
         DEF Return, HashInv, TypeOK, WellFormed, CountIsOccupied, WalkFindsNearest, CallIsOwn
  <2>3. CASE call.op = "insert" /\ call' = [call EXCEPT !.phase = "place", !.idx = Hash[call.key]]
    <3>1. Hash[call.key] \in Index
        BY <1>1, HashmapAssumption
    <3>2. /\ call' \in Calls /\ call'.phase = "place" /\ call'.idx = Hash[call.key]
          /\ call'.key = call.key /\ call'.op = call.op /\ call'.val = call.val
        BY <1>1, <2>3, <3>1 DEF Calls, Phases
    <3>3. GetReturns(table, call.key) /\ ~Present(table, call.key)
        BY <1>1, <2>1, MissShowsAbsence DEF HashInv, WalkFindsNearest
    <3>4. \A o \in PlaceStops(table, call.key) : Distance(call.key, Hash[call.key]) <= o
      <4>1. PlaceStops(table, call.key) \subseteq Index
          BY DEF PlaceStops
      <4> QED BY <1>1, <4>1, WalkStarts
    <3>5. WalkFindsNearest'
        BY <2>1, <3>2, <3>3, <3>4 DEF WalkFindsNearest
    <3>6. CallIsOwn'
        BY <2>1, <2>3, <3>2, <3>3 DEF HashInv, CallIsOwn
    <3> QED BY <2>1, <3>2, <3>5, <3>6 DEF HashInv, TypeOK, WellFormed, CountIsOccupied
  <2> QED BY <1>6, <2>2, <2>3 DEF GetMisses
<1>7. CASE PlaceWalks
  <2>1. call' = [call EXCEPT !.idx = Wrap(call.idx + 1)] /\ table' = table /\ count' = count
        /\ call.phase = "place"
      BY <1>7 DEF PlaceWalks, Walk
  <2>2. Wrap(call.idx + 1) \in Index
      BY <1>1, WalkDistance
  <2>3. /\ call' \in Calls /\ call'.phase = "place" /\ call'.key = call.key
        /\ call'.op = call.op /\ call'.val = call.val /\ call'.idx = Wrap(call.idx + 1)
      BY <1>1, <2>1, <2>2 DEF Calls
  <2>4. \A o \in PlaceStops(table, call.key) : Distance(call.key, Wrap(call.idx + 1)) <= o
    <3>1. PlaceStops(table, call.key) \subseteq Index
        BY DEF PlaceStops
    <3>2. Distance(call.key, call.idx) \notin PlaceStops(table, call.key)
        BY <1>1, <1>7, ProbeDistance DEF PlaceWalks, PlaceStops, Here
    <3> QED BY <1>1, <2>1, <3>1, <3>2, WalkOn DEF HashInv, WalkFindsNearest
  <2> QED BY <2>1, <2>3, <2>4
          DEF HashInv, TypeOK, WellFormed, CountIsOccupied, WalkFindsNearest, CallIsOwn
<1>8. CASE PlaceWrites
  <2>1. call' = Idle /\ count' = count + 1
      BY <1>8 DEF PlaceWrites, Return
  <2>2. /\ table' \in Tables /\ WellFormedTable(table')
        /\ OccupiedIn(table') = OccupiedIn(table) \cup {call.idx}
        /\ call.idx \in Index \ OccupiedIn(table)
      BY <1>8, PlaceStep
  <2>3. count' = Cardinality(OccupiedIn(table'))
      BY <1>1, <2>1, <2>2, CountTyped, IndexSetSizes
  <2>4. count' \in 0 .. Capacity
      BY <2>2, <2>3, CountTyped
  <2> QED BY <2>1, <2>2, <2>3, <2>4, IdleIsCall
          DEF HashInv, TypeOK, WellFormed, CountIsOccupied, WalkFindsNearest, CallIsOwn
<1> QED BY <1>2, <1>3, <1>4, <1>5, <1>6, <1>7, <1>8 DEF Next, Step

-----------------------------------------------------------------------------
(* The invariant that gives the results below.                              *)
LEMMA HashHolds == Spec => []HashInv
BY HashInit, HashStep, PTL DEF Spec

(* Type correctness: the walk stays within the table and the count between  *)
(* 0 and its capacity (cg_hashmap.c:39-50, 60-101).                         *)
THEOREM HashmapTyped == Spec => []TypeOK
<1>1. HashInv => TypeOK
    BY DEF HashInv
<1> QED BY <1>1, HashHolds, PTL

(* No sequence of insertions and deletions puts a key in two entries, cuts  *)
(* the chain a lookup follows or loses the count of occupied entries.       *)
THEOREM HashmapWellFormed == Spec => []WellFormed
<1>1. HashInv => WellFormed
    BY DEF HashInv
<1> QED BY <1>1, HashHolds, PTL

(* The walk never passes what the definition of a lookup says it finds, and *)
(* the search for a place only begins for a key that is absent.             *)
THEOREM WalksAreNearest == Spec => []WalkFindsNearest
<1>1. HashInv => WalkFindsNearest
    BY DEF HashInv
<1> QED BY <1>1, HashHolds, PTL

-----------------------------------------------------------------------------
(* What the abstract store sees of a table.                                 *)
Seen(t) ==
    [k \in Keys |->
       IF \E i \in Index : HoldsKey(t, i, k)
         THEN t[CHOOSE i \in Index : HoldsKey(t, i, k)].val
         ELSE Missing]

(* It is what the table maps each key to.                                   *)
LEMMA SeenOf ==
    ASSUME NEW t \in Tables, WellFormedTable(t), NEW k \in Keys
    PROVE  /\ \A v : MapsTo(t, k, v) => Seen(t)[k] = v
           /\ (\A v : ~MapsTo(t, k, v)) => Seen(t)[k] = Missing
<1>1. ASSUME NEW v, MapsTo(t, k, v)
      PROVE  Seen(t)[k] = v
  <2> DEFINE i == CHOOSE i \in Index : HoldsKey(t, i, k)
  <2>1. i \in Index /\ HoldsKey(t, i, k)
      BY <1>1 DEF MapsTo
  <2>2. MapsTo(t, k, t[i].val)
      BY <2>1 DEF MapsTo
  <2>3. t[i].val = v
      BY <1>1, <2>2, MapsToFound
  <2> QED BY <2>1, <2>3 DEF Seen
<1>2. ASSUME \A v : ~MapsTo(t, k, v)
      PROVE  Seen(t)[k] = Missing
    BY <1>2 DEF MapsTo, Seen
<1> QED BY <1>1, <1>2

(* A table that differs from t in what it maps k to, v or nothing, is seen  *)
(* to differ in that.                                                       *)
LEMMA SeenChanges ==
    ASSUME NEW t \in Tables, WellFormedTable(t), NEW d \in Tables, WellFormedTable(d),
           NEW k \in Keys, NEW v,
           \/ \A j \in Keys : \A w : MapsTo(d, j, w) <=> IF j = k THEN w = v ELSE MapsTo(t, j, w)
           \/ /\ v = Missing
              /\ \A j \in Keys : \A w : MapsTo(d, j, w) <=> j # k /\ MapsTo(t, j, w)
    PROVE  Seen(d) = [Seen(t) EXCEPT ![k] = v]
<1>1. Seen(d)[k] = v
  <2>1. CASE MapsTo(d, k, v)
      BY <2>1, SeenOf
  <2>2. CASE ~MapsTo(d, k, v)
      BY <2>2, SeenOf
  <2> QED BY <2>1, <2>2
<1>2. \A j \in Keys \ {k} : Seen(d)[j] = Seen(t)[j]
  <2> TAKE j \in Keys \ {k}
  <2>1. \A w : MapsTo(d, j, w) <=> MapsTo(t, j, w)
      OBVIOUS
  <2>2. CASE \E w : MapsTo(t, j, w)
      BY <2>1, <2>2, SeenOf
  <2>3. CASE \A w : ~MapsTo(t, j, w)
      BY <2>1, <2>3, SeenOf
  <2> QED BY <2>2, <2>3
<1> QED BY <1>1, <1>2 DEF Seen

(* The same of a table from which k is gone.                                *)
LEMMA SeenRemoves ==
    ASSUME NEW t \in Tables, WellFormedTable(t), NEW d \in Tables, WellFormedTable(d),
           NEW k \in Keys,
           \A j \in Keys : \A w : MapsTo(d, j, w) <=> j # k /\ MapsTo(t, j, w)
    PROVE  Seen(d) = [Seen(t) EXCEPT ![k] = Missing]
<1> DEFINE v == Missing
<1>1. v = Missing
    OBVIOUS
<1> HIDE DEF v
<1> QED BY <1>1, SeenChanges

(* The table implements KVStore: a call takes effect and answers in one     *)
(* step, the one that ends its last walk, as if the others were not there.  *)
THEOREM HashmapIsMap == Spec => ImplementsStore
<1>1. Init => Abstract!Init
  <2> SUFFICES ASSUME Init PROVE Abstract!Init
      OBVIOUS
  <2>1. OccupiedIn(table) = {}
    <3>1. \E e \in Entries : e.occupied = Unused
      <4>1. PICK k \in Keys, v \in Vals : TRUE
          BY HashmapAssumption
      <4>2. [occupied |-> Unused, key |-> k, val |-> v] \in Entries
          BY DEF Entries
      <4> QED BY <4>2
    <3> QED BY <3>1 DEF Init, UnusedEntry, OccupiedIn, Unused, Occupied
  <2>2. \A i \in Index : \A k : ~HoldsKey(table, i, k)
      BY <2>1 DEF OccupiedIn, HoldsKey
  <2> QED BY <2>2 DEF Init, Abstract!Init, Contents
<1>2. ASSUME HashInv, [Next]_vars
      PROVE  [Abstract!Next]_<<Contents, answer>>
  <2>1. /\ table \in Tables /\ WellFormedTable(table)
        /\ call.key \in Keys /\ call.idx \in Index
        /\ call.op \in {"get", "insert", "delete"}
      BY <1>2 DEF HashInv, TypeOK, WellFormed, Calls
  <2>2. Contents = Seen(table) /\ Contents' = Seen(table')
      BY DEF Contents, Seen
  <2>3. CASE UNCHANGED <<table, answer>>
    <3>1. Contents' = Contents
        BY <2>2, <2>3
    <3> QED BY <2>3, <3>1
  <2>4. CASE GetFinds
    <3>1. /\ call.phase = "get" /\ HoldsKey(table, call.idx, call.key)
          /\ answer' = <<call.op, call.key, call.val, table[call.idx].val>>
        BY <2>4 DEF GetFinds, Return, Here
    <3>2. Contents[call.key] = table[call.idx].val
      <4>1. MapsTo(table, call.key, table[call.idx].val)
          BY <2>1, <3>1 DEF MapsTo
      <4> QED BY <2>1, <2>2, <4>1, SeenOf
    <3>3. CASE call.op = "get" /\ UNCHANGED <<table, count>>
      <4>1. call.val = Missing /\ Contents' = Contents
          BY <1>2, <2>2, <3>1, <3>3 DEF HashInv, CallIsOwn
      <4>2. Abstract!Look(call.key)
          BY <3>1, <3>2, <3>3, <4>1 DEF Abstract!Look
      <4> QED BY <2>1, <4>2 DEF Abstract!Next
    <3>4. CASE call.op = "insert" /\ table' = [table EXCEPT ![call.idx].val = call.val]
      <4>1. call.val \in Vals
          BY <1>2, <3>1, <3>4 DEF HashInv, CallIsOwn
      <4>2. /\ table' \in Tables /\ WellFormedTable(table')
            /\ \A j \in Keys : \A w : MapsTo(table', j, w) <=>
                 IF j = call.key THEN w = call.val ELSE MapsTo(table, j, w)
          BY <1>2, <3>1, <3>4, SetStep
      <4>3. Contents' = [Contents EXCEPT ![call.key] = call.val]
          BY <2>1, <2>2, <4>2, SeenChanges, SMTT(30)
      <4>4. Abstract!Set(call.key, call.val)
          BY <3>1, <3>2, <3>4, <4>3 DEF Abstract!Set
      <4> QED BY <2>1, <4>1, <4>4 DEF Abstract!Next
    <3>5. CASE call.op = "delete" /\ table' = [table EXCEPT ![call.idx].occupied = Tombstone]
      <4>1. call.val = Missing
          BY <1>2, <3>1, <3>5 DEF HashInv, CallIsOwn
      <4>2. /\ table' \in Tables /\ WellFormedTable(table')
            /\ \A j \in Keys : \A w : MapsTo(table', j, w) <=>
                                        j # call.key /\ MapsTo(table, j, w)
          BY <1>2, <3>1, <3>5, RemoveStep
      <4>3. Contents' = [Contents EXCEPT ![call.key] = Missing]
          BY <2>1, <2>2, <4>2, SeenRemoves
      <4>4. Abstract!Remove(call.key)
          BY <3>1, <3>2, <3>5, <4>1, <4>3 DEF Abstract!Remove
      <4> QED BY <2>1, <4>4 DEF Abstract!Next
    <3> QED BY <2>4, <3>3, <3>4, <3>5 DEF GetFinds
  <2>5. CASE GetMisses
    <3>1. call.phase = "get" /\ table[call.idx].occupied = Unused /\ table' = table
        BY <2>5 DEF GetMisses, Here
    <3>2. CASE call.op = "insert"
        BY <2>3, <2>5, <3>1, <3>2 DEF GetMisses
    <3>3. CASE call.op # "insert"
      <4>1. answer' = <<call.op, call.key, call.val, Missing>> /\ call.val = Missing
          BY <1>2, <2>5, <3>1, <3>3 DEF GetMisses, Return, HashInv, CallIsOwn
      <4>2. ~Present(table, call.key)
          BY <1>2, <2>1, <3>1, MissShowsAbsence DEF HashInv, WalkFindsNearest
      <4>3. Contents[call.key] = Missing
          BY <2>1, <2>2, <4>2, SeenOf, MapsToFound
      <4>4. Contents' = Contents /\ Contents = [Contents EXCEPT ![call.key] = Missing]
          BY <2>1, <2>2, <3>1, <4>3 DEF Contents
      <4>5. Abstract!Look(call.key) \/ Abstract!Remove(call.key)
          BY <2>1, <3>3, <4>1, <4>3, <4>4 DEF Abstract!Look, Abstract!Remove
      <4> QED BY <2>1, <4>5 DEF Abstract!Next
    <3> QED BY <3>2, <3>3
  <2>6. CASE PlaceWrites
    <3>1. /\ call.op = "insert" /\ call.val \in Vals
          /\ answer' = <<"insert", call.key, call.val, Missing>>
        BY <1>2, <2>6 DEF PlaceWrites, Return, HashInv, CallIsOwn
    <3>2. /\ table' \in Tables /\ WellFormedTable(table') /\ ~Present(table, call.key)
          /\ \A j \in Keys : \A w : MapsTo(table', j, w) <=>
               IF j = call.key THEN w = call.val ELSE MapsTo(table, j, w)
        BY <1>2, <2>6, PlaceStep
    <3>3. Contents[call.key] = Missing
        BY <2>1, <2>2, <3>2, SeenOf, MapsToFound
    <3>4. Contents' = [Contents EXCEPT ![call.key] = call.val]
        BY <2>1, <2>2, <3>2, SeenChanges, SMTT(30)
    <3>5. Abstract!Set(call.key, call.val)
        BY <3>1, <3>3, <3>4 DEF Abstract!Set
    <3> QED BY <2>1, <3>1, <3>5 DEF Abstract!Next
  <2> QED
    BY <1>2, <2>3, <2>4, <2>5, <2>6
       DEF Next, Step, vars, Call, GetWalks, PlaceWalks, Walk
<1> QED BY <1>1, <1>2, HashHolds, PTL DEF Spec, ImplementsStore, Abstract!Spec
=============================================================================
