--------------------------- MODULE HashmapOpsProofs ---------------------------
(***************************************************************************)
(* Lemmas about the table of HashmapOps, for any capacity, any keys and    *)
(* any hash function: what a lookup, an insertion and a deletion do to a   *)
(* well-formed table.                                                      *)
(***************************************************************************)
EXTENDS HashmapOps, FiniteSetTheorems, WellFoundedInduction, TLAPS

(* A set of naturals that is not empty has a least element.                 *)
LEMMA LeastNatural ==
    ASSUME NEW T, T \subseteq Nat, T # {}
    PROVE  \E x \in T : \A y \in T : x <= y
<1> DEFINE R == OpToRel(<, Nat)
<1>1. IsWellFoundedOn(R, Nat)
    BY NatLessThanWellFounded
<1>2. \A x, y \in Nat : <<x, y>> \in R <=> x < y
    BY DEF OpToRel
<1> HIDE DEF R
<1>3. PICK x \in T : \A y \in T : ~(<<y, x>> \in R)
    BY <1>1, WFMin
<1>4. x \in Nat /\ \A y \in T : y \in Nat /\ ~(y < x)
    BY <1>2, <1>3
<1>5. \A y \in T : x <= y
    BY <1>4
<1> QED BY <1>5

(* Walking o steps from a key's hash and measuring how far one has walked   *)
(* are inverse, round the end of the table too.                             *)
LEMMA ProbeDistance ==
    ASSUME NEW k \in Keys
    PROVE  /\ \A o \in Index : Probe(k, o) \in Index /\ Distance(k, Probe(k, o)) = o
           /\ \A i \in Index : Distance(k, i) \in Index /\ Probe(k, Distance(k, i)) = i
<1>1. Capacity \in Nat \ {0} /\ Hash[k] \in Index
    BY HashmapAssumption
<1>2. \A o \in Index : Probe(k, o) \in Index /\ Distance(k, Probe(k, o)) = o
    BY <1>1 DEF Probe, Distance, Wrap, Index
<1>3. \A i \in Index : Distance(k, i) \in Index /\ Probe(k, Distance(k, i)) = i
    BY <1>1 DEF Probe, Distance, Wrap, Index
<1> QED BY <1>2, <1>3

(* The nearest of some distances is one of them and no farther than any,    *)
LEMMA NearestOf ==
    ASSUME NEW S, S \subseteq Index, S # {}
    PROVE  Nearest(S) \in S /\ \A o \in S : Nearest(S) <= o
<1>1. S \subseteq Nat
    BY HashmapAssumption DEF Index
<1>2. \E x \in S : \A y \in S : x <= y
    BY <1>1, LeastNatural
<1> QED BY <1>2 DEF Nearest

(* so that it is the one of them that is no farther than any.               *)
LEMMA NearestIs ==
    ASSUME NEW S, S \subseteq Index, NEW d \in S, \A o \in S : d <= o
    PROVE  Nearest(S) = d
<1>1. Nearest(S) \in S /\ Nearest(S) <= d /\ d <= Nearest(S)
    BY NearestOf
<1>2. \A x \in Index : x \in Int
    BY HashmapAssumption DEF Index
<1>3. Nearest(S) \in Int /\ d \in Int
    BY <1>1, <1>2
<1> QED BY <1>1, <1>3

(* Sets of indices, and what one more or one less does to their size.       *)
LEMMA IndexSetSizes ==
    ASSUME NEW S, S \subseteq Index
    PROVE  /\ Cardinality(S) \in Nat /\ Cardinality(S) <= Capacity
           /\ \A x \in S : Cardinality(S \ {x}) = Cardinality(S) - 1
           /\ \A x \in Index \ S : Cardinality(S \cup {x}) = Cardinality(S) + 1
           /\ S = {} => Cardinality(S) = 0
           /\ S # {} => Cardinality(S) > 0
<1>1. IsFiniteSet(Index) /\ Cardinality(Index) = Capacity
    BY HashmapAssumption, FS_Interval DEF Index
<1>2. IsFiniteSet(S) /\ Cardinality(S) \in Nat /\ Cardinality(S) <= Capacity
    BY <1>1, FS_Subset, FS_CardinalityType
<1>3. S = {} <=> Cardinality(S) = 0
    BY <1>2, FS_EmptySet
<1> QED BY <1>2, <1>3, FS_RemoveElement, FS_AddElement

-----------------------------------------------------------------------------
(* In a well-formed table a lookup finds its key wherever it is,            *)
LEMMA LookupFinds ==
    ASSUME NEW t \in Tables, WellFormedTable(t), NEW k \in Keys,
           NEW i \in Index, HoldsKey(t, i, k)
    PROVE  Present(t, k) /\ SlotOf(t, k) = i
<1> DEFINE S == GetStops(t, k)
           n == Nearest(S)
<1>1. Distance(k, i) \in S
    BY ProbeDistance DEF GetStops
<1>2. n \in S /\ n <= Distance(k, i)
  <2>1. S \subseteq Index
      BY DEF GetStops
  <2> HIDE DEF S
  <2> QED BY <1>1, <2>1, NearestOf
<1>3. n \in Index /\ Distance(k, i) \in Index
    BY <1>2, ProbeDistance DEF GetStops
<1>4. Probe(k, n) = i
  <2>1. CASE n < Distance(k, i)
    <3>1. i \in OccupiedIn(t) /\ t[i].key = k
        BY DEF OccupiedIn, HoldsKey
    <3>2. t[Probe(k, n)].occupied # Unused
        BY <1>3, <2>1, <3>1 DEF WellFormedTable, ChainUnbrokenIn
    <3>3. HoldsKey(t, Probe(k, n), k) /\ Probe(k, n) \in Index
        BY <1>2, <1>3, <3>2, ProbeDistance DEF GetStops
    <3> QED BY <3>1, <3>3 DEF WellFormedTable, KeyOnceIn, OccupiedIn, HoldsKey
  <2>2. CASE n = Distance(k, i)
      BY <2>2, ProbeDistance
  <2>3. n < Distance(k, i) \/ n = Distance(k, i)
      BY <1>2, <1>3, HashmapAssumption DEF Index
  <2> QED BY <2>1, <2>2, <2>3
<1> QED BY <1>2, <1>4 DEF Present, GetReturns, SlotOf

(* and says that it is present only of a key that is.                       *)
LEMMA PresentHolds ==
    ASSUME NEW t \in Tables, NEW k \in Keys, GetReturns(t, k)
    PROVE  /\ SlotOf(t, k) \in Index
           /\ ~Present(t, k) => t[SlotOf(t, k)].occupied = Unused
           /\ Present(t, k) => HoldsKey(t, SlotOf(t, k), k)
<1>1. GetStops(t, k) \subseteq Index /\ GetStops(t, k) # {}
    BY DEF GetStops, GetReturns
<1>2. Nearest(GetStops(t, k)) \in GetStops(t, k)
    BY <1>1, NearestOf
<1>3. SlotOf(t, k) \in Index
    BY <1>1, <1>2, ProbeDistance DEF SlotOf
<1> QED BY <1>2, <1>3 DEF Present, GetStops, SlotOf

-----------------------------------------------------------------------------
(* What a table maps a key to.                                              *)
MapsTo(t, k, v) == \E i \in Index : HoldsKey(t, i, k) /\ t[i].val = v

(* A well-formed table maps a key to one value, which a lookup finds.       *)
LEMMA MapsToFound ==
    ASSUME NEW t \in Tables, WellFormedTable(t), NEW k \in Keys, NEW v, MapsTo(t, k, v)
    PROVE  /\ Present(t, k) /\ t[SlotOf(t, k)].val = v
           /\ \A w : MapsTo(t, k, w) => w = v
BY LookupFinds DEF MapsTo

(* A deletion takes its key out of the table and leaves the others.         *)
LEMMA DeleteRemoves ==
    ASSUME NEW t \in Tables, WellFormedTable(t), NEW k \in Keys, Present(t, k)
    PROVE  /\ Delete(t, k) \in Tables /\ WellFormedTable(Delete(t, k))
           /\ \A j \in Keys : \A v : MapsTo(Delete(t, k), j, v) <=> j # k /\ MapsTo(t, j, v)
           /\ OccupiedIn(Delete(t, k)) = OccupiedIn(t) \ {SlotOf(t, k)}
           /\ SlotOf(t, k) \in OccupiedIn(t)
<1> DEFINE s == SlotOf(t, k)
           d == Delete(t, k)
<1>1. s \in Index /\ t[s].occupied = Occupied /\ t[s].key = k
    BY PresentHolds DEF Present, HoldsKey
<1>2. d = [t EXCEPT ![s].occupied = Tombstone]
    BY DEF Delete
<1>3. /\ \A i \in Index : t[i] \in Entries
      /\ \A i \in Index \ {s} : d[i] = t[i]
      /\ d[s].occupied = Tombstone /\ d[s].key = k /\ d[s].val = t[s].val
    BY <1>1, <1>2 DEF Tables, Entries
<1>4. d \in Tables
    BY <1>1, <1>2 DEF Tables, Entries
<1> HIDE DEF d, s
<1>5. Tombstone # Occupied /\ Tombstone # Unused
    BY DEF Tombstone, Occupied, Unused
<1>6. OccupiedIn(d) = OccupiedIn(t) \ {s} /\ s \in OccupiedIn(t)
    BY <1>1, <1>3, <1>5 DEF OccupiedIn
<1>7. KeyOnceIn(d)
    BY <1>3, <1>6 DEF KeyOnceIn, WellFormedTable, OccupiedIn
<1>8. ChainUnbrokenIn(d)
  <2> SUFFICES ASSUME NEW i \in OccupiedIn(d), NEW o \in Index, o < Distance(d[i].key, i)
               PROVE  d[Probe(d[i].key, o)].occupied # Unused
      BY DEF ChainUnbrokenIn
  <2>1. i \in OccupiedIn(t) /\ i \in Index /\ d[i] = t[i] /\ t[i].key \in Keys
      BY <1>3, <1>6 DEF OccupiedIn, Entries
  <2>2. Probe(t[i].key, o) \in Index
      BY <2>1, ProbeDistance
  <2>3. t[Probe(t[i].key, o)].occupied # Unused
      BY <2>1 DEF WellFormedTable, ChainUnbrokenIn
  <2> QED BY <1>3, <1>5, <2>1, <2>2, <2>3
<1>9. \A j \in Keys : \A v : MapsTo(d, j, v) <=> j # k /\ MapsTo(t, j, v)
  <2>1. \A i \in Index : HoldsKey(t, i, k) => i = s
      BY LookupFinds DEF s
  <2> QED BY <1>1, <1>3, <1>5, <2>1 DEF MapsTo, HoldsKey
<1> QED BY <1>4, <1>6, <1>7, <1>8, <1>9 DEF WellFormedTable, d, s

(* An insertion of a key that is absent adds it, in an entry of its own, and*)
(* leaves the others.                                                       *)
LEMMA InsertAdds ==
    ASSUME NEW t \in Tables, WellFormedTable(t), NEW k \in Keys, NEW v \in Vals,
           GetReturns(t, k), ~Present(t, k)
    PROVE  /\ Insert(t, k, v) \in Tables /\ WellFormedTable(Insert(t, k, v))
           /\ \A j \in Keys : \A w : MapsTo(Insert(t, k, v), j, w) <=>
                                   IF j = k THEN w = v ELSE MapsTo(t, j, w)
           /\ PlaceFor(t, k) \in Index \ OccupiedIn(t)
           /\ OccupiedIn(Insert(t, k, v)) = OccupiedIn(t) \cup {PlaceFor(t, k)}
<1> DEFINE p == PlaceFor(t, k)
           d == Insert(t, k, v)
           S == PlaceStops(t, k)
           n == Nearest(S)
<1>1. n \in S /\ n \in Index /\ \A o \in S : n <= o
  <2>1. SlotOf(t, k) \in Index /\ t[SlotOf(t, k)].occupied = Unused
      BY PresentHolds
  <2>2. Distance(k, SlotOf(t, k)) \in S
      BY <2>1, ProbeDistance DEF PlaceStops, Unused, Occupied
  <2>3. S \subseteq Index
      BY DEF PlaceStops
  <2> HIDE DEF S
  <2> QED BY <2>2, <2>3, NearestOf
<1>2. p = Probe(k, n) /\ p \in Index /\ t[p].occupied # Occupied /\ Distance(k, p) = n
    BY <1>1, ProbeDistance DEF PlaceFor, PlaceStops
<1>3. \A o \in Index : o < n => t[Probe(k, o)].occupied = Occupied
  <2> SUFFICES ASSUME NEW o \in Index, o < n PROVE o \notin S
      BY DEF PlaceStops
  <2>1. ~(n <= o)
      BY <1>1, HashmapAssumption DEF Index
  <2> QED BY <1>1, <2>1
<1>4. d = [t EXCEPT ![p] = [occupied |-> Occupied, key |-> k, val |-> v]]
    BY DEF Insert
<1>5. /\ \A i \in Index : t[i] \in Entries
      /\ \A i \in Index \ {p} : d[i] = t[i]
      /\ d[p].occupied = Occupied /\ d[p].key = k /\ d[p].val = v
    BY <1>2, <1>4 DEF Tables
<1>6. d \in Tables
    BY <1>2, <1>4 DEF Tables, Entries
<1>7. \A i \in Index : ~HoldsKey(t, i, k)
    BY LookupFinds
<1> HIDE DEF d, p, n, S
<1>8. OccupiedIn(d) = OccupiedIn(t) \cup {p} /\ p \notin OccupiedIn(t)
    BY <1>2, <1>5 DEF OccupiedIn
<1>9. KeyOnceIn(d)
  <2> SUFFICES ASSUME NEW i \in OccupiedIn(d), NEW j \in OccupiedIn(d), d[i].key = d[j].key
               PROVE  i = j
      BY DEF KeyOnceIn
  <2>1. \A l \in OccupiedIn(t) : l \in Index /\ d[l] = t[l] /\ t[l].key # k
      BY <1>5, <1>7, <1>8 DEF OccupiedIn, HoldsKey
  <2> QED BY <1>5, <1>8, <2>1 DEF KeyOnceIn, WellFormedTable
<1>10. ChainUnbrokenIn(d)
  <2> SUFFICES ASSUME NEW i \in OccupiedIn(d), NEW o \in Index, o < Distance(d[i].key, i)
               PROVE  d[Probe(d[i].key, o)].occupied # Unused
      BY DEF ChainUnbrokenIn
  <2>1. Occupied # Unused
      BY DEF Occupied, Unused
  <2>2. CASE i = p
    <3>1. Probe(k, o) \in Index /\ t[Probe(k, o)].occupied = Occupied
        BY <1>2, <1>3, <1>5, <2>2, ProbeDistance
    <3> QED BY <1>5, <2>1, <2>2, <3>1
  <2>3. CASE i # p
    <3>1. i \in OccupiedIn(t) /\ d[i] = t[i] /\ t[i].key \in Keys
        BY <1>5, <1>8, <2>3 DEF OccupiedIn, Entries
    <3>2. Probe(t[i].key, o) \in Index /\ t[Probe(t[i].key, o)].occupied # Unused
        BY <3>1, ProbeDistance DEF WellFormedTable, ChainUnbrokenIn
    <3> QED BY <1>5, <2>1, <3>1, <3>2
  <2> QED BY <2>2, <2>3
<1>11. \A j \in Keys : \A w : MapsTo(d, j, w) <=> IF j = k THEN w = v ELSE MapsTo(t, j, w)
  <2>1. HoldsKey(d, p, k) /\ \A j : j # k => ~HoldsKey(d, p, j)
      BY <1>5 DEF HoldsKey
  <2>2. \A j : ~HoldsKey(t, p, j)
      BY <1>2 DEF HoldsKey
  <2>3. \A i \in Index \ {p} : \A j : HoldsKey(d, i, j) <=> HoldsKey(t, i, j)
      BY <1>5 DEF HoldsKey
  <2> QED BY <1>2, <1>5, <1>7, <2>1, <2>2, <2>3 DEF MapsTo
<1> QED BY <1>2, <1>6, <1>8, <1>9, <1>10, <1>11 DEF WellFormedTable, d, p

(* An entry given another value.                                            *)
SetAt(t, i, v) == [t EXCEPT ![i].val = v]

(* A new value for a key that is there is all that changes in the map.      *)
LEMMA SetSets ==
    ASSUME NEW t \in Tables, WellFormedTable(t), NEW k \in Keys, NEW v \in Vals,
           NEW i \in Index, HoldsKey(t, i, k)
    PROVE  /\ SetAt(t, i, v) \in Tables /\ WellFormedTable(SetAt(t, i, v))
           /\ OccupiedIn(SetAt(t, i, v)) = OccupiedIn(t)
           /\ \A j \in Keys : \A w : MapsTo(SetAt(t, i, v), j, w) <=>
                                        IF j = k THEN w = v ELSE MapsTo(t, j, w)
<1> DEFINE d == SetAt(t, i, v)
<1>1. /\ d \in Tables /\ d[i].val = v
      /\ \A j \in Index : d[j].occupied = t[j].occupied /\ d[j].key = t[j].key
      /\ \A j \in Index \ {i} : d[j] = t[j]
    BY DEF SetAt, Tables, Entries
<1> HIDE DEF d
<1>2. OccupiedIn(d) = OccupiedIn(t)
    BY <1>1 DEF OccupiedIn
<1>3. KeyOnceIn(d)
    BY <1>1, <1>2 DEF WellFormedTable, KeyOnceIn, OccupiedIn
<1>4. ChainUnbrokenIn(d)
  <2> SUFFICES ASSUME NEW j \in OccupiedIn(d), NEW o \in Index, o < Distance(d[j].key, j)
               PROVE  d[Probe(d[j].key, o)].occupied # Unused
      BY DEF ChainUnbrokenIn
  <2>1. j \in Index /\ t[j].key \in Keys /\ d[j].key = t[j].key
      BY <1>1 DEF OccupiedIn, Tables, Entries
  <2>2. Probe(t[j].key, o) \in Index
      BY <2>1, ProbeDistance
  <2>3. t[Probe(t[j].key, o)].occupied # Unused
      BY <1>2, <2>1 DEF WellFormedTable, ChainUnbrokenIn
  <2> QED BY <1>1, <2>1, <2>2, <2>3
<1>5. \A j \in Keys : \A w : MapsTo(d, j, w) <=> IF j = k THEN w = v ELSE MapsTo(t, j, w)
  <2>1. \A j \in Index : HoldsKey(t, j, k) => j = i
      BY LookupFinds
  <2> QED BY <1>1, <2>1 DEF MapsTo, HoldsKey
<1> QED BY <1>1, <1>2, <1>3, <1>4, <1>5 DEF WellFormedTable, d
=============================================================================
