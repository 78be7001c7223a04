--------------------------- MODULE SessionDBProofs ---------------------------
(***************************************************************************)
(* The session database keeps what it promises, for any number of sessions *)
(* and entries, any hash function and any number of crashes: the table is  *)
(* always a map, and, when no crash meets a deletion, the file is sound    *)
(* between any two writes and the database implements SessionStore.        *)
(***************************************************************************)
EXTENDS SessionDB, HashmapOpsProofs

(* Table t maps session s to entry i.                                       *)
Leads(t, s, i) == \E j \in OccupiedIn(t) : t[j].key = s /\ t[j].val = i
KeyIn(t, s)    == \E j \in OccupiedIn(t) : t[j].key = s

(* The lemmas about the table say it with MapsTo.                           *)
LEMMA SameMap == \A t, s, i : Leads(t, s, i) <=> MapsTo(t, s, i)
BY DEF Leads, MapsTo, HoldsKey, OccupiedIn

(* The indices of the table and of the pool are the same.                   *)
LEMMA Indices == PoolIndex = Index /\ Vals = Index /\ Sids = Keys
BY SessionDBAssumption DEF PoolIndex, PoolSize, Index, Sids

(* In a table that is a map, a key leads to one entry, which a lookup       *)
(* returns.                                                                 *)
LEMMA KeyLeads ==
    ASSUME NEW t \in Tables, WellFormedTable(t), NEW s \in Sids
    PROVE  /\ KeyIn(t, s) <=> \E i \in PoolIndex : Leads(t, s, i)
           /\ Present(t, s) <=> KeyIn(t, s)
           /\ Present(t, s) => /\ t[SlotOf(t, s)].val \in PoolIndex
                               /\ Leads(t, s, t[SlotOf(t, s)].val)
           /\ \A i, j : Leads(t, s, i) /\ Leads(t, s, j) => i = j
<1>1. \A j \in OccupiedIn(t) : t[j].val \in PoolIndex
    BY Indices DEF OccupiedIn, Tables, Entries
<1>2. KeyIn(t, s) <=> \E i \in PoolIndex : Leads(t, s, i)
    BY <1>1 DEF KeyIn, Leads
<1>3. \A i : Leads(t, s, i) => /\ Present(t, s)
                               /\ \A j : Leads(t, s, j) => j = i
    BY Indices, SameMap, MapsToFound
<1>4. Present(t, s) => Leads(t, s, t[SlotOf(t, s)].val) /\ t[SlotOf(t, s)].val \in PoolIndex
  <2>1. SUFFICES ASSUME Present(t, s)
                 PROVE  SlotOf(t, s) \in OccupiedIn(t) /\ t[SlotOf(t, s)].key = s
      BY <1>1 DEF Leads
  <2>2. SlotOf(t, s) \in Index /\ HoldsKey(t, SlotOf(t, s), s)
      BY <2>1, Indices, PresentHolds DEF Present
  <2> QED BY <2>2 DEF HoldsKey, OccupiedIn
<1> QED BY <1>2, <1>3, <1>4

(* An insertion of a new session adds it to the map,                        *)
LEMMA InsertLeads ==
    ASSUME NEW t \in Tables, WellFormedTable(t), NEW s \in Sids, NEW i \in PoolIndex,
           GetReturns(t, s), ~KeyIn(t, s)
    PROVE  /\ Insert(t, s, i) \in Tables /\ WellFormedTable(Insert(t, s, i))
           /\ \A r \in Sids : \A j : Leads(Insert(t, s, i), r, j) <=>
                                       IF r = s THEN j = i ELSE Leads(t, r, j)
           /\ \E p \in PoolIndex \ OccupiedIn(t) :
                OccupiedIn(Insert(t, s, i)) = OccupiedIn(t) \cup {p}
<1>1. ~Present(t, s)
    BY KeyLeads
<1> QED BY <1>1, Indices, SameMap, InsertAdds

(* and a deletion takes it out.                                             *)
LEMMA DeleteLeads ==
    ASSUME NEW t \in Tables, WellFormedTable(t), NEW s \in Sids
    PROVE  /\ Delete(t, s) \in Tables /\ WellFormedTable(Delete(t, s))
           /\ \A r \in Sids : \A j : Leads(Delete(t, s), r, j) <=> r # s /\ Leads(t, r, j)
           /\ KeyIn(t, s) => \E p \in OccupiedIn(t) :
                               OccupiedIn(Delete(t, s)) = OccupiedIn(t) \ {p}
<1>1. CASE Present(t, s)
    BY <1>1, Indices, SameMap, DeleteRemoves
<1>2. CASE ~Present(t, s)
  <2>1. Delete(t, s) = t /\ ~KeyIn(t, s)
      BY <1>2, KeyLeads DEF Delete
  <2>2. \A j : ~Leads(t, s, j)
      BY <2>1 DEF KeyIn, Leads
  <2> QED BY <2>1, <2>2
<1> QED BY <1>1, <1>2

-----------------------------------------------------------------------------
(* What holds whether or not a crash meets a deletion.  The locals of the   *)
(* call in progress,                                                        *)
Ops ==
    {NoOp}
    \cup [phase : {"claim"}, sid : Sids, uid : Uids]
    \cup [phase : {"fill", "map", "count"}, sid : Sids, uid : Uids, idx : PoolIndex]
    \cup [phase : {"deactivate", "unmap", "uncount"}, sid : Sids, idx : PoolIndex]

TypeInv ==
    /\ file \in {"empty", "sized", "ready"}
    /\ table \in Tables
    /\ entryCount \in 0 .. (CountMod - 1)
    /\ pool \in [PoolIndex -> PoolEntries]
    /\ proc \in {"down", "new", "up", "rejected"}
    /\ mapCount \in 0 .. (CountMod - 1)
    /\ op \in Ops
    /\ crashes \in 0 .. MaxCrashes

ActiveSet == {i \in PoolIndex : pool[i].active}

(* the stages of a start: until the header is written there is no session,  *)
(* and only a process that is up is in a call,                              *)
Started ==
    /\ proc = "new" => file = "sized"
    /\ proc = "up" => file = "ready"
    /\ proc # "up" => op = NoOp
    /\ file # "ready" =>
         OccupiedIn(table) = {} /\ ActiveSet = {} /\ entryCount = 0

(* and a session that is being created is not mapped until CreateMaps.      *)
NewIsUnmapped ==
    op.phase \in {"claim", "fill", "map"} => ~KeyIn(table, op.sid)

TableInv == TypeInv /\ Started /\ TableIsMap /\ NewIsUnmapped

(* What holds when no crash meets a deletion.  A mapped session leads to an *)
(* entry filled for it, which is active except while it is deleted;         *)
Owned ==
    \A s \in Sids : \A i \in PoolIndex : Leads(table, s, i) =>
      /\ pool[i].sid = s /\ pool[i].uid \in Uids
      /\ pool[i].active \/ Deleting(s)

(* the entry of the call in progress is its own: claimed and not mapped to, *)
(* or the one the session leads to;                                         *)
Reserved ==
    /\ op.phase \in {"fill", "map"} =>
         pool[op.idx].active /\ \A s \in Sids : ~Leads(table, s, op.idx)
    /\ op.phase = "map" => pool[op.idx].sid = op.sid /\ pool[op.idx].uid = op.uid
    /\ op.phase \in {"deactivate", "unmap"} => Leads(table, op.sid, op.idx)
    /\ op.phase = "unmap" => ~pool[op.idx].active

(* and the counters are out by what the call in progress has not yet        *)
(* written, and by one entry for every crash.                               *)
Counts ==
    LET mapped == Cardinality(OccupiedIn(table))
        active == Cardinality(ActiveSet)
        claims == IF op.phase \in {"fill", "map"} THEN 1 ELSE 0
        counts == IF op.phase = "count" THEN 1 ELSE 0
    IN  /\ op.phase \notin {"deactivate", "unmap", "uncount"} =>
             /\ entryCount + counts <= mapped
             /\ mapped + claims <= active
             /\ active <= entryCount + counts + claims + crashes
             /\ proc = "up" => mapCount = entryCount + counts
        /\ op.phase \in {"claim", "fill", "map"} => mapCount < PoolSize
        /\ op.phase \in {"deactivate", "unmap", "uncount"} => crashes = 0
        /\ op.phase \in {"deactivate", "unmap"} => mapCount = entryCount /\ entryCount = mapped
        /\ op.phase = "deactivate" => active = mapped
        /\ op.phase = "unmap" => active + 1 = mapped
        /\ op.phase = "uncount" =>
             mapCount = mapped /\ active = mapped /\ entryCount = mapped + 1

StoreInv == TableInv /\ Owned /\ Reserved /\ Counts

-----------------------------------------------------------------------------
(* The fields a call has in each of its phases.                             *)
LEMMA OpFields ==
    ASSUME op \in Ops
    PROVE  /\ op.phase \in Phases
           /\ op.phase = "idle" => op = NoOp
           /\ op.phase = "claim" => op.sid \in Sids /\ op.uid \in Uids
           /\ op.phase \in {"fill", "map", "count"} =>
                op.sid \in Sids /\ op.uid \in Uids /\ op.idx \in PoolIndex
           /\ op.phase \in {"deactivate", "unmap", "uncount"} =>
                op.sid \in Sids /\ op.idx \in PoolIndex
BY DEF Ops, NoOp, Phases

(* A creation that goes on to its next phase keeps its fields,              *)
LEMMA CreateMovesOn ==
    ASSUME op \in Ops, op.phase \in {"fill", "map"}, NEW p \in {"map", "count"},
           op' = [op EXCEPT !.phase = p]
    PROVE  op' \in Ops /\ op'.phase = p /\ op'.sid = op.sid
           /\ op'.uid = op.uid /\ op'.idx = op.idx
<1>1. op \in [phase : {"fill", "map", "count"}, sid : Sids, uid : Uids, idx : PoolIndex]
    BY DEF Ops, NoOp
<1> QED BY <1>1 DEF Ops

(* and so does a deletion.                                                  *)
LEMMA DeleteMovesOn ==
    ASSUME op \in Ops, op.phase \in {"deactivate", "unmap"}, NEW p \in {"unmap", "uncount"},
           op' = [op EXCEPT !.phase = p]
    PROVE  op' \in Ops /\ op'.phase = p /\ op'.sid = op.sid /\ op'.idx = op.idx
<1>1. op \in [phase : {"deactivate", "unmap", "uncount"}, sid : Sids, idx : PoolIndex]
    BY DEF Ops, NoOp
<1> QED BY <1>1 DEF Ops

(* Zeroed memory holds no session.                                          *)
LEMMA ZeroedFile ==
    /\ ZeroTable \in Tables /\ OccupiedIn(ZeroTable) = {}
    /\ ZeroPool \in [PoolIndex -> PoolEntries] /\ \A i \in PoolIndex : ~ZeroPool[i].active
<1>1. PICK s \in Sids : TRUE
    BY HashmapAssumption DEF Sids
<1>2. 0 \in Vals
    BY Indices, HashmapAssumption DEF Index
<1>3. \E e \in Entries : e.occupied = Unused
  <2>1. [occupied |-> Unused, key |-> s, val |-> 0] \in Entries
      BY <1>1, <1>2, Indices DEF Entries
  <2> QED BY <2>1
<1>4. \E e \in PoolEntries : ~e.active /\ e.uid = NoUid
  <2>1. [active |-> FALSE, sid |-> s, uid |-> NoUid] \in PoolEntries
      BY <1>1 DEF PoolEntries
  <2> QED BY <2>1
<1>5. ZeroTable \in Tables /\ \A i \in Index : ZeroTable[i].occupied = Unused
    BY <1>3 DEF ZeroTable, Tables
<1>6. ZeroPool \in [PoolIndex -> PoolEntries] /\ \A i \in PoolIndex : ~ZeroPool[i].active
    BY <1>4 DEF ZeroPool
<1> QED BY <1>5, <1>6 DEF OccupiedIn, Occupied, Unused

(* A table without occupied entries is a map.                               *)
LEMMA EmptyIsMap ==
    ASSUME NEW t, OccupiedIn(t) = {}
    PROVE  WellFormedTable(t) /\ \A s : ~KeyIn(t, s)
BY DEF WellFormedTable, KeyOnceIn, ChainUnbrokenIn, KeyIn

(* The counters stay counters.                                              *)
LEMMA CounterTyped ==
    ASSUME NEW n \in 0 .. (CountMod - 1)
    PROVE  /\ (n + 1) % CountMod \in 0 .. (CountMod - 1)
           /\ (n + CountMod - 1) % CountMod \in 0 .. (CountMod - 1)
           /\ n < PoolSize => (n + 1) % CountMod = n + 1
           /\ n > 0 => (n + CountMod - 1) % CountMod = n - 1
<1>1. CountMod \in Nat \ {0} /\ PoolSize \in Nat /\ CountMod > PoolSize
    BY SessionDBAssumption, HashmapAssumption DEF PoolSize
<1>2. /\ (n + 1) % CountMod \in 0 .. (CountMod - 1)
      /\ (n + CountMod - 1) % CountMod \in 0 .. (CountMod - 1)
    BY <1>1
<1>3. n < PoolSize => (n + 1) % CountMod = n + 1
    BY <1>1
<1>4. n > 0 => (n + CountMod - 1) % CountMod = n - 1
  <2> HAVE n > 0
  <2>1. n + CountMod - 1 = CountMod + (n - 1) /\ n - 1 \in 0 .. (CountMod - 1)
      BY <1>1
  <2> QED BY <1>1, <2>1
<1> QED BY <1>2, <1>3, <1>4

-----------------------------------------------------------------------------
(* The invariant of the table holds at the start,                           *)
LEMMA TableInit == Init => TableInv
<1> SUFFICES ASSUME Init PROVE TableInv
    OBVIOUS
<1>1. CountMod \in Nat \ {0} /\ MaxCrashes \in Nat
    BY SessionDBAssumption
<1>2. TypeInv
    BY <1>1, ZeroedFile DEF Init, TypeInv, Ops
<1>3. Started
    BY ZeroedFile DEF Init, Started, ActiveSet
<1>4. TableIsMap
    BY ZeroedFile, EmptyIsMap DEF Init, TableIsMap
<1>5. NewIsUnmapped
    BY DEF Init, NewIsUnmapped, NoOp
<1> QED BY <1>2, <1>3, <1>4, <1>5 DEF TableInv

(* and every step keeps it, crashes and deletions in any order included.    *)
LEMMA TableStep == TableInv /\ [Next]_vars => TableInv'
<1> SUFFICES ASSUME TableInv, [Next]_vars PROVE TableInv'
    OBVIOUS
<1> USE DEF TableInv
<1>1. CASE UNCHANGED vars
    BY <1>1 DEF vars, durable, TypeInv, Started, TableIsMap, NewIsUnmapped, ActiveSet
<1>2. CASE InitTruncates
  <2>1. TypeInv'
      BY <1>2 DEF InitTruncates, TypeInv
  <2>2. Started'
      BY <1>2 DEF InitTruncates, Started, ActiveSet
  <2> QED BY <1>2, <2>1, <2>2 DEF InitTruncates, TableIsMap, NewIsUnmapped
<1>3. CASE InitWritesHeader
  <2>1. op' = NoOp /\ op = NoOp
      BY <1>3 DEF InitWritesHeader, Started
  <2>2. TypeInv'
      BY <1>3, ZeroedFile, SessionDBAssumption DEF InitWritesHeader, TypeInv
  <2>3. Started'
      BY <1>3, <2>1 DEF InitWritesHeader, Started
  <2>4. TableIsMap'
      BY <1>3, ZeroedFile, EmptyIsMap DEF InitWritesHeader, TableIsMap
  <2> QED BY <2>1, <2>2, <2>3, <2>4 DEF NewIsUnmapped, NoOp
<1>4. CASE InitRefuses
  <2>1. Started'
      BY <1>4 DEF InitRefuses, durable, Started, ActiveSet
  <2> QED BY <1>4, <2>1 DEF InitRefuses, durable, TypeInv, TableIsMap, NewIsUnmapped
<1>5. CASE InitReopens
  <2>1. Started'
      BY <1>5 DEF InitReopens, durable, Started, ActiveSet
  <2> QED BY <1>5, <2>1 DEF InitReopens, durable, TypeInv, TableIsMap, NewIsUnmapped
<1>6. CASE Crash
  <2>1. TypeInv'
      BY <1>6, SessionDBAssumption DEF Crash, durable, TypeInv, Ops
  <2>2. Started'
      BY <1>6 DEF Crash, durable, Started, ActiveSet
  <2> QED BY <1>6, <2>1, <2>2 DEF Crash, durable, TableIsMap, NewIsUnmapped, NoOp
<1>7. ASSUME NEW s \in Sids, NEW u \in Uids, CreateBegins(s, u)
      PROVE  TableInv'
  <2>1. op' \in Ops /\ op'.sid = s
      BY <1>7 DEF CreateBegins, Ops
  <2>2. ~KeyIn(table, s)
      BY <1>7 DEF CreateBegins, KeyIn
  <2>3. TypeInv' /\ TableIsMap' /\ NewIsUnmapped'
      BY <1>7, <2>1, <2>2 DEF CreateBegins, durable, TypeInv, TableIsMap, NewIsUnmapped
  <2>4. Started'
      BY <1>7 DEF CreateBegins, At, durable, Started, ActiveSet
  <2> QED BY <2>3, <2>4
<1>8. CASE CreateClaims
  <2>1. PICK i \in Inactive :
           /\ pool' = [pool EXCEPT ![i].active = TRUE]
           /\ op' = [phase |-> "fill", sid |-> op.sid, uid |-> op.uid, idx |-> i]
      BY <1>8 DEF CreateClaims
  <2>2. op.sid \in Sids /\ op.uid \in Uids /\ i \in PoolIndex
      BY <1>8, OpFields DEF CreateClaims, At, TypeInv, Inactive
  <2>3. op' \in Ops
      BY <2>1, <2>2 DEF Ops
  <2>4. pool' \in [PoolIndex -> PoolEntries]
      BY <2>1, <2>2 DEF TypeInv, PoolEntries
  <2>5. TypeInv' /\ TableIsMap' /\ NewIsUnmapped'
      BY <1>8, <2>1, <2>3, <2>4 DEF CreateClaims, At, TypeInv, TableIsMap, NewIsUnmapped
  <2>6. Started'
      BY <1>8 DEF CreateClaims, At, Started
  <2> QED BY <2>5, <2>6
<1>9. CASE CreateFindsNoEntry
  <2>1. TypeInv' /\ TableIsMap' /\ NewIsUnmapped'
      BY <1>9 DEF CreateFindsNoEntry, durable, TypeInv, Ops, TableIsMap, NewIsUnmapped, NoOp
  <2>2. Started'
      BY <1>9 DEF CreateFindsNoEntry, At, durable, Started, ActiveSet
  <2> QED BY <2>1, <2>2
<1>10. CASE CreateFills
  <2>1. op.sid \in Sids /\ op.uid \in Uids /\ op.idx \in PoolIndex
      BY <1>10, OpFields DEF CreateFills, At, TypeInv
  <2>2. op' \in Ops /\ op'.phase = "map" /\ op'.sid = op.sid
      BY <1>10, CreateMovesOn DEF CreateFills, At, TypeInv
  <2>3. pool' \in [PoolIndex -> PoolEntries]
      BY <1>10, <2>1 DEF CreateFills, TypeInv, PoolEntries
  <2>4. TypeInv' /\ TableIsMap' /\ NewIsUnmapped'
      BY <1>10, <2>2, <2>3 DEF CreateFills, At, TypeInv, TableIsMap, NewIsUnmapped
  <2>5. Started'
      BY <1>10 DEF CreateFills, At, Started
  <2> QED BY <2>4, <2>5
<1>11. CASE CreateMaps
  <2>1. op.sid \in Sids /\ op.idx \in PoolIndex
      BY <1>11, OpFields DEF CreateMaps, At, TypeInv
  <2>2. op' \in Ops /\ op'.phase = "count"
      BY <1>11, CreateMovesOn DEF CreateMaps, At, TypeInv
  <2>3. table' \in Tables /\ TableIsMap'
      BY <1>11, <2>1, InsertLeads DEF CreateMaps, At, TypeInv, TableIsMap, NewIsUnmapped
  <2>4. TypeInv' /\ NewIsUnmapped'
      BY <1>11, <2>2, <2>3, CounterTyped DEF CreateMaps, TypeInv, NewIsUnmapped
  <2>5. Started'
      BY <1>11 DEF CreateMaps, At, Started
  <2> QED BY <2>3, <2>4, <2>5
<1>12. CASE CreateHangs
    BY <1>1, <1>12 DEF CreateHangs
<1>13. CASE CreateCounts
  <2>1. TypeInv' /\ TableIsMap' /\ NewIsUnmapped'
      BY <1>13, CounterTyped DEF CreateCounts, TypeInv, Ops, TableIsMap, NewIsUnmapped, NoOp
  <2>2. Started'
      BY <1>13 DEF CreateCounts, At, Started
  <2> QED BY <2>1, <2>2
<1>14. ASSUME NEW s \in Sids, DeleteBegins(s)
       PROVE  TableInv'
  <2>1. EntryGet(s) \in PoolIndex
      BY <1>14, KeyLeads DEF DeleteBegins, EntryGet, TypeInv, TableIsMap
  <2>2. op' \in Ops
      BY <1>14, <2>1 DEF DeleteBegins, Ops
  <2>3. TypeInv' /\ TableIsMap' /\ NewIsUnmapped'
      BY <1>14, <2>2 DEF DeleteBegins, durable, TypeInv, TableIsMap, NewIsUnmapped
  <2>4. Started'
      BY <1>14 DEF DeleteBegins, At, durable, Started, ActiveSet
  <2> QED BY <2>3, <2>4
<1>15. CASE DeleteDeactivates
  <2>1. op.idx \in PoolIndex
      BY <1>15, OpFields DEF DeleteDeactivates, At, TypeInv
  <2>2. op' \in Ops /\ op'.phase = "unmap"
      BY <1>15, DeleteMovesOn DEF DeleteDeactivates, At, TypeInv
  <2>3. pool' \in [PoolIndex -> PoolEntries]
      BY <1>15, <2>1 DEF DeleteDeactivates, TypeInv, PoolEntries
  <2>4. TypeInv' /\ TableIsMap' /\ NewIsUnmapped'
      BY <1>15, <2>2, <2>3 DEF DeleteDeactivates, TypeInv, TableIsMap, NewIsUnmapped
  <2>5. Started'
      BY <1>15 DEF DeleteDeactivates, At, Started
  <2> QED BY <2>4, <2>5
<1>16. CASE DeleteUnmaps
  <2>1. op.sid \in Sids
      BY <1>16, OpFields DEF DeleteUnmaps, At, TypeInv
  <2>2. op' \in Ops /\ op'.phase = "uncount"
      BY <1>16, DeleteMovesOn DEF DeleteUnmaps, At, TypeInv
  <2>3. table' \in Tables /\ TableIsMap'
      BY <1>16, <2>1, DeleteLeads DEF DeleteUnmaps, TypeInv, TableIsMap
  <2>4. TypeInv' /\ NewIsUnmapped'
      BY <1>16, <2>2, <2>3, CounterTyped DEF DeleteUnmaps, TypeInv, NewIsUnmapped
  <2>5. Started'
      BY <1>16 DEF DeleteUnmaps, At, Started
  <2> QED BY <2>3, <2>4, <2>5
<1>17. CASE DeleteUncounts
  <2>1. TypeInv' /\ TableIsMap' /\ NewIsUnmapped'
      BY <1>17, CounterTyped DEF DeleteUncounts, TypeInv, Ops, TableIsMap, NewIsUnmapped, NoOp
  <2>2. Started'
      BY <1>17 DEF DeleteUncounts, At, Started
  <2> QED BY <2>1, <2>2
<1> QED BY <1>1, <1>2, <1>3, <1>4, <1>5, <1>6, <1>7, <1>8, <1>9, <1>10, <1>11, <1>12,
           <1>13, <1>14, <1>15, <1>16, <1>17 DEF Next, Create, DeleteStep

-----------------------------------------------------------------------------
(* Sets of entries, and what one more or one less does to their size.       *)
LEMMA Sizes ==
    ASSUME NEW S, S \subseteq PoolIndex
    PROVE  /\ Cardinality(S) \in Nat /\ Cardinality(S) <= PoolSize
           /\ \A x \in S : Cardinality(S \ {x}) = Cardinality(S) - 1
           /\ \A x \in PoolIndex \ S : Cardinality(S \cup {x}) = Cardinality(S) + 1
           /\ S = {} => Cardinality(S) = 0
           /\ S # {} => Cardinality(S) > 0
BY Indices, IndexSetSizes DEF PoolSize

(* An empty file has nothing to disagree about.                             *)
LEMMA StoreInit == Init => StoreInv
<1> SUFFICES ASSUME Init PROVE StoreInv
    OBVIOUS
<1>1. OccupiedIn(table) = {} /\ ActiveSet = {} /\ op = NoOp /\ entryCount = 0 /\ crashes = 0
    BY ZeroedFile DEF Init, ActiveSet
<1>2. Owned /\ Reserved
    BY <1>1 DEF Owned, Reserved, Leads, NoOp
<1>3. Counts
  <2>1. Cardinality(OccupiedIn(table)) = 0 /\ Cardinality(ActiveSet) = 0
      BY <1>1, Sizes
  <2> QED BY <1>1, <2>1 DEF Init, Counts, NoOp
<1> QED BY <1>2, <1>3, TableInit DEF StoreInv

(* The indices of the two sets whose sizes the counters follow.             *)
LEMMA Finite ==
    ASSUME NEW t \in Tables
    PROVE  OccupiedIn(t) \subseteq PoolIndex
BY Indices DEF OccupiedIn

(* When no crash meets a deletion, every step keeps the invariant.          *)
LEMMA StoreStep ==
    ASSUME ~DeleteMeetsCrash, StoreInv, [Next]_vars
    PROVE  StoreInv'
<1>1. TableInv /\ TableInv' /\ TypeInv /\ TypeInv'
    BY TableStep DEF StoreInv, TableInv
<1>2. SUFFICES Owned' /\ Reserved' /\ Counts'
    BY <1>1 DEF StoreInv
<1> DEFINE m == Cardinality(OccupiedIn(table))
           a == Cardinality(ActiveSet)
<1>3. /\ m \in Nat /\ a \in Nat /\ m <= PoolSize /\ a <= PoolSize /\ PoolSize \in Nat
      /\ entryCount \in 0 .. (CountMod - 1) /\ mapCount \in 0 .. (CountMod - 1)
      /\ CountMod \in Nat /\ CountMod > PoolSize /\ crashes \in Nat
    BY <1>1, Sizes, Finite, SessionDBAssumption, HashmapAssumption
       DEF TypeInv, ActiveSet, PoolSize
<1>4. \A i \in PoolIndex : pool[i] \in PoolEntries
    BY <1>1 DEF TypeInv
<1> USE DEF StoreInv
<1>5. CASE UNCHANGED vars
    BY <1>5 DEF vars, durable, Owned, Deleting, Reserved, Counts, ActiveSet
<1>6. CASE InitTruncates
    BY <1>6 DEF InitTruncates, Owned, Deleting, Reserved, Counts, ActiveSet
<1>7. CASE InitWritesHeader
  <2>1. OccupiedIn(table') = {} /\ ActiveSet' = {} /\ op' = NoOp /\ entryCount' = 0
      BY <1>1, <1>7, ZeroedFile DEF InitWritesHeader, ActiveSet, TableInv, Started
  <2>2. Cardinality(OccupiedIn(table')) = 0 /\ Cardinality(ActiveSet') = 0
      BY <2>1, Sizes
  <2>3. Owned' /\ Reserved'
      BY <2>1 DEF Owned, Reserved, Leads, NoOp
  <2> QED BY <1>3, <1>7, <2>1, <2>2, <2>3 DEF InitWritesHeader, Counts, NoOp
<1>8. CASE InitRefuses
    BY <1>8 DEF InitRefuses, durable, Owned, Deleting, Reserved, Counts, ActiveSet
<1>9. CASE InitReopens
  <2>1. op = NoOp
      BY <1>1, <1>9 DEF InitReopens, TableInv, Started
  <2> QED BY <1>3, <1>9, <2>1
          DEF InitReopens, durable, Owned, Deleting, Reserved, Counts, ActiveSet, NoOp
<1>10. CASE Crash
  <2>1. op.phase \in Phases \ {"unmap", "uncount"} /\ op'.phase = "idle"
      BY <1>1, <1>10, OpFields DEF Crash, TypeInv, NoOp
  <2>2. Owned' /\ Reserved'
      BY <1>10, <2>1 DEF Crash, durable, Owned, Deleting, Reserved
  <2>3. Counts'
      BY <1>3, <1>10, <2>1 DEF Crash, durable, Counts, ActiveSet, Phases
  <2> QED BY <2>2, <2>3
<1>11. ASSUME NEW s \in Sids, NEW u \in Uids, CreateBegins(s, u)
       PROVE  Owned' /\ Reserved' /\ Counts'
  <2>1. op.phase = "idle" /\ op'.phase = "claim"
      BY <1>11 DEF CreateBegins, At
  <2>2. Owned' /\ Reserved'
      BY <1>11, <2>1 DEF CreateBegins, durable, Owned, Deleting, Reserved
  <2>3. Counts'
      BY <1>3, <1>11, <2>1 DEF CreateBegins, durable, Counts, ActiveSet
  <2> QED BY <2>2, <2>3
<1>12. CASE CreateClaims
  <2>1. PICK i \in Inactive :
           /\ pool' = [pool EXCEPT ![i].active = TRUE]
           /\ op' = [phase |-> "fill", sid |-> op.sid, uid |-> op.uid, idx |-> i]
      BY <1>12 DEF CreateClaims
  <2>2. i \in PoolIndex /\ ~pool[i].active /\ op.phase = "claim" /\ op'.phase = "fill"
        /\ op'.idx = i
      BY <1>12, <2>1 DEF CreateClaims, At, Inactive
  <2>3. /\ \A j \in PoolIndex : pool'[j].sid = pool[j].sid /\ pool'[j].uid = pool[j].uid
        /\ \A j \in PoolIndex \ {i} : pool'[j] = pool[j]
        /\ pool'[i].active
      BY <1>1, <1>4, <2>1, <2>2 DEF TypeInv, PoolEntries
  <2>4. \A s \in Sids : ~Leads(table, s, i)
      BY <2>2 DEF Owned, Deleting
  <2>5. Owned' /\ Reserved'
      BY <1>12, <2>2, <2>3, <2>4 DEF CreateClaims, Owned, Deleting, Reserved
  <2>6. ActiveSet' = ActiveSet \cup {i} /\ i \in PoolIndex \ ActiveSet
      BY <2>2, <2>3 DEF ActiveSet
  <2>7. Cardinality(ActiveSet') = a + 1
    <3>1. ActiveSet \subseteq PoolIndex
        BY DEF ActiveSet
    <3> QED BY <2>6, <3>1, Sizes
  <2>8. Counts'
      BY <1>3, <1>12, <2>2, <2>7 DEF CreateClaims, Counts
  <2> QED BY <2>5, <2>8
<1>13. CASE CreateFindsNoEntry
    BY <1>13 DEF CreateFindsNoEntry, At, durable, NoOp, Owned, Deleting, Reserved, Counts, ActiveSet
<1>14. CASE CreateFills
  <2>1. op.sid \in Sids /\ op.uid \in Uids /\ op.idx \in PoolIndex /\ op.phase = "fill"
      BY <1>1, <1>14, OpFields DEF CreateFills, At, TypeInv
  <2>2. op'.phase = "map" /\ op'.sid = op.sid /\ op'.uid = op.uid /\ op'.idx = op.idx
      BY <1>1, <1>14, CreateMovesOn DEF CreateFills, At, TypeInv
  <2>3. /\ \A j \in PoolIndex \ {op.idx} : pool'[j] = pool[j]
        /\ pool'[op.idx].active = pool[op.idx].active
        /\ pool'[op.idx].sid = op.sid /\ pool'[op.idx].uid = op.uid
      BY <1>1, <1>4, <1>14, <2>1 DEF CreateFills, TypeInv, PoolEntries
  <2>4. Owned' /\ Reserved'
      BY <1>14, <2>1, <2>2, <2>3 DEF CreateFills, Owned, Deleting, Reserved
  <2>5. ActiveSet' = ActiveSet
      BY <2>1, <2>3 DEF ActiveSet
  <2>6. Counts'
      BY <1>3, <1>14, <2>1, <2>2, <2>5 DEF CreateFills, Counts
  <2> QED BY <2>4, <2>6
<1>15. CASE CreateMaps
  <2>1. op.sid \in Sids /\ op.idx \in PoolIndex /\ op.phase = "map" /\ op.uid \in Uids
      BY <1>1, <1>15, OpFields DEF CreateMaps, At, TypeInv
  <2>2. op'.phase = "count"
      BY <1>1, <1>15, CreateMovesOn DEF CreateMaps, At, TypeInv
  <2>3. /\ \A r \in Sids : \A j : Leads(table', r, j) <=>
                                    IF r = op.sid THEN j = op.idx ELSE Leads(table, r, j)
        /\ \E p \in PoolIndex \ OccupiedIn(table) :
             OccupiedIn(table') = OccupiedIn(table) \cup {p}
      BY <1>1, <1>15, <2>1, InsertLeads DEF CreateMaps, TypeInv, TableInv, TableIsMap, NewIsUnmapped
  <2>4. Owned' /\ Reserved'
      BY <1>15, <2>1, <2>2, <2>3 DEF CreateMaps, Owned, Deleting, Reserved
  <2>5. Cardinality(OccupiedIn(table')) = m + 1
      BY <1>1, <2>3, Sizes, Finite DEF TypeInv
  <2>6. mapCount' = mapCount + 1
      BY <1>3, <1>15, <2>1, CounterTyped DEF CreateMaps, Counts
  <2>7. Counts'
      BY <1>3, <1>15, <2>1, <2>2, <2>5, <2>6 DEF CreateMaps, Counts, ActiveSet
  <2> QED BY <2>4, <2>7
<1>16. CASE CreateHangs
    BY <1>5, <1>16 DEF CreateHangs
<1>17. CASE CreateCounts
  <2>1. op.phase = "count" /\ op'.phase = "idle"
      BY <1>17 DEF CreateCounts, At, NoOp
  <2>2. Owned' /\ Reserved'
      BY <1>17, <2>1 DEF CreateCounts, Owned, Deleting, Reserved
  <2>3. entryCount < PoolSize
      BY <1>3, <2>1 DEF Counts
  <2>4. entryCount' = entryCount + 1
      BY <1>3, <1>17, <2>3, CounterTyped DEF CreateCounts
  <2>5. Counts'
      BY <1>3, <1>17, <2>1, <2>4 DEF CreateCounts, Counts, ActiveSet
  <2> QED BY <2>2, <2>5
<1>18. ASSUME NEW s \in Sids, DeleteBegins(s)
       PROVE  Owned' /\ Reserved' /\ Counts'
  <2>1. op.phase = "idle" /\ op'.phase = "deactivate" /\ op'.sid = s
        /\ op'.idx = EntryGet(s) /\ crashes = 0
      BY <1>3, <1>18 DEF DeleteBegins, At
  <2>2. Leads(table, s, EntryGet(s))
      BY <1>1, <1>18, KeyLeads DEF DeleteBegins, EntryGet, TypeInv, TableInv, TableIsMap
  <2>3. Owned' /\ Reserved'
      BY <1>18, <2>1, <2>2 DEF DeleteBegins, durable, Owned, Deleting, Reserved
  <2>4. Counts'
      BY <1>3, <1>18, <2>1 DEF DeleteBegins, At, durable, Counts, ActiveSet
  <2> QED BY <2>3, <2>4
<1>19. CASE DeleteDeactivates
  <2>1. op.sid \in Sids /\ op.idx \in PoolIndex /\ op.phase = "deactivate"
      BY <1>1, <1>19, OpFields DEF DeleteDeactivates, At, TypeInv
  <2>2. op'.phase = "unmap" /\ op'.sid = op.sid /\ op'.idx = op.idx
      BY <1>1, <1>19, DeleteMovesOn DEF DeleteDeactivates, At, TypeInv
  <2>3. /\ \A j \in PoolIndex \ {op.idx} : pool'[j] = pool[j]
        /\ ~pool'[op.idx].active
        /\ pool'[op.idx].sid = pool[op.idx].sid /\ pool'[op.idx].uid = pool[op.idx].uid
      BY <1>1, <1>4, <1>19, <2>1 DEF DeleteDeactivates, TypeInv, PoolEntries
  <2>4. Leads(table, op.sid, op.idx) /\ pool[op.idx].active /\ pool[op.idx].sid = op.sid
      BY <2>1 DEF Owned, Deleting, Reserved
  <2>5. Owned' /\ Reserved'
      BY <1>19, <2>1, <2>2, <2>3, <2>4 DEF DeleteDeactivates, Owned, Deleting, Reserved
  <2>6. ActiveSet' = ActiveSet \ {op.idx} /\ op.idx \in ActiveSet
      BY <2>1, <2>3, <2>4 DEF ActiveSet
  <2>7. Cardinality(ActiveSet') = a - 1
    <3>1. ActiveSet \subseteq PoolIndex
        BY DEF ActiveSet
    <3> QED BY <2>6, <3>1, Sizes
  <2>8. Counts'
      BY <1>3, <1>19, <2>1, <2>2, <2>7 DEF DeleteDeactivates, Counts
  <2> QED BY <2>5, <2>8
<1>20. CASE DeleteUnmaps
  <2>1. op.sid \in Sids /\ op.phase = "unmap"
      BY <1>1, <1>20, OpFields DEF DeleteUnmaps, At, TypeInv
  <2>2. op'.phase = "uncount"
      BY <1>1, <1>20, DeleteMovesOn DEF DeleteUnmaps, At, TypeInv
  <2>3. KeyIn(table, op.sid)
      BY <2>1 DEF Reserved, Leads, KeyIn
  <2>4. /\ \A r \in Sids : \A j : Leads(table', r, j) <=> r # op.sid /\ Leads(table, r, j)
        /\ \E p \in OccupiedIn(table) : OccupiedIn(table') = OccupiedIn(table) \ {p}
      BY <1>1, <1>20, <2>1, <2>3, DeleteLeads DEF DeleteUnmaps, TypeInv, TableInv, TableIsMap
  <2>5. Owned' /\ Reserved'
      BY <1>20, <2>1, <2>2, <2>4 DEF DeleteUnmaps, Owned, Deleting, Reserved
  <2>6. Cardinality(OccupiedIn(table')) = m - 1 /\ m > 0
      BY <1>1, <2>4, Sizes, Finite DEF TypeInv
  <2>7. mapCount' = mapCount - 1
      BY <1>3, <1>20, <2>1, <2>6, CounterTyped DEF DeleteUnmaps, Counts
  <2>8. Counts'
      BY <1>3, <1>20, <2>1, <2>2, <2>6, <2>7 DEF DeleteUnmaps, Counts, ActiveSet
  <2> QED BY <2>5, <2>8
<1>21. CASE DeleteUncounts
  <2>1. op.phase = "uncount" /\ op'.phase = "idle"
      BY <1>21 DEF DeleteUncounts, At, NoOp
  <2>2. Owned' /\ Reserved'
      BY <1>21, <2>1 DEF DeleteUncounts, Owned, Deleting, Reserved
  <2>3. entryCount' = entryCount - 1
      BY <1>3, <1>21, <2>1, CounterTyped DEF DeleteUncounts, Counts
  <2>4. Counts'
      BY <1>3, <1>21, <2>1, <2>3 DEF DeleteUncounts, Counts, ActiveSet
  <2> QED BY <2>2, <2>4
<1> QED BY <1>5, <1>6, <1>7, <1>8, <1>9, <1>10, <1>11, <1>12, <1>13, <1>14, <1>15, <1>16,
           <1>17, <1>18, <1>19, <1>20, <1>21 DEF Next, Create, DeleteStep

-----------------------------------------------------------------------------
(* Type correctness, crashes and deletions in any order: the counters stay  *)
(* counters, entries stay entries, and the index a call has looked up or    *)
(* claimed is one of the pool's (cg_sessiondb.c:182-251).                   *)
THEOREM SessionsTyped == Spec => []TypeOK
<1>1. TableInv => TypeOK
  <2> SUFFICES ASSUME TypeInv PROVE TypeOK
      BY DEF TableInv
  <2>1. "idx" \in DOMAIN op => op.idx \in PoolIndex
      BY DEF TypeInv, Ops, NoOp
  <2> QED BY <2>1, OpFields DEF TypeInv, TypeOK
<1> QED BY <1>1, TableInit, TableStep, PTL DEF Spec

(* Wherever the process dies, and whatever it does after, the table in the  *)
(* file is a map: each session id is in one entry at most, and the chain a  *)
(* lookup follows to it is never cut (cg_hashmap.c).                        *)
THEOREM TableStaysMap == Spec => []TableIsMap
<1>1. TableInv => TableIsMap
    BY DEF TableInv
<1> QED BY <1>1, TableInit, TableStep, PTL DEF Spec

(* The invariant that gives the next two results.                           *)
LEMMA StoreHolds ==
    ASSUME ~DeleteMeetsCrash
    PROVE  Spec => []StoreInv
<1>1. StoreInv /\ [Next]_vars => StoreInv'
    BY StoreStep
<1> QED BY <1>1, StoreInit, PTL DEF Spec

(* The entry of a session, by whichever index leads to it.                  *)
LEMMA EntryLed ==
    ASSUME NEW t \in Tables, WellFormedTable(t), NEW s \in Sids, NEW i, Leads(t, s, i)
    PROVE  /\ \E j \in OccupiedIn(t) : t[j].key = s
           /\ t[CHOOSE j \in OccupiedIn(t) : t[j].key = s].val = i
<1> DEFINE j == CHOOSE j \in OccupiedIn(t) : t[j].key = s
<1>1. j \in OccupiedIn(t) /\ t[j].key = s
    BY DEF Leads
<1>2. Leads(t, s, t[j].val)
    BY <1>1 DEF Leads
<1> QED BY <1>1, <1>2, KeyLeads

(* When no crash meets a deletion, the file tells one story after every     *)
(* write: the table is a map, a session leads to an active entry filled for *)
(* it, and between calls the counters agree with table and pool but for one *)
(* entry lost to each crash (cg_sessiondb.c:182-251).                       *)
THEOREM FileStaysSound ==
    ASSUME ~DeleteMeetsCrash
    PROVE  Spec => []FileIsSound
<1>1. StoreInv => FileIsSound
  <2> SUFFICES ASSUME StoreInv PROVE FileIsSound
      OBVIOUS
  <2>1. TableIsMap /\ table \in Tables
      BY DEF StoreInv, TableInv, TypeInv
  <2>2. EntryIsOwn
    <3> SUFFICES ASSUME NEW s \in Sids, Mapped(s)
                 PROVE  /\ EntryOf(s).sid = s /\ EntryOf(s).uid \in Uids
                        /\ EntryOf(s).active \/ Deleting(s)
        BY DEF EntryIsOwn
    <3>1. PICK i \in PoolIndex : Leads(table, s, i)
        BY <2>1, KeyLeads DEF Mapped, KeyIn, TableIsMap
    <3>2. EntryOf(s) = pool[i]
        BY <2>1, <3>1, EntryLed DEF EntryOf, TableIsMap
    <3> QED BY <3>1, <3>2 DEF StoreInv, Owned
  <2>3. CountsAgree
    <3>1. /\ Cardinality(OccupiedIn(table)) \in Nat /\ Cardinality(ActiveSet) \in Nat
          /\ entryCount \in Nat /\ crashes \in Nat
        BY <2>1, Sizes, Finite, SessionDBAssumption
           DEF StoreInv, TableInv, TypeInv, ActiveSet
    <3> QED BY <3>1 DEF StoreInv, Counts, CountsAgree, At, ActiveSet
  <2> QED BY <2>1, <2>2, <2>3 DEF FileIsSound
<1> QED BY <1>1, StoreHolds, PTL

-----------------------------------------------------------------------------
(* What the abstract store sees of a table and a pool.                      *)
LEMMA SessionsSeen ==
    ASSUME TypeInv, TableIsMap
    PROVE  /\ Sessions = [s \in Sids |-> Sessions[s]]
           /\ \A s \in Sids : \A i : Leads(table, s, i) => Sessions[s] = pool[i].uid
           /\ \A s \in Sids : (\A i \in PoolIndex : ~Leads(table, s, i)) => Sessions[s] = NoUid
<1>1. table \in Tables /\ WellFormedTable(table)
    BY DEF TypeInv, TableIsMap
<1>2. \A s \in Sids : \A i : Leads(table, s, i) => Mapped(s) /\ EntryOf(s) = pool[i]
    BY <1>1, EntryLed DEF Mapped, EntryOf
<1>3. \A s \in Sids : (\A i \in PoolIndex : ~Leads(table, s, i)) => ~Mapped(s)
    BY <1>1, KeyLeads DEF Mapped, KeyIn
<1> QED BY <1>2, <1>3 DEF Sessions

(* The same of the next state.                                              *)
LEMMA SessionsSeenNext ==
    ASSUME TypeInv', TableIsMap'
    PROVE  /\ Sessions' = [s \in Sids |-> Sessions'[s]]
           /\ \A s \in Sids : \A i : Leads(table', s, i) => Sessions'[s] = pool'[i].uid
           /\ \A s \in Sids : (\A i \in PoolIndex : ~Leads(table', s, i)) => Sessions'[s] = NoUid
<1>1. table' \in Tables /\ WellFormedTable(table')
    BY DEF TypeInv, TableIsMap
<1>2. \A s \in Sids : \A i : Leads(table', s, i) => Mapped(s)' /\ EntryOf(s)' = pool'[i]
    BY <1>1, EntryLed DEF Mapped, EntryOf
<1>3. \A s \in Sids : (\A i \in PoolIndex : ~Leads(table', s, i)) => ~Mapped(s)'
    BY <1>1, KeyLeads DEF Mapped, KeyIn
<1> QED BY <1>2, <1>3 DEF Sessions

(* A step that leaves alone the map and the users of the entries it leads   *)
(* to is one the abstract store does not see.                               *)
LEMMA Unseen ==
    ASSUME TypeInv, TableIsMap, TypeInv', TableIsMap',
           \A s \in Sids : \A i \in PoolIndex :
             /\ Leads(table', s, i) <=> Leads(table, s, i)
             /\ Leads(table, s, i) => pool'[i].uid = pool[i].uid
    PROVE  Sessions' = Sessions
<1>1. \A s \in Sids : Sessions'[s] = Sessions[s]
  <2> TAKE s \in Sids
  <2>1. CASE \E i \in PoolIndex : Leads(table, s, i)
      BY <2>1, SessionsSeen, SessionsSeenNext
  <2>2. CASE \A i \in PoolIndex : ~Leads(table, s, i)
      BY <2>2, SessionsSeen, SessionsSeenNext
  <2> QED BY <2>1, <2>2
<1> QED BY <1>1, SessionsSeen, SessionsSeenNext

(* When no crash meets a deletion, the database implements SessionStore: a  *)
(* session, once mapped, belongs to its user over every crash and restart   *)
(* until it is deleted.  CreateMaps and DeleteUnmaps are the steps the      *)
(* store sees (cg_sessiondb.c:218-220, 247).                                *)
THEOREM SessionsAreKept ==
    ASSUME ~DeleteMeetsCrash
    PROVE  Spec => ImplementsSessionStore
<1>1. Init => Store!Init
  <2> SUFFICES ASSUME Init PROVE Store!Init
      OBVIOUS
  <2>1. \A s \in Sids : ~Mapped(s)
      BY ZeroedFile DEF Init, Mapped
  <2> QED BY <2>1 DEF Store!Init, Sessions
<1>2. ASSUME StoreInv, StoreInv', [Next]_vars
      PROVE  [Store!Next]_Sessions
  <2>1. TypeInv /\ TableIsMap /\ TypeInv' /\ TableIsMap' /\ TableInv
      BY <1>2 DEF StoreInv, TableInv
  <2>2. \A i \in PoolIndex : pool[i] \in PoolEntries
      BY <2>1 DEF TypeInv
  <2>3. CASE UNCHANGED <<table, pool>>
    <3>1. Sessions' = Sessions
        BY <2>3 DEF Sessions, Mapped, EntryOf
    <3> QED BY <3>1
  <2>4. CASE InitWritesHeader
    <3>1. OccupiedIn(table) = {} /\ OccupiedIn(table') = {}
        BY <2>1, <2>4, ZeroedFile DEF InitWritesHeader, TableInv, Started
    <3>2. \A s, i : ~Leads(table, s, i) /\ ~Leads(table', s, i)
        BY <3>1 DEF Leads
    <3> QED BY <2>1, <3>2, Unseen
  <2>5. CASE CreateClaims
    <3>1. \A i \in PoolIndex : pool'[i].uid = pool[i].uid
        BY <2>1, <2>2, <2>5 DEF CreateClaims, TypeInv, PoolEntries
    <3>2. table' = table
        BY <2>5 DEF CreateClaims
    <3> QED BY <2>1, <3>1, <3>2, Unseen
  <2>6. CASE CreateFills
    <3>1. \A i \in PoolIndex \ {op.idx} : pool'[i] = pool[i]
        BY <2>1, <2>6 DEF CreateFills, TypeInv
    <3>2. table' = table /\ \A s \in Sids : ~Leads(table, s, op.idx)
        BY <1>2, <2>6 DEF CreateFills, At, StoreInv, Reserved
    <3> QED BY <2>1, <3>1, <3>2, Unseen
  <2>7. CASE CreateMaps
    <3>1. op.sid \in Sids /\ op.idx \in PoolIndex /\ op.uid \in Uids /\ op.phase = "map"
        BY <2>1, <2>7, OpFields DEF CreateMaps, At, TypeInv
    <3>2. /\ ~KeyIn(table, op.sid)
          /\ \A r \in Sids : \A j : Leads(table', r, j) <=>
                                      IF r = op.sid THEN j = op.idx ELSE Leads(table, r, j)
        BY <2>1, <2>7, <3>1, InsertLeads
           DEF CreateMaps, TypeInv, TableInv, TableIsMap, NewIsUnmapped
    <3>3. pool' = pool /\ pool[op.idx].uid = op.uid
        BY <1>2, <2>7, <3>1 DEF CreateMaps, StoreInv, Reserved
    <3>4. Sessions[op.sid] = NoUid
        BY <2>1, <3>1, <3>2, SessionsSeen DEF Leads, KeyIn
    <3>5. \A r \in Sids : Sessions'[r] = IF r = op.sid THEN op.uid ELSE Sessions[r]
      <4> TAKE r \in Sids
      <4>1. CASE r = op.sid
          BY <2>1, <3>1, <3>2, <3>3, <4>1, SessionsSeenNext
      <4>2. CASE r # op.sid /\ \E i \in PoolIndex : Leads(table, r, i)
          BY <2>1, <3>2, <3>3, <4>2, SessionsSeen, SessionsSeenNext
      <4>3. CASE r # op.sid /\ \A i \in PoolIndex : ~Leads(table, r, i)
          BY <2>1, <3>2, <4>3, SessionsSeen, SessionsSeenNext
      <4> QED BY <4>1, <4>2, <4>3
    <3>6. Sessions' = [Sessions EXCEPT ![op.sid] = op.uid]
        BY <2>1, <3>1, <3>5, SessionsSeen, SessionsSeenNext
    <3>7. Store!Create(op.sid, op.uid)
        BY <3>4, <3>6 DEF Store!Create
    <3> QED BY <3>1, <3>7 DEF Store!Next
  <2>8. CASE DeleteDeactivates
    <3>1. \A i \in PoolIndex : pool'[i].uid = pool[i].uid
        BY <2>1, <2>2, <2>8 DEF DeleteDeactivates, TypeInv, PoolEntries
    <3>2. table' = table
        BY <2>8 DEF DeleteDeactivates
    <3> QED BY <2>1, <3>1, <3>2, Unseen
  <2>9. CASE DeleteUnmaps
    <3>1. op.sid \in Sids
        BY <2>1, <2>9, OpFields DEF DeleteUnmaps, At, TypeInv
    <3>2. \A r \in Sids : \A j : Leads(table', r, j) <=> r # op.sid /\ Leads(table, r, j)
        BY <2>1, <2>9, <3>1, DeleteLeads DEF DeleteUnmaps, TypeInv, TableIsMap
    <3>3. pool' = pool
        BY <2>9 DEF DeleteUnmaps
    <3>4. \A r \in Sids : Sessions'[r] = IF r = op.sid THEN NoUid ELSE Sessions[r]
      <4> TAKE r \in Sids
      <4>1. CASE r = op.sid
          BY <2>1, <3>2, <4>1, SessionsSeenNext
      <4>2. CASE r # op.sid /\ \E i \in PoolIndex : Leads(table, r, i)
          BY <2>1, <3>2, <3>3, <4>2, SessionsSeen, SessionsSeenNext
      <4>3. CASE r # op.sid /\ \A i \in PoolIndex : ~Leads(table, r, i)
          BY <2>1, <3>2, <4>3, SessionsSeen, SessionsSeenNext
      <4> QED BY <4>1, <4>2, <4>3
    <3>5. Sessions' = [Sessions EXCEPT ![op.sid] = NoUid]
        BY <2>1, <3>1, <3>4, SessionsSeen, SessionsSeenNext
    <3>6. Store!Delete(op.sid)
        BY <3>5 DEF Store!Delete
    <3> QED BY <3>1, <3>6 DEF Store!Next
  <2> QED
    BY <1>2, <2>3, <2>4, <2>5, <2>6, <2>7, <2>8, <2>9
       DEF Next, Create, DeleteStep, vars, durable, InitTruncates, InitRefuses, InitReopens,
           Crash, CreateBegins, CreateFindsNoEntry, CreateHangs, CreateCounts, DeleteBegins,
           DeleteUncounts
<1> QED BY <1>1, <1>2, StoreHolds, PTL DEF Spec, ImplementsSessionStore, Store!Spec
=============================================================================
