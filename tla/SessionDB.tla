------------------------------ MODULE SessionDB ------------------------------
(***************************************************************************)
(* The session database, src/src/data/cg_sessiondb.c: a memory-mapped file *)
(* holding a header, a hash table from session ids to pool indices and the *)
(* pool of entries.  Every step is one durable write, so that the process  *)
(* may die between any two of them; the mapping keeps what was written.    *)
(***************************************************************************)
EXTENDS HashmapOps

CONSTANTS Uids,        \* user ids
          NoUid,       \* user id of an entry never filled
          CountMod,    \* 2^32: the counters are uint32_t
          DeleteMeetsCrash, \* whether the process may die inside a deletion,
                            \* and a deletion follow a crash
          MaxCrashes   \* bound: how often the process dies

(* The table maps session ids, as getrandom may return them, to indices of  *)
(* the pool; CG_SESSIONDB_POOL_SIZE is the number of entries of both.       *)
Sids      == Keys
PoolSize  == Capacity
PoolIndex == 0 .. (PoolSize - 1)

ASSUME SessionDBAssumption ==
    /\ Vals = PoolIndex
    /\ CountMod \in Nat \ {0} /\ CountMod > PoolSize
    /\ NoUid \notin Uids
    /\ DeleteMeetsCrash \in BOOLEAN
    /\ MaxCrashes \in Nat

VARIABLES file,        \* "empty", "sized" (truncated, no magic) or "ready"
          table,       \* map_entries
          entryCount,  \* hdr.entry_count
          pool,        \* the entries
          proc,        \* the process: "down", "new", "up" or "rejected"
          mapCount,    \* map.count, set from the header at every start
          op,          \* the call in progress and its locals
          crashes      \* how often the process has died

durable == <<file, table, entryCount, pool>>
vars    == <<durable, proc, mapCount, op, crashes>>

NoOp == [phase |-> "idle"]
PoolEntries == [active : BOOLEAN, sid : Sids, uid : Uids \cup {NoUid}]

ZeroTable == [i \in Index |-> CHOOSE e \in Entries : e.occupied = Unused]
ZeroPool  == [i \in PoolIndex |->
                CHOOSE e \in PoolEntries : ~e.active /\ e.uid = NoUid]

Init ==
    /\ file = "empty"
    /\ table = ZeroTable
    /\ entryCount = 0
    /\ pool = ZeroPool
    /\ proc = "down"
    /\ mapCount = 0
    /\ op = NoOp
    /\ crashes = 0

-----------------------------------------------------------------------------
(* cg_sessiondb_init.  A file of size 0 is sized first and given its magic  *)
(* afterwards; a sized file without magic is refused.                       *)

InitTruncates ==
    /\ proc = "down" /\ file = "empty"
    /\ file' = "sized"
    /\ proc' = "new"
    /\ UNCHANGED <<table, entryCount, pool, mapCount, op, crashes>>

InitWritesHeader ==
    /\ proc = "new"
    /\ file' = "ready"
    /\ table' = ZeroTable /\ pool' = ZeroPool
    /\ entryCount' = 0 /\ mapCount' = 0
    /\ proc' = "up"
    /\ UNCHANGED <<op, crashes>>

InitRefuses ==
    /\ proc = "down" /\ file = "sized"
    /\ proc' = "rejected"
    /\ UNCHANGED <<durable, mapCount, op, crashes>>

(* Slip: the file is taken for a new one.                                   *)
InitReopensSlip ==
    /\ proc = "down" /\ file = "ready"
    /\ table' = ZeroTable /\ pool' = ZeroPool
    /\ entryCount' = 0 /\ mapCount' = 0
    /\ proc' = "up"
    /\ UNCHANGED <<file, op, crashes>>

InitReopens ==
    /\ proc = "down" /\ file = "ready"
    /\ mapCount' = entryCount
    /\ proc' = "up"
    /\ UNCHANGED <<durable, op, crashes>>

Crash ==
    /\ proc # "down" /\ crashes < MaxCrashes
    /\ op.phase \in {"unmap", "uncount"} => DeleteMeetsCrash
    /\ proc' = "down"
    /\ op' = NoOp
    /\ crashes' = crashes + 1
    /\ UNCHANGED <<durable, mapCount>>

-----------------------------------------------------------------------------
(* cg_sessiondb_entry_create.                                               *)

At(phase) == proc = "up" /\ op.phase = phase

(* The random id is one no session has (64 bits never repeat here).  A call *)
(* refused for lack of room or of randomness changes nothing.               *)
CreateBegins(s, u) ==
    /\ At("idle") /\ mapCount < PoolSize
    /\ ~ \E i \in OccupiedIn(table) : table[i].key = s
    /\ op' = [phase |-> "claim", sid |-> s, uid |-> u]
    /\ UNCHANGED <<durable, proc, mapCount, crashes>>

Inactive == {i \in PoolIndex : ~pool[i].active}

(* Slip: the index of the next entry.                                       *)
CreateClaimsNext ==
    /\ At("claim") /\ Inactive # {}
    /\ \E i \in Inactive :
         /\ \A j \in Inactive : i <= j
         /\ pool' = [pool EXCEPT ![i].active = TRUE]
         /\ op' = [phase |-> "fill", sid |-> op.sid, uid |-> op.uid, idx |-> i + 1]
    /\ UNCHANGED <<file, table, entryCount, proc, mapCount, crashes>>

CreateClaims ==
    /\ At("claim") /\ Inactive # {}
    /\ \E i \in Inactive :
         /\ \A j \in Inactive : i <= j
         /\ pool' = [pool EXCEPT ![i].active = TRUE]
         /\ op' = [phase |-> "fill", sid |-> op.sid, uid |-> op.uid, idx |-> i]
    /\ UNCHANGED <<file, table, entryCount, proc, mapCount, crashes>>

CreateFindsNoEntry ==
    /\ At("claim") /\ Inactive = {}
    /\ op' = NoOp
    /\ UNCHANGED <<durable, proc, mapCount, crashes>>

CreateFills ==
    /\ At("fill")
    /\ pool' = [pool EXCEPT ![op.idx] = [@ EXCEPT !.sid = op.sid, !.uid = op.uid]]
    /\ op' = [op EXCEPT !.phase = "map"]
    /\ UNCHANGED <<file, table, entryCount, proc, mapCount, crashes>>

(* The stores of cg_hashmap.c:111-113 count as one write.  Key and value go *)
(* into an entry that no walk reads the key of, "occupied" is stored last,  *)
(* and the count after it is in the process's memory.  This takes the three *)
(* stores in the order of the source, as the compiler emits them with the   *)
(* flags of mk/targets/prog.mk, -O0 and -Os; another order is not modelled. *)
CreateMaps ==
    /\ At("map") /\ GetReturns(table, op.sid)
    /\ table' = Insert(table, op.sid, op.idx)
    /\ mapCount' = (mapCount + 1) % CountMod
    /\ op' = [op EXCEPT !.phase = "count"]
    /\ UNCHANGED <<file, entryCount, pool, proc, crashes>>

(* No entry was left unused: the lookup that insertion starts with goes     *)
(* round the table for ever.                                                *)
CreateHangs ==
    /\ At("map") /\ ~GetReturns(table, op.sid)
    /\ UNCHANGED vars

CreateCounts ==
    /\ At("count")
    /\ entryCount' = (entryCount + 1) % CountMod
    /\ op' = NoOp
    /\ UNCHANGED <<file, table, pool, proc, mapCount, crashes>>

-----------------------------------------------------------------------------
(* cg_sessiondb_entry_get and cg_sessiondb_entry_delete.                    *)

EntryGet(s) == table[SlotOf(table, s)].val      \* of a session that is present

DeleteBegins(s) ==
    /\ crashes > 0 => DeleteMeetsCrash
    /\ At("idle") /\ Present(table, s)
    /\ op' = [phase |-> "deactivate", sid |-> s, idx |-> EntryGet(s)]
    /\ UNCHANGED <<durable, proc, mapCount, crashes>>

DeleteDeactivates ==
    /\ At("deactivate")
    /\ pool' = [pool EXCEPT ![op.idx].active = FALSE]
    /\ op' = [op EXCEPT !.phase = "unmap"]
    /\ UNCHANGED <<file, table, entryCount, proc, mapCount, crashes>>

DeleteUnmaps ==
    /\ At("unmap")
    /\ table' = Delete(table, op.sid)
    /\ mapCount' = (mapCount + CountMod - 1) % CountMod
    /\ op' = [op EXCEPT !.phase = "uncount"]
    /\ UNCHANGED <<file, entryCount, pool, proc, crashes>>

DeleteUncounts ==
    /\ At("uncount")
    /\ entryCount' = (entryCount + CountMod - 1) % CountMod
    /\ op' = NoOp
    /\ UNCHANGED <<file, table, pool, proc, mapCount, crashes>>

-----------------------------------------------------------------------------
Create == \/ \E s \in Sids, u \in Uids : CreateBegins(s, u)
          \/ CreateClaims \/ CreateFindsNoEntry \/ CreateFills
          \/ CreateMaps \/ CreateHangs \/ CreateCounts

DeleteStep == \/ \E s \in Sids : DeleteBegins(s)
              \/ DeleteDeactivates \/ DeleteUnmaps \/ DeleteUncounts

Next == \/ InitTruncates \/ InitWritesHeader \/ InitRefuses \/ InitReopens
        \/ Crash
        \/ Create \/ DeleteStep

Spec == Init /\ [][Next]_vars

-----------------------------------------------------------------------------
(* The type invariant.                                                      *)
Phases == {"idle", "claim", "fill", "map", "count", "deactivate", "unmap", "uncount"}

TypeOK ==
    /\ file \in {"empty", "sized", "ready"}
    /\ table \in Tables
    /\ entryCount \in 0 .. (CountMod - 1)
    /\ pool \in [PoolIndex -> PoolEntries]
    /\ proc \in {"down", "new", "up", "rejected"}
    /\ mapCount \in 0 .. (CountMod - 1)
    /\ op.phase \in Phases
    /\ "idx" \in DOMAIN op => op.idx \in PoolIndex
    /\ crashes \in 0 .. MaxCrashes

(* Every lookup finds the one entry of its key, wherever a crash stopped    *)
(* the previous call (cg_hashmap_insert_key_uint writes occupied last).     *)
TableIsMap == WellFormedTable(table)

Mapped(s)  == \E i \in OccupiedIn(table) : table[i].key = s
EntryOf(s) == pool[table[CHOOSE i \in OccupiedIn(table) : table[i].key = s].val]
Deleting(s) == op.phase = "unmap" /\ op.sid = s

(* A session that can be looked up leads to an entry that is its own: in    *)
(* use, filled with this session id, and no other session's.                *)
EntryIsOwn ==
    \A s \in Sids : Mapped(s) =>
      /\ EntryOf(s).sid = s /\ EntryOf(s).uid \in Uids
      /\ EntryOf(s).active \/ Deleting(s)

(* Between calls the two counters agree with each other, and with table and *)
(* pool as long as the process never died.  A crash costs at most one       *)
(* entry: claimed and never mapped, or mapped and never counted.  The       *)
(* counters are never too high, so no creation is refused while an entry is *)
(* free.                                                                    *)
CountsAgree ==
    At("idle") =>
      LET mapped == Cardinality(OccupiedIn(table))
          active == Cardinality({i \in PoolIndex : pool[i].active})
      IN  /\ mapCount = entryCount
          /\ entryCount <= mapped /\ mapped <= active
          /\ active <= entryCount + crashes

(* The file tells one story, in whichever store a crash has cut a call.     *)
FileIsSound == TableIsMap /\ EntryIsOwn /\ CountsAgree

(* The database keeps every session it has acknowledged, over crashes and   *)
(* restarts, and resolves it to its user: it implements the abstract store. *)
Sessions == [s \in Sids |-> IF Mapped(s) THEN EntryOf(s).uid ELSE NoUid]
Store == INSTANCE SessionStore WITH sessions <- Sessions
ImplementsSessionStore == Store!Spec

(* Documented by cg_sessiondb_entry_get: "A pointer to the                  *)
(* cg_sessiondb_entry if found and active, otherwise 0"                     *)
(* (cg_sessiondb.c:147-148).                                                *)
FoundIsActive ==
    At("idle") => \A s \in Sids : Mapped(s) => EntryOf(s).active

(* The same sentence promises an answer to every lookup.                    *)
LookupReturns == At("idle") => \A s \in Sids : GetReturns(table, s)
=============================================================================
