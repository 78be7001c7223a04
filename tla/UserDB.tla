-------------------------------- MODULE UserDB --------------------------------
(***************************************************************************)
(* The file of the user database (src/src/data/cg_userdb.c) over the lives *)
(* of the server process, from the start (cg_app.c) to a kill at any       *)
(* instruction.  The file is mapped MAP_SHARED: every store made survives  *)
(* the process.                                                            *)
(*                                                                         *)
(* A step is one store, or one call of a routine the compiler cannot see   *)
(* into.  Between two such calls it may order stores as it likes: an       *)
(* operation is a sequence of sets of stores.  A field is abstracted to    *)
(* the registration ("life") that wrote it, and the name it was begun with *)
(* to what the record keeps of that name, which is at most 31 bytes.       *)
(***************************************************************************)
EXTENDS Integers, Sequences, FiniteSets, FiniteSetsExt

CONSTANTS Names,
          Cut,         \* what a record keeps of a name
          Challenges,
          Worth,       \* total_points of each challenge
          UserPool,    \* CG_USERDB_POOL_SIZE
          MaxDone,     \* 32, the length of completed_hashes
          MaxPoints,   \* bound: the points an account may reach
          MaxLives,    \* bound: how many registrations are begun
          MaxCrashes   \* bound: how often the process is killed

ASSUME UserDBAssumption ==
    /\ Names \subseteq STRING /\ "no_name" \notin Names
    /\ Cut \in [Names -> Names] /\ \A n \in Names : Cut[Cut[n]] = Cut[n]
    /\ IsFiniteSet(Challenges) /\ Worth \in [Challenges -> Nat \ {0}]
    /\ UserPool \in Nat \ {0} /\ MaxDone \in Nat \ {0}
    /\ MaxPoints \in Nat /\ MaxLives \in Nat /\ MaxCrashes \in Nat

Ids    == 1 .. UserPool
Lives  == 1 .. MaxLives
Nobody == 0
Torn   == -1               \* a name copied without its end
NoHash == 0                \* an unused place of completed_hashes

VARIABLES file,     \* size and header: [sized, magic, count]
          pool,     \* the records
          sock,     \* does the socket's path exist?
          proc,     \* where the process stands
          op,       \* the operation under way and the stores it has left
          nameOf,   \* the name each registration was begun with
          lives,    \* registrations begun
          crashes   \* times the process was killed

fileVars == <<file, pool>>
ghostVars == <<nameOf, lives, crashes>>
vars == <<fileVars, sock, proc, op, ghostVars>>

Idle == [kind |-> "none"]
ZeroRecord == [active |-> FALSE, name |-> Nobody, text |-> Nobody, pass |-> Nobody,
               points |-> 0, count |-> 0,
               hashes |-> [k \in 1 .. MaxDone |-> NoHash]]

Init ==
    /\ file = [sized |-> FALSE, magic |-> FALSE, count |-> 0]
    /\ pool = [i \in Ids |-> ZeroRecord]
    /\ sock = FALSE
    /\ proc = "down" /\ op = Idle
    /\ nameOf = [l \in Lives |-> "no_name"]
    /\ lives = 0 /\ crashes = 0

-----------------------------------------------------------------------------
(* Start of the process: cg_userdb_init, then the listening socket.  A file *)
(* that was sized but carries no magic is refused and g_userdb is 0; the    *)
(* caller does not look, and the first request that needs it is the end.    *)

At(from, to) == proc = from /\ proc' = to

(* Slip: a file without contents and one with them are not told apart.      *)
InitOpensSlip ==
    /\ proc = "down" /\ proc' = "sizing"
    /\ UNCHANGED <<fileVars, sock, op, ghostVars>>

InitOpens ==
    /\ proc = "down"
    /\ proc' = IF ~file.sized THEN "sizing"
               ELSE IF file.magic THEN "unlink" ELSE "unlink_no_db"
    /\ UNCHANGED <<fileVars, sock, op, ghostVars>>

InitTruncates ==
    /\ At("sizing", "zeroing")
    /\ file' = [file EXCEPT !.sized = TRUE]
    /\ UNCHANGED <<pool, sock, op, ghostVars>>

InitZeroes ==
    /\ At("zeroing", "header")
    /\ pool' = [i \in Ids |-> ZeroRecord]
    /\ UNCHANGED <<file, sock, op, ghostVars>>

(* Magic, version and count, in any order; only the magic is ever read.     *)
InitWritesHeader ==
    /\ proc = "header"
    /\ \/ ~file.magic /\ file' = [file EXCEPT !.magic = TRUE] /\ UNCHANGED proc
       \/ file.magic /\ proc' = "unlink" /\ UNCHANGED file
    /\ UNCHANGED <<pool, sock, op, ghostVars>>

(* The result of unlink is ignored: a path that was there may still be.     *)
SetupUnlinks ==
    /\ At("unlink", "bind") \/ At("unlink_no_db", "bind_no_db")
    /\ sock' \in {FALSE, sock}
    /\ UNCHANGED <<fileVars, op, ghostVars>>

(* A path that exists cannot be bound: the process exits.                   *)
SetupBinds ==
    /\ \/ sock /\ proc \in {"bind", "bind_no_db"} /\ proc' = "exited"
       \/ ~sock /\ (At("bind", "serving") \/ At("bind_no_db", "no_db"))
    /\ sock' = TRUE
    /\ UNCHANGED <<fileVars, op, ghostVars>>

Killed ==
    /\ crashes < MaxCrashes
    /\ proc' = "down" /\ op' = Idle
    /\ crashes' = crashes + 1
    /\ UNCHANGED <<fileVars, sock, nameOf, lives>>

Crash == proc # "down" /\ Killed

(* A handler follows g_userdb, which is 0.                                  *)
RequestWithoutDb == proc = "no_db" /\ Killed

-----------------------------------------------------------------------------
(* Operations as the stores they have still to make: a sequence of sets.    *)

Active   == {i \in Ids : pool[i].active}

(* The name the record of a registration has, and the search: it compares   *)
(* all of the name it is given.                                             *)
NameKept(l) == Cut[nameOf[l]]
Named(n)    == {i \in Active : pool[i].name \in Lives /\ NameKept(pool[i].name) = n}

Recorded(r) == {r.hashes[k] : k \in 1 .. r.count}

Perform(i, what, stages) ==
    /\ proc = "serving" /\ op = Idle
    /\ op' = [id |-> i, what |-> what, slot |-> pool[i].count + 1, stages |-> stages]

(* Slip: the record is marked active with the first stores.                 *)
CreateStagesSlip ==
    << {"name", "active", "counted"}, {"end_of_name"}, {"text"},
       {"pass", "points", "count"}, {"hashes"} >>

(* The id is left out: it is the same whoever the record is given to.       *)
CreateStages ==
    << {"name"}, {"end_of_name"}, {"text"}, {"pass", "points", "count"},
       {"hashes"}, {"active", "counted"} >>

(* A name that is found, or a full pool, is answered without a store.       *)
Create(n) ==
    /\ Named(n) = {} /\ Active # Ids /\ lives < MaxLives
    /\ Perform(Min(Ids \ Active), lives + 1, CreateStages)
    /\ lives' = lives + 1
    /\ nameOf' = [nameOf EXCEPT ![lives + 1] = n]
    /\ UNCHANGED <<fileVars, sock, proc, crashes>>

(* Slip: the record need not be active, so a second deletion counts too.    *)
DeleteSlip(i) ==
    /\ Perform(i, Nobody, << {"inactive", "uncounted"} >>)
    /\ UNCHANGED <<fileVars, sock, proc, ghostVars>>

Delete(i) ==
    /\ i \in Active
    /\ Perform(i, Nobody, << {"inactive", "uncounted"} >>)
    /\ UNCHANGED <<fileVars, sock, proc, ghostVars>>

(* The call of cg_hash_str lies between the points and the list.            *)
VerifyStages(r, ch) ==
    IF ch \in Recorded(r) \/ r.count = MaxDone THEN << {"credit"} >>
    ELSE << {"credit"}, {"hash", "another"} >>

ChallengeVerify(i, ch) ==
    /\ i \in Active /\ pool[i].points + Worth[ch] <= MaxPoints
    /\ Perform(i, ch, VerifyStages(pool[i], ch))
    /\ UNCHANGED <<fileVars, sock, proc, ghostVars>>

-----------------------------------------------------------------------------
(* One store of the operation under way, in record r.                       *)
Stored(r, s) ==
    CASE s = "name"        -> [r EXCEPT !.name = Torn]
      [] s = "end_of_name" -> [r EXCEPT !.name = op.what]
      [] s = "text"        -> [r EXCEPT !.text = op.what]
      [] s = "pass"        -> [r EXCEPT !.pass = op.what]
      [] s = "points"      -> [r EXCEPT !.points = 0]
      [] s = "count"       -> [r EXCEPT !.count = 0]
      [] s = "hashes"      -> [r EXCEPT !.hashes = [k \in DOMAIN @ |-> NoHash]]
      [] s = "active"      -> [r EXCEPT !.active = TRUE]
      [] s = "inactive"    -> [r EXCEPT !.active = FALSE]
      [] s = "credit"      -> [r EXCEPT !.points = @ + Worth[op.what]]
      [] s = "hash"        -> [r EXCEPT !.hashes[op.slot] = op.what]
      [] s = "another"     -> [r EXCEPT !.count = op.slot]
      [] OTHER             -> r

(* Slip: the count is taken down whatever it is.                            *)
CountedSlip(s) ==
    CASE s = "counted" -> file.count + 1
      [] s = "uncounted" -> file.count - 1
      [] OTHER -> file.count

Counted(s) ==
    CASE s = "counted" -> file.count + 1
      [] s = "uncounted" /\ file.count > 0 -> file.count - 1
      [] OTHER -> file.count

Store(s) ==
    LET stages == op.stages
        rest   == Head(stages) \ {s}
    IN  /\ op # Idle /\ stages # <<>> /\ s \in Head(stages)
        /\ pool' = [pool EXCEPT ![op.id] = Stored(@, s)]
        /\ file' = [file EXCEPT !.count = Counted(s)]
        /\ op' = IF rest = {} /\ Len(stages) = 1 THEN Idle
                 ELSE [op EXCEPT !.stages = IF rest = {} THEN Tail(@)
                                            ELSE <<rest>> \o Tail(@)]
        /\ UNCHANGED <<sock, proc, ghostVars>>

Stores == {"name", "end_of_name", "text", "pass", "points", "count", "hashes",
           "active", "counted", "inactive", "uncounted", "credit", "hash",
           "another"}

-----------------------------------------------------------------------------
StartUp == InitOpens \/ InitTruncates \/ InitZeroes \/ InitWritesHeader
           \/ SetupUnlinks \/ SetupBinds

Request ==
    \/ \E n \in Names : Create(n)
    \/ \E i \in Ids : Delete(i) \/ \E ch \in Challenges : ChallengeVerify(i, ch)
    \/ RequestWithoutDb

Next ==
    \/ StartUp
    \/ Request
    \/ \E s \in Stores : Store(s)
    \/ Crash

Spec == Init /\ [][Next]_vars

-----------------------------------------------------------------------------
(* Properties.                                                              *)

Places == 1 .. MaxDone
Marks  == Lives \cup {Nobody, Torn}

(* The type invariant: counters and list positions stay in range.           *)
TypeOK ==
    /\ file \in [sized : BOOLEAN, magic : BOOLEAN, count : 0 .. UserPool + MaxCrashes]
    /\ pool \in [Ids -> [active : BOOLEAN, name : Marks, text : Marks, pass : Marks,
                         points : 0 .. MaxPoints, count : 0 .. MaxDone,
                         hashes : [Places -> Challenges \cup {NoHash}]]]
    /\ sock \in BOOLEAN
    /\ proc \in {"down", "sizing", "zeroing", "header", "unlink", "unlink_no_db",
                 "bind", "bind_no_db", "serving", "no_db", "exited"}
    /\ op = Idle \/ (op.id \in Ids /\ op.stages \in Seq(SUBSET Stores))
    /\ nameOf \in [Lives -> Names \cup {"no_name"}]
    /\ lives \in 0 .. MaxLives /\ crashes \in 0 .. MaxCrashes

(* Whatever the instruction at which the process is killed, and whatever    *)
(* order the compiler gives stores between two calls: an active record is   *)
(* wholly the work of one registration (cg_userdb.c:160-170), a challenge   *)
(* in its list has been paid for (cg_router.c:805-816), and of two active   *)
(* records the later was not begun with the name the earlier has            *)
(* (cg_userdb.c:155).  They can still have one name: when the later was     *)
(* begun with a longer one that is cut to it (cg_userdb.c:162-164).         *)
Completed(r) == Recorded(r) \ {NoHash}
Value(S)     == MapThenSumSet(LAMBDA ch : Worth[ch], S)

AskedApart(k, l) ==
    /\ k # l
    /\ k < l => NameKept(k) # nameOf[l]
    /\ l < k => NameKept(l) # nameOf[k]

ActiveIsWhole ==
    /\ \A i \in Active :
         /\ pool[i].name \in Lives
         /\ pool[i].text = pool[i].name /\ pool[i].pass = pool[i].name
         /\ pool[i].points >= Value(Completed(pool[i]))
    /\ \A i, j \in Active : i # j => AskedApart(pool[i].name, pool[j].name)

(* hdr.count is out by no more than one for every time the process was      *)
(* killed, and agrees when it never was: neither registrations nor          *)
(* deletions, repeated or on a count that is out already, make it drift.    *)
CountDrifts ==
    LET out   == file.count - Cardinality(Active)
        doubt == crashes + (IF op = Idle THEN 0 ELSE 1)
    IN  -doubt <= out /\ out <= doubt

(* The challenges recorded for a record, without a place counted before its *)
(* hash is stored: until then nobody reads it.                              *)
Settled(i) ==
    LET r       == pool[i]
        pending == op # Idle /\ op.id = i /\ \E k \in DOMAIN op.stages : "hash" \in op.stages[k]
    IN  IF ~r.active THEN {}
        ELSE {r.hashes[k] : k \in {k \in 1 .. r.count : ~(pending /\ k = op.slot)}} \ {NoHash}

(* Over crashes the file keeps what UserStore promises.                     *)
UserStoreView == INSTANCE UserStore WITH
    account <- [i \in Ids |-> IF pool[i].active THEN pool[i].pass ELSE Nobody],
    name    <- [i \in Ids |-> IF pool[i].active THEN NameKept(pool[i].name) ELSE "no_name"],
    points  <- [i \in Ids |-> IF pool[i].active THEN pool[i].points ELSE 0],
    done    <- [i \in Ids |-> Settled(i)]

ImplementsUserStore == UserStoreView!Spec
=============================================================================
