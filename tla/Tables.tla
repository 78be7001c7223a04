------------------------------- MODULE Tables -------------------------------
(***************************************************************************)
(* Searches of tables that only start-up or the build writes, and of the   *)
(* accounts for the leaderboard: cg_strcmp and cg_get_env                  *)
(* (src/src/util/cg_util.c), cg_env_init (src/src/platform/cg_env.c),      *)
(* cg_challengedb_find (src/src/data/cg_challengedb.c) and                 *)
(* cg_route_api_leaderboard (src/src/services/cg_router.c).                *)
(*                                                                         *)
(* Text is a sequence of character codes.                                  *)
(***************************************************************************)
EXTENDS Integers, Sequences, SequencesExt

CONSTANTS SockKey,       \* FASTCGI_SOCK
          SockDefault,   \* CG_ENV_FASTCGI_SOCK_DEFAULT
          TopSize        \* places on the leaderboard, 10

ASSUME TablesAssumption == TopSize \in Nat \ {0}

EqualsSign == 61

(* Both strings end in a zero, which is less than any character.            *)
At(s, i) == IF i <= Len(s) THEN s[i] ELSE 0

Strcmp(s, t) ==
    LET stop == CHOOSE i \in 1 .. (Len(s) + 1) :
                  /\ At(s, i) = 0 \/ At(s, i) # At(t, i)
                  /\ \A j \in 1 .. (i - 1) : At(s, j) # 0 /\ At(s, j) = At(t, j)
    IN  At(s, stop) - At(t, stop)

-----------------------------------------------------------------------------
(* The environment, entries of the form KEY=value.                          *)
None == "none"

(* cg_get_env: the value of the first entry of the key.                     *)
IsEntryOf(entry, key) == IsPrefix(Append(key, EqualsSign), entry)
ValueOf(entry, key)   == SubSeq(entry, Len(key) + 2, Len(entry))

GetEnv(env, key) ==
    LET i == SelectInSeq(env, LAMBDA e : IsEntryOf(e, key))
    IN  IF i = 0 THEN None ELSE ValueOf(env[i], key)

(* cg_env_init: an entry is split at its first '='; of several that name    *)
(* the socket the last is kept.                                             *)
EnvInit(env) ==
    LET take(sock, entry) ==
          LET eq == SelectInSeq(entry, LAMBDA c : c = EqualsSign) IN
          IF eq # 0 /\ SubSeq(entry, 1, eq - 1) = SockKey
            THEN SubSeq(entry, eq + 1, Len(entry)) ELSE sock
    IN  FoldLeft(take, SockDefault, env)

-----------------------------------------------------------------------------
(* g_challengedb: an id is its subject and its number, in the order of the  *)
(* ids.                                                                     *)
Subjects == <<102, 105, 112>>    \* fuzzer, instruction, protocol
ChallengeDb == [k \in 1 .. 15 |-> <<Subjects[(k + 4) \div 5], ((k - 1) % 5) + 1>>]

(* cg_challengedb_find: the entry halfway between left and right decides on *)
(* which side to go on.  0 when there is none.                              *)

(* Slip: the search ends when one entry is left.                            *)
FindSlip(db, id) ==
    LET find[left \in 1 .. (Len(db) + 1), right \in 0 .. Len(db)] ==
          LET mid == left + (right - left) \div 2
              cmp == Strcmp(db[mid], id)
          IN  IF left >= right THEN 0
              ELSE IF cmp = 0 THEN mid
              ELSE IF cmp < 0 THEN find[mid + 1, right] ELSE find[left, mid - 1]
    IN  find[1, Len(db)]

Find(db, id) ==
    LET find[left \in 1 .. (Len(db) + 1), right \in 0 .. Len(db)] ==
          LET mid == left + (right - left) \div 2
              cmp == Strcmp(db[mid], id)
          IN  IF left > right THEN 0
              ELSE IF cmp = 0 THEN mid
              ELSE IF cmp < 0 THEN find[mid + 1, right] ELSE find[left, mid - 1]
    IN  find[1, Len(db)]

-----------------------------------------------------------------------------
(* The leaderboard: each active account, in the order of the pool, goes     *)
(* before the first on the board with fewer points, and the last falls off. *)
(* users is a sequence of [active, points].                                 *)
Enter(users, top, i) ==
    LET j == SelectInSeq(top, LAMBDA t : users[i].points > users[t].points)
    IN  SubSeq(IF j = 0 THEN Append(top, i) ELSE InsertAt(top, j, i), 1,
               IF Len(top) < TopSize THEN Len(top) + 1 ELSE TopSize)

TopOf(users) ==
    FoldLeft(LAMBDA top, i : IF users[i].active THEN Enter(users, top, i) ELSE top,
             <<>>, [i \in 1 .. Len(users) |-> i])
=============================================================================
