------------------------------ MODULE Accounts ------------------------------
(***************************************************************************)
(* The request handlers of src/src/services/cg_router.c over the user      *)
(* database (src/src/data/cg_userdb.c) and the session store.  The server  *)
(* has one thread: a handler runs to its end before the next request.      *)
(*                                                                         *)
(* The session store is the abstract one, which module SessionDB           *)
(* implements, with the room it has.  "life" tells apart the accounts that *)
(* have lived in one record and "asked" is the name one was registered     *)
(* with; the program keeps neither.                                        *)
(***************************************************************************)
EXTENDS Integers, Sequences, FiniteSets, FiniteSetsExt

CONSTANTS Names,       \* usernames a request may carry
          Stored,      \* what cg_userdb_create keeps of a name: 31 bytes
          Passwords,
          Descriptions, NoDescription,
          Challenges,
          Worth,       \* total_points of each challenge
          UserPool,    \* CG_USERDB_POOL_SIZE
          Sids,        \* session ids; the store holds as many sessions
          MaxDone,     \* 32, the length of completed_hashes
          MaxPoints,   \* bound: the points an account may reach
          MaxLives     \* bound: how many accounts are ever created

ASSUME AccountsAssumption ==
    /\ Stored \in [Names -> Names] /\ \A n \in Names : Stored[Stored[n]] = Stored[n]
    /\ Names # {} /\ Passwords # {}
    /\ NoDescription \in Descriptions
    /\ Worth \in [Challenges -> Nat \ {0}]
    /\ UserPool \in Nat \ {0}
    /\ MaxDone \in Nat \ {0} /\ MaxPoints \in Nat /\ MaxLives \in Nat

Ids   == 1 .. UserPool      \* id = index + 1
Guest == 0                  \* user_id of a guest's session
NoUid == -1                 \* no session
None  == 0                  \* no cookie is set; session ids are not 0

ASSUME NoneIsNoSid == None \notin Sids

VARIABLES users,      \* the pool of user entries, by id
          count,      \* hdr.count of the user database
          sessions,   \* the session store
          issued,     \* the life each session was created for
          lives,      \* how many accounts have been created
          reply       \* what the last request was answered

vars == <<users, count, sessions, issued, lives, reply>>

Store == INSTANCE SessionStore WITH Uids <- {Guest} \cup Ids

Accounts == [active : BOOLEAN, name : Names, asked : Names, pass : Passwords,
             desc : Descriptions, points : 0 .. MaxPoints,
             done : Seq(Challenges), life : 0 .. MaxLives]

SomeName == CHOOSE n \in Names : TRUE

Unborn == [active |-> FALSE, name |-> SomeName, asked |-> SomeName,
           pass |-> CHOOSE p \in Passwords : TRUE, desc |-> NoDescription,
           points |-> 0, done |-> <<>>, life |-> 0]

NoReply == [status |-> 0, cookie |-> None, user |-> NoUid]
Answer(status, user) == reply' = [status |-> status, cookie |-> None, user |-> user]

Init ==
    /\ users = [i \in Ids |-> Unborn]
    /\ count = 0
    /\ Store!Init
    /\ issued = [s \in Sids |-> 0]
    /\ lives = 0
    /\ reply = NoReply

-----------------------------------------------------------------------------
(* The user database.  Lookups return the first active record that fits.    *)

Active     == {i \in Ids : users[i].active}
Named(n)   == {i \in Active : users[i].name = n}
First(S)   == Min(S)

-----------------------------------------------------------------------------
(* Requests.  The answers with which a handler returns early: wrong method  *)
(* or missing form value, which any handler that needs them may give.       *)

Rejects ==
    /\ \E status \in {404, 405, 400} : Answer(status, NoUid)
    /\ UNCHANGED <<users, count, sessions, issued, lives>>

(* cg_sessiondb_entry_create and the cookie the handler makes of its result.*)
(* The handlers do not look at the return value: when no session could be   *)
(* created the cookie holds whatever was on the stack.                      *)
Free == {s \in Sids : sessions[s] = NoUid}

LogIn(user, life) ==
    \/ \E s \in Free :
         /\ Store!Create(s, user)
         /\ issued' = [issued EXCEPT ![s] = life]
         /\ reply' = [status |-> 200, cookie |-> s, user |-> user]
    \/ /\ Free = {}
       /\ \E junk \in Sids :
            reply' = [status |-> 200, cookie |-> junk, user |-> user]
       /\ UNCHANGED <<sessions, issued>>

AuthGuest ==
    /\ LogIn(Guest, 0)
    /\ UNCHANGED <<users, count, lives>>

(* cg_userdb_create looks for the whole name and keeps what fits of it.     *)
NewAccount(n, p) ==
    [active |-> TRUE, name |-> Stored[n], asked |-> n, pass |-> p,
     desc |-> NoDescription, points |-> 0, done |-> <<>>, life |-> lives + 1]

(* Slip: the name is not looked up.                                         *)
AuthRegisterUnchecked(n, p) ==
    /\ Active # Ids /\ lives < MaxLives
    /\ LET i == First(Ids \ Active) IN
         /\ users' = [users EXCEPT ![i] = NewAccount(n, p)]
         /\ LogIn(i, lives + 1)
    /\ count' = count + 1
    /\ lives' = lives + 1

AuthRegister(n, p) ==
    \/ /\ Named(n) # {} \/ Active = Ids
       /\ Answer(409, NoUid)
       /\ UNCHANGED <<users, count, sessions, issued, lives>>
    \/ /\ Named(n) = {} /\ Active # Ids
       /\ lives < MaxLives
       /\ LET i == First(Ids \ Active) IN
            /\ users' = [users EXCEPT ![i] = NewAccount(n, p)]
            /\ LogIn(i, lives + 1)
       /\ count' = count + 1
       /\ lives' = lives + 1

Knows(n, p) == Named(n) # {} /\ users[First(Named(n))].pass = p

AuthLogin(n, p) ==
    /\ IF Knows(n, p)
         THEN LET i == First(Named(n)) IN LogIn(i, users[i].life)
         ELSE Answer(401, NoUid) /\ UNCHANGED <<sessions, issued>>
    /\ UNCHANGED <<users, count, lives>>

-----------------------------------------------------------------------------
(* Requests that carry a session cookie.  SessionUser is what               *)
(* cg_sessiondb_entry_get finds for it.  In a full store the lookup of an   *)
(* id that has no session never returns (LookupReturns of SessionDB): such  *)
(* a request, and every later one, takes no step.                           *)

Answers(s) == s \in Sids \ Free \/ Free # {}

SessionUser(s) == IF s \in Sids THEN sessions[s] ELSE NoUid

UserProfile(s) ==
    /\ Answers(s)
    /\ LET u == SessionUser(s) IN
         IF u = Guest \/ u \in Active THEN Answer(200, u) ELSE Answer(401, NoUid)
    /\ UNCHANGED <<users, count, sessions, issued, lives>>

UserProfileUpdate(s, d) ==
    /\ Answers(s)
    /\ LET u == SessionUser(s) IN
         IF u \in Active
           THEN users' = [users EXCEPT ![u].desc = d] /\ Answer(200, u)
           ELSE Answer(401, NoUid) /\ UNCHANGED users
    /\ UNCHANGED <<count, sessions, issued, lives>>

PublicProfile(n) ==
    /\ IF Named(n) # {} THEN Answer(200, First(Named(n))) ELSE Answer(404, NoUid)
    /\ UNCHANGED <<users, count, sessions, issued, lives>>

(* The points of the account of the session; without one, 0.                *)
UserStats(s) ==
    /\ Answers(s)
    /\ LET u == SessionUser(s) IN Answer(200, IF u \in Active THEN u ELSE NoUid)
    /\ UNCHANGED <<users, count, sessions, issued, lives>>

(* The board is module Tables's TopOf over the points of Active; the        *)
(* answer tells here only that it is given to everybody.                    *)
ShowLeaderboard ==
    /\ Answer(200, NoUid)
    /\ UNCHANGED <<users, count, sessions, issued, lives>>

(* Slip: a deletion is counted whether or not the account was there.        *)
UserDeleteSlip(s) ==
    /\ Answers(s)
    /\ SessionUser(s) \in Ids
    /\ Answer(200, SessionUser(s))
    /\ users' = [users EXCEPT ![SessionUser(s)].active = FALSE]
    /\ count' = count - 1
    /\ UNCHANGED <<sessions, issued, lives>>

(* The account goes, its sessions stay; the answer is the same when the     *)
(* account was gone already.                                                *)
UserDelete(s) ==
    /\ Answers(s)
    /\ LET u == SessionUser(s) IN
         IF u \in Ids
           THEN /\ Answer(200, u)
                /\ IF u \in Active
                     THEN /\ users' = [users EXCEPT ![u].active = FALSE]
                          /\ count' = IF count > 0 THEN count - 1 ELSE 0
                     ELSE UNCHANGED <<users, count>>
           ELSE Answer(401, NoUid) /\ UNCHANGED <<users, count>>
    /\ UNCHANGED <<sessions, issued, lives>>

(* Slip: a full list is started anew.                                       *)
CreditRestarts(a, ch) ==
    [a EXCEPT !.points = @ + Worth[ch],
              !.done = IF \E i \in DOMAIN @ : @[i] = ch THEN @
                       ELSE IF Len(@) < MaxDone THEN Append(@, ch) ELSE <<ch>>]

(* Points are added every time all answers are right; the challenge is      *)
(* recorded once, while there is room.                                      *)
Credit(a, ch) ==
    [a EXCEPT !.points = @ + Worth[ch],
              !.done = IF Len(@) < MaxDone /\ \A i \in DOMAIN @ : @[i] # ch
                         THEN Append(@, ch) ELSE @]

ChallengeVerify(s, ch, earned) ==
    /\ Answers(s)
    /\ LET u == SessionUser(s) IN
         \/ u = NoUid /\ Answer(401, NoUid) /\ UNCHANGED users
         \/ /\ u # NoUid /\ Answer(200, u)
            /\ IF earned = Worth[ch] /\ u \in Active
                 THEN /\ users[u].points + earned <= MaxPoints
                      /\ users' = [users EXCEPT ![u] = Credit(@, ch)]
                 ELSE UNCHANGED users
    /\ UNCHANGED <<count, sessions, issued, lives>>

-----------------------------------------------------------------------------
Cookies == Sids \cup {None}

Next ==
    \/ Rejects
    \/ AuthGuest
    \/ ShowLeaderboard
    \/ \E n \in Names, p \in Passwords : AuthRegister(n, p) \/ AuthLogin(n, p)
    \/ \E n \in Names : PublicProfile(n)
    \/ \E s \in Cookies :
         \/ UserProfile(s)
         \/ UserStats(s)
         \/ UserDelete(s)
         \/ \E d \in Descriptions : UserProfileUpdate(s, d)
         \/ \E ch \in Challenges : \E earned \in 0 .. Worth[ch] :
              ChallengeVerify(s, ch, earned)

Spec == Init /\ [][Next]_vars

-----------------------------------------------------------------------------
(* The type invariant.                                                      *)
TypeOK ==
    /\ users \in [Ids -> Accounts]
    /\ count \in 0 .. UserPool
    /\ sessions \in [Sids -> {NoUid, Guest} \cup Ids]
    /\ issued \in [Sids -> 0 .. MaxLives]
    /\ lives \in 0 .. MaxLives
    /\ reply \in [status : {0, 200, 400, 401, 404, 405, 409},
                  cookie : Cookies, user : {NoUid, Guest} \cup Ids]

(* hdr.count stays the number of active accounts over any series of         *)
(* registrations and (repeated) deletions.                                  *)
CountIsActive == count = Cardinality(Active)

(* A name belongs to one account: cg_userdb_create "first checks if the     *)
(* username already exists" (cg_userdb.c:136-137).                          *)
(* Not so: NamesAskedApart says how far.                                    *)
NamesUnique == \A i, j \in Active : users[i].name = users[j].name => i = j

SumOfWorth(q) ==
    LET worth == [i \in DOMAIN q |-> Worth[q[i]]]
    IN  MapThenSumSet(LAMBDA i : worth[i], DOMAIN q)

(* A challenge is recorded at most once, in no more places than there are,  *)
(* and never without its points having been credited to the same account.   *)
RecordsAreCredited ==
    \A i \in Active :
      LET q == users[i].done IN
      /\ Len(q) <= MaxDone
      /\ \A j, k \in DOMAIN q : q[j] = q[k] => j = k
      /\ users[i].points >= SumOfWorth(q)

(* The later of two accounts was not registered with the name the earlier   *)
(* has (cg_userdb.c:155).  They can still have one name: when the later was *)
(* registered with a longer one that is cut to it (cg_userdb.c:162-164).    *)
NamesAskedApart ==
    \A i, j \in Active : users[i].life < users[j].life => users[j].asked # users[i].name

(* What every series of requests leaves in the pool: no name given to one   *)
(* who asked for another's, a header that counts the accounts, challenges   *)
(* that were paid.                                                          *)
PoolIsSound == NamesAskedApart /\ CountIsActive /\ RecordsAreCredited

(* An account changes only by a request that came with a session of its     *)
(* record (cg_router.c:458, 497, 805), never by one of a guest, of another  *)
(* record, or without a session, and by no registration into a record in    *)
(* use.  While it lives it keeps its name and password, and its points and  *)
(* completed challenges only grow.  The session may be one created for an   *)
(* account the record held before: see SessionKeepsAccount.                 *)
CameFrom(i) == reply'.user = i /\ \E s \in Sids : sessions[s] = i

SameLife(i) == users[i].active /\ users'[i].active /\ users'[i].life = users[i].life

Grows(i) ==
    /\ users'[i].name = users[i].name /\ users'[i].pass = users[i].pass
    /\ users'[i].points >= users[i].points
    /\ SubSeq(users'[i].done, 1, Len(users[i].done)) = users[i].done

AccountKept ==
    [][\A i \in Active : users'[i] # users[i] =>
         /\ CameFrom(i)
         /\ IF SameLife(i) THEN Grows(i) ELSE ~users'[i].active]_vars

(* The handler "generates a guest session ID and sets the authentication    *)
(* cookie", "creates a new user account and authenticates the resulting     *)
(* user", "establishes an authenticated session" (cg_router.c:535,577,633): *)
(* the cookie of an answer is a session of the user answered.               *)
(* Not so with a full store of sessions: see LogIn.                         *)
CookieIsLive == reply.cookie # None => sessions[reply.cookie] = reply.user

(* After a deletion the sessions of the account give access to nothing      *)
(* (test_profile.py:58-60 expects 401): a session that resolves to an       *)
(* account resolves to the one it was created for.                          *)
SessionKeepsAccount ==
    \A s \in Sids : sessions[s] \in Active => users[sessions[s]].life = issued[s]
=============================================================================
