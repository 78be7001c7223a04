------------------------------ MODULE UserStore ------------------------------
(***************************************************************************)
(* What the user database (src/src/data/cg_userdb.c) promises over crashes *)
(* of the server: an account appears whole and empty, goes only by a       *)
(* deletion, its points and completed challenges only grow while it lives, *)
(* and no challenge is recorded whose points were not credited.  Nobody    *)
(* registers under a name an account has, though what is kept of the name  *)
(* registered may be one.                                                  *)
(***************************************************************************)
EXTENDS Integers, FiniteSetsExt

CONSTANTS Ids, Names, Cut, Challenges, Worth, Lives

VARIABLES account,   \* the account each record holds, or Nobody
          name,      \* its name
          points,    \* points of each record's account
          done       \* challenges recorded for it

storeVars == <<account, name, points, done>>

Nobody == 0
NoName == "no_name"
Value(S) == MapThenSumSet(LAMBDA ch : Worth[ch], S)

Init ==
    /\ account = [i \in Ids |-> Nobody]
    /\ name = [i \in Ids |-> NoName]
    /\ points = [i \in Ids |-> 0]
    /\ done = [i \in Ids |-> {}]

Register(i, l, n) ==
    /\ account[i] = Nobody
    /\ \A j \in Ids : account[j] # l /\ name[j] # n
    /\ account' = [account EXCEPT ![i] = l]
    /\ name' = [name EXCEPT ![i] = Cut[n]]
    /\ UNCHANGED <<points, done>>

Unregister(i) ==
    /\ account[i] # Nobody
    /\ account' = [account EXCEPT ![i] = Nobody]
    /\ name' = [name EXCEPT ![i] = NoName]
    /\ points' = [points EXCEPT ![i] = 0]
    /\ done' = [done EXCEPT ![i] = {}]

Credit(i, ch) ==
    /\ account[i] # Nobody
    /\ points' = [points EXCEPT ![i] = @ + Worth[ch]]
    /\ UNCHANGED <<account, name, done>>

Complete(i, ch) ==
    /\ account[i] # Nobody /\ ch \notin done[i]
    /\ points[i] >= Value(done[i] \cup {ch})
    /\ done' = [done EXCEPT ![i] = @ \cup {ch}]
    /\ UNCHANGED <<account, name, points>>

Next ==
    \E i \in Ids :
      \/ \E l \in Lives, n \in Names : Register(i, l, n)
      \/ Unregister(i)
      \/ \E ch \in Challenges : Credit(i, ch) \/ Complete(i, ch)

Spec == Init /\ [][Next]_storeVars
=============================================================================
