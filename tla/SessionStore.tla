---------------------------- MODULE SessionStore ----------------------------
(***************************************************************************)
(* What the session database promises: a session, once created, belongs to *)
(* its user until it is deleted.  Nothing else happens to it; in           *)
(* particular a restart of the server changes nothing.                     *)
(***************************************************************************)
CONSTANTS Sids, Uids, NoUid

VARIABLE sessions    \* the user of every session id, or NoUid

Init == sessions = [s \in Sids |-> NoUid]

Create(s, u) == /\ sessions[s] = NoUid
                /\ sessions' = [sessions EXCEPT ![s] = u]

Delete(s) == sessions' = [sessions EXCEPT ![s] = NoUid]

Next == \E s \in Sids : Delete(s) \/ \E u \in Uids : Create(s, u)

Spec == Init /\ [][Next]_sessions
=============================================================================
