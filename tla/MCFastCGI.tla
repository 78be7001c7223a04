------------------------------ MODULE MCFastCGI ------------------------------
(* FastCGI with headers of two units and payloads of up to six, and vectors*)
(* so short that a rest can be longer than one.                             *)
EXTENDS FastCGI, TLC

R(id, keep, uri, session, chunks) ==
    [id |-> id, keep |-> keep, uri |-> uri, session |-> session, chunks |-> chunks,
     other |-> 0]

(* With and without a cookie, a connection kept; a body of which the second *)
(* record does not fit and the third does, one longer than a vector.        *)
MCRequests == { R(<<0, 1>>, TRUE, "login", "sid", <<2, 4, 1>>),
                R(<<1, 2>>, FALSE, "profile", Absent, <<5>>) }
OneRequest == { R(<<0, 1>>, FALSE, "login", "sid", <<1>>) }

(* A body in one record that is longer than a vector.                       *)
LongBody == { R(<<0, 1>>, FALSE, "login", "sid", <<10>>) }

(* Bytes taken for a header by a parser that has lost its place.            *)
Misread(type, len) == [type |-> type, id |-> <<7, 7>>, len |-> len, pad |-> 0]
MCGarbage == { Misread("BEGIN", MaxPayload), Misread("STDIN", 0) }
=============================================================================
