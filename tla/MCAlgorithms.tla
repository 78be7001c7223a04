---------------------------- MODULE MCAlgorithms ----------------------------
(* Inputs for Algorithms: vectors of four bytes, texts of a few characters, *)
(* names of four, every day a uint32_t of seconds can hold.                 *)
(* Bytes count to 128: the width of four is then within TLC's integers.     *)
EXTENDS Algorithms, TLC

Uri    == <<117, 114, 105, 95>>
Method == <<109, 101, 116, 104>>
Cookie == <<99, 111, 111, 107>>
Host   == <<104, 111, 115, 116>>
Sess   == <<83, 61>>

(* Destinations at every alignment, distances up to two vectors and one     *)
(* byte, lengths up to three.                                               *)
MCCopies == {c \in [dst : 4 .. 7, src : 4 .. 16, n : 0 .. 13] : c.src >= c.dst}

(* A text of ones from "at" on that ends after len bytes, a zero just       *)
(* before it or not; the other text differs at two places.                  *)
Marked(at, len, before, d) ==
    [a \in 0 .. 64 |->
       IF a = at + len \/ (before /\ a = at - 1) THEN 0
       ELSE IF a = 32 + d THEN 2 ELSE IF a = 32 + d + 3 THEN 0 ELSE 1]
MCStrings ==
    {[mem |-> Marked(at, len, before, d), at |-> at, other |-> 32, n |-> len] :
       at \in 4 .. 7, len \in 0 .. 10, before \in BOOLEAN, d \in 0 .. 12}

Pair(field, name, text, means, long, longText) ==
    [field |-> field, name |-> name, text |-> text, means |-> means,
     long |-> long, longText |-> longText]

(* Paths of up to four characters of which three fit, with a query or not;  *)
(* cookies in which the session stands alone, after, before others.         *)
Text(c, n) == [i \in 1 .. n |-> c]
Fits(n, m) == IF n < m THEN n ELSE m
Questions == {<<>>, <<Question>>, <<Question, 98, Question>>}
Tails     == {<<>>, <<Semicolon, 98>>}

MCPairs ==
    UNION {
      {Pair("uri", Uri, Text(97, n) \o q, Text(97, Fits(n, 3)), l, lt) :
         n \in 0 .. 4, q \in Questions, l \in BOOLEAN, lt \in BOOLEAN},
      {Pair("method", Method, Text(97, n), Text(97, Fits(n, 3)), l, FALSE) :
         n \in 2 .. 4, l \in BOOLEAN},
      {Pair("session", Cookie, h \o Sess \o Text(50, n) \o t, Text(50, Fits(n, 2)), FALSE, lt) :
         h \in {<<>>, <<83, Semicolon>>}, n \in 1 .. 3, t \in Tails, lt \in BOOLEAN},
      {Pair("none", Cookie, <<83>>, <<>>, FALSE, FALSE),
       Pair("none", Host, Sess \o <<49>>, <<>>, TRUE, TRUE)} }

(* Before a second pair of any kind stands one of a few.                    *)
Leading == {Pair("uri", Uri, <<98, 63>>, <<98>>, FALSE, TRUE),
            Pair("session", Cookie, Sess \o <<51, 51, 51>>, <<51, 51>>, TRUE, FALSE),
            Pair("none", Host, <<>>, <<>>, FALSE, FALSE)}
MCRecords == {<<p>> : p \in MCPairs} \cup {<<p, q>> : p \in Leading, q \in MCPairs}

(* Claims of lengths that reach the width of the sum, or do not; those that *)
(* bring it back to the last pair, or to one before.                        *)
MCClaims == [pairs : {<<>>} \cup {<<p>> : p \in Leading},
             len : {0, 1, LongestLength \div 2} \cup (LongestLength - 30) .. LongestLength]

(* Characters and the ways a browser writes them.                           *)
Written == { [text |-> <<97>>, value |-> <<97>>], [text |-> <<37, 54, 49>>, value |-> <<97>>],
             [text |-> <<43>>, value |-> <<32>>], [text |-> <<37, 50, 48>>, value |-> <<32>>],
             [text |-> <<37, 50, 98>>, value |-> <<43>>],
             [text |-> <<37, 50, 54>>, value |-> <<38>>],
             [text |-> <<37, 67, 51>>, value |-> <<195>>],
             [text |-> <<61>>, value |-> <<61>>] }
Values  == {[text |-> <<>>, value |-> <<>>]} \cup Written
           \cup {[text |-> a.text \o b.text, value |-> a.value \o b.value] : a, b \in Written}
FormKeys == {<<113, 49>>, <<113, 49, 48>>, <<113>>}
Opens    == {<<>>, <<Percent>>, <<Percent, 52>>, <<Percent, 122>>}
Field(k, v, o) == [key |-> k, text |-> v.text, open |-> o, value |-> v.value]
Fields   == {Field(k, v, <<>>) : k \in FormKeys, v \in Values}
Short    == {Field(k, v, o) : k \in FormKeys, o \in Opens,
                              v \in {w \in Values : Len(w.value) <= 1}}
MCForms ==
    [fields : {<<>>} \cup {<<f>> : f \in Fields} \cup {<<f, g>> : f, g \in Short},
     key : FormKeys, text : {<<34, 97, 10>>, <<92, 1, 110>>, <<92, 92, 9>>, <<31, 32>>}]

MCDays    == 0 .. 49710
MCSeconds == (0 .. 3700) \cup (82700 .. 86399)
MCCounts == 0 .. 2100

Ids == {<<97>>, <<97, 98>>, <<97, 98, 97>>, <<98>>, <<98, 97>>, <<98, 98>>}
Sorted(S) == SetToSortSeq(S, LAMBDA s, t : Strcmp(s, t) < 0)
MCLists == {[db |-> Sorted(S), id |-> id] : S \in SUBSET Ids, id \in Ids}
           \cup {[db |-> ChallengeDb, id |-> <<c, n>>] : c \in 102 .. 112, n \in 0 .. 6}

Sock  == <<83, 79>>
Entries == {<<83, 79, 61, 97>>, <<83, 79, 61>>, <<83, 61, 98>>, <<83, 79>>,
            <<83, 79, 75, 61, 99>>, <<83, 79, 61, 61, 100>>}
MCEnvs == UNION {[1 .. n -> Entries] : n \in 0 .. 3}

MCPools == UNION {[1 .. n -> {[active |-> a, points |-> p] : a \in BOOLEAN, p \in 0 .. 2}] :
                    n \in 0 .. 5}
=============================================================================
