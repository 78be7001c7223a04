----------------------------- MODULE Algorithms -----------------------------
(***************************************************************************)
(* The routines of modules Memory, Decoders, Numbers and Tables against    *)
(* what they are meant to compute.  A state is one input; from the start a *)
(* step picks any input of any kind.                                       *)
(***************************************************************************)
EXTENDS Memory, Decoders, Numbers, Tables

CONSTANTS Copies,     \* [dst, src, n]: moves within one memory
          Strings,    \* [mem, at, other, n]: two places in a memory
          Records,    \* sequences of pairs, each a PARAMS record
          Claims,     \* [pairs, len]: pairs before one whose lengths are not true
          Forms,      \* [fields, key, text]: a form, a key, a text for JSON
          Days,       \* days since the epoch
          Seconds,    \* seconds of a day
          Counts,     \* numbers to be written
          Lists,      \* [db, id]: a sorted table and what is looked for
          Envs,       \* environments
          Pools       \* sequences of accounts

VARIABLES kind, input

vars == <<kind, input>>

(* How the web server encodes a length, in a short or a long form.          *)
LongLength(len) == <<HighBit + len \div Base^3, (len \div Base^2) % Base,
                     (len \div Base) % Base, len % Base>>
Encoded(len, long) == IF long THEN LongLength(len) ELSE <<len>>
PairBytes(p) == Encoded(Len(p.name), p.long) \o Encoded(Len(p.text), p.longText)
                \o p.name \o p.text
RecordBytes(pairs) == FlattenSeq([k \in DOMAIN pairs |-> PairBytes(pairs[k])])

Init == kind = "none" /\ input = 0

Pick(k, inputs) ==
    /\ kind = "none" /\ kind' = k
    /\ input' \in inputs

(* A record may be cut anywhere inside its last pair.                       *)
PickRecord ==
    /\ kind = "none" /\ kind' = "record"
    /\ \E pairs \in Records :
         LET before == Len(RecordBytes(UpTo(Len(pairs) - 1, pairs))) IN
         \E cut \in (before + 1) .. Len(RecordBytes(pairs)) :
           input' = [pairs |-> pairs, cut |-> cut]

Next == \/ Pick("copy", Copies)    \/ Pick("string", Strings)
        \/ PickRecord              \/ Pick("claim", Claims)
        \/ Pick("form", Forms)
        \/ Pick("day", Days)       \/ Pick("second", Seconds)
        \/ Pick("count", Counts)
        \/ Pick("list", Lists)     \/ Pick("env", Envs)
        \/ Pick("pool", Pools)

Spec == Init /\ [][Next]_vars

-----------------------------------------------------------------------------
(* Copying.                                                                 *)

Moved(m, dst, src, n) ==
    [a \in DOMAIN m |-> IF a \in Span(dst, n) THEN m[a - dst + src] ELSE m[a]]

Numbered == [a \in 0 .. (8 * Block) |-> a]

(* A move towards the front, as of the rest of the receive buffer           *)
(* (cg_app.c:355) and of cg_memslide, is right unless the tail reads what   *)
(* was moved; a fill sets its bytes and no others.                          *)
CopyMatches ==
    kind = "copy" =>
      LET d == input.dst  s == input.src  n == input.n IN
      /\ (Memcpy(Numbered, d, s, n) = Moved(Numbered, d, s, n)) <=> Safe(d, s, n)
      /\ Memslide(Numbered, d, s, s - d + n)
           = [mem |-> Memcpy(Numbered, d, s, n), end |-> d + n]
      /\ Memset(Numbered, d, -1, n) = Fill(Numbered, d, -1, n)

-----------------------------------------------------------------------------
(* Searching.                                                               *)

Least(S) == CHOOSE i \in S : \A j \in S : i <= j

LengthIn(m, s) == Least({a \in DOMAIN m : a >= s /\ m[a] = 0}) - s

StringsAgree(m, p, q, n) ==
    /\ Strlen(m, p) = LengthIn(m, p)
    /\ LET D == Differ(m, p, q, n) IN
         Memcmp(m, p, q, n) = IF D = {} THEN 0 ELSE m[p + Least(D)] - m[q + Least(D)]

ListAgrees(db, id) ==
    LET i == Find(db, id)
    IN  IF \E k \in DOMAIN db : db[k] = id THEN i \in DOMAIN db /\ db[i] = id ELSE i = 0

EnvAgrees(env) ==
    LET I == {i \in DOMAIN env : IsEntryOf(env[i], SockKey)}
    IN  IF I = {} THEN EnvInit(env) = SockDefault /\ GetEnv(env, SockKey) = None
        ELSE /\ GetEnv(env, SockKey) = ValueOf(env[Least(I)], SockKey)
             /\ EnvInit(env) = ValueOf(env[Max(I)], SockKey)

(* Who stands before whom: more points, or as many and an earlier record.   *)
Ahead(users, i, j) ==
    users[i].points > users[j].points \/ (users[i].points = users[j].points /\ i < j)

BoardAgrees(users) ==
    LET top    == TopOf(users)
        on     == {top[k] : k \in DOMAIN top}
        active == {i \in DOMAIN users : users[i].active}
    IN  /\ on \subseteq active
        /\ Len(top) = Least({TopSize, Cardinality(active)})
        /\ \A k, l \in DOMAIN top : k < l => Ahead(users, top[k], top[l])
        /\ \A i \in on, j \in active \ on : Ahead(users, i, j)

(* Every search finds what is there, by its definition: the end of a string *)
(* at any alignment, the first difference of two texts, the entry of an id  *)
(* (cg_challengedb.c:30-34), the entry of the socket in the environment, the*)
(* "top 10 users by point total" (cg_router.c:475).                         *)
SearchesAgree ==
    /\ kind = "string" => StringsAgree(input.mem, input.at, input.other, input.n)
    /\ kind = "list" => ListAgrees(input.db, input.id)
    /\ kind = "env" => EnvAgrees(input)
    /\ kind = "pool" => BoardAgrees(input)

-----------------------------------------------------------------------------
(* Decoding.                                                                *)

(* The pairs that lie whole before the cut, and what is left of the next.   *)
Whole(pairs, cut) ==
    SelectSeq([k \in DOMAIN pairs |-> [ends |-> Len(RecordBytes(UpTo(k, pairs))),
                                       pair |-> pairs[k]]],
              LAMBDA e : e.ends <= cut)
Remnant(pairs, cut) ==
    cut - Len(RecordBytes(UpTo(Len(Whole(pairs, cut)), pairs)))

NoRequestYet == [uri |-> Absent, method |-> Absent, session |-> Absent]

(* Each pair says what a field is to be ("means"), or nothing ("none").     *)
Meant(pairs) ==
    FoldLeft(LAMBDA r, p : IF p.field = "none" THEN r ELSE [r EXCEPT ![p.field] = p.means],
             NoRequestYet, pairs)

(* A record of pairs, cut somewhere, that ends inside a four-byte length of *)
(* a name is read for ever (cg_fastcgi.c:107-109).                          *)
NameLengthCut(pairs, cut) ==
    LET whole == Len(Whole(pairs, cut)) IN
    /\ Remnant(pairs, cut) \in 1 .. 3
    /\ pairs[whole + 1].long

RecordAgrees(pairs, cut) ==
    LET buf  == UpTo(cut, RecordBytes(pairs))
        seen == Whole(pairs, cut)
    IN  /\ HandleParams(NoRequestYet, buf) = Meant([k \in DOMAIN seen |-> seen[k].pair])
        /\ Pairs(buf).ends <=> ~NameLengthCut(pairs, cut)

(* So is one with lengths whose sum comes round the width of uint32_t back  *)
(* to where some pair began (cg_fastcgi.c:167).  One that claims more than  *)
(* there is ends the reading.                                               *)
LongestLength == HighBit * Base^3 - 1

ClaimAgrees(pairs, len) ==
    LET before == RecordBytes(pairs)
        buf    == before \o LongLength(LongestLength) \o LongLength(len)
        stop   == Len(buf) + LongestLength + len
        starts == {Len(RecordBytes(UpTo(k, pairs))) : k \in 0 .. Len(pairs)}
    IN  /\ stop < Width => /\ Pairs(buf).ends
                           /\ HandleParams(NoRequestYet, buf) = Meant(pairs)
        /\ stop - Width \in starts => ~Pairs(buf).ends

(* A form as a browser sends it: a field is [key, text, open, value].  What *)
(* a browser does not send is a value that ends in an escape left open:     *)
(* a percent sign, or one and a character.                                  *)
FieldText(f) == f.key \o <<Equals>> \o f.text \o f.open

FormText(fields) ==
    FlattenSeq([k \in DOMAIN fields |->
        (IF k = 1 THEN <<>> ELSE <<Ampersand>>) \o FieldText(fields[k])])

(* An open escape takes what comes next, and the value goes on with the     *)
(* rest of the next field; at the end of the form it stands for itself.     *)
ValueOfField(fields) ==
    LET from[k \in 1 .. Len(fields)] ==
          LET f == fields[k] IN
          IF f.open = <<>> THEN f.value
          ELSE IF k = Len(fields) THEN f.value \o f.open
          ELSE LET next == Tail(f.open) \o <<Ampersand>> \o fields[k + 1].key \o <<Equals>>
               IN  f.value \o <<Escape(next[1], next[2])>> \o SubSeq(next, 3, Len(next))
                   \o from[k + 1]
    IN  from

FormAgrees(fields, key) ==
    LET I == {k \in DOMAIN fields : fields[k].key = key}
    IN  FormValue(FormText(fields), key) =
          IF I = {} THEN NotFound ELSE ValueOfField(fields)[Least(I)]

(* What a reader of JSON makes of an escaped text.                          *)
JsonRead(s) ==
    LET from[p \in 1 .. (Len(s) + 1)] ==
          IF p > Len(s) THEN <<>>
          ELSE IF s[p] = Backslash
            THEN <<CHOOSE c \in DOMAIN ShortEscapes : ShortEscapes[c] = s[p + 1]>>
                 \o from[p + 2]
          ELSE <<s[p]>> \o from[p + 1]
    IN  from[1]

JsonAgrees(s) ==
    JsonRead(JsonEscaped(s)) =
      SelectSeq(s, LAMBDA c : c >= 32 \/ c \in DOMAIN ShortEscapes)

(* What was encoded is what is decoded, whichever of the encodings was      *)
(* used, and also of a record that ends anywhere: cg_fastcgi_handle_params  *)
(* "extracts REQUEST_URI, REQUEST_METHOD, and HTTP_COOKIE"                  *)
(* (cg_fastcgi.c:151-153), cg_get_form_value a field by its key and not by  *)
(* the beginning of it (cg_router.c:110).  Of pairs that are not what they  *)
(* claim it says when the reading has no end, of escapes left open what     *)
(* they take, and that other fields are found as if they were closed.       *)
DecodersAgree ==
    /\ kind = "record" => RecordAgrees(input.pairs, input.cut)
    /\ kind = "claim" => ClaimAgrees(input.pairs, input.len)
    /\ kind = "form" => FormAgrees(input.fields, input.key) /\ JsonAgrees(input.text)

-----------------------------------------------------------------------------
(* Numbers.                                                                 *)

IsLeap(y) == y % 4 = 0 /\ (y % 100 # 0 \/ y % 400 = 0)
MonthLength(y, m) ==
    IF m = 2 THEN (IF IsLeap(y) THEN 29 ELSE 28)
    ELSE IF m \in {4, 6, 9, 11} THEN 30 ELSE 31

DayNumber(date) ==
    365 * (date.year - 1970)
    + Cardinality({y \in 1970 .. (date.year - 1) : IsLeap(y)})
    + MapThenSumSet(LAMBDA m : MonthLength(date.year, m), 1 .. (date.month - 1))
    + date.day - 1

Value(digits) == FoldLeft(LAMBDA v, d : 10 * v + d, 0, digits)

MomentAgrees(days, secs) ==
    LET t    == DatetimeStr(days, secs)
        At2(i) == Value(SubSeq(t, i, i + 1))
        date == [year |-> Value(UpTo(4, t)), month |-> At2(5), day |-> At2(7)]
    IN  /\ date.month \in 1 .. 12 /\ date.day \in 1 .. MonthLength(date.year, date.month)
        /\ DayNumber(date) = days
        /\ At2(11) \in 0 .. 59 /\ At2(13) \in 0 .. 59
        /\ 3600 * At2(9) + 60 * At2(11) + At2(13) = secs

(* Numbers keep their value through their text: a timestamp is the date of  *)
(* its second on every day a uint32_t can hold, a number written has no     *)
(* leading zero and reads back, and a session id survives its cookie (it is *)
(* read as far as it is digits, and modulo its width).                      *)
NumbersAgree ==
    /\ kind = "day" => MomentAgrees(input, 0)
    /\ kind = "second" => MomentAgrees(0, input)
    /\ kind = "count" =>
         /\ Value(Utoa(input)) = input /\ (Utoa(input)[1] = 0 => input = 0)
         /\ Itoa(-input) = IF input = 0 THEN <<0>> ELSE <<Minus>> \o Utoa(input)
         /\ GetSessionId(Utoa(input) \o <<Minus, 7>>) = input % WordSize
=============================================================================
