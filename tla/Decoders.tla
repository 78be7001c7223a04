------------------------------ MODULE Decoders ------------------------------
(***************************************************************************)
(* What the server takes out of bytes that others encoded: the name-value  *)
(* pairs of an FCGI_PARAMS record (src/src/core/cg_fastcgi.c) and the      *)
(* fields of a form (src/src/services/cg_router.c).                        *)
(*                                                                         *)
(* Text is a sequence of character codes, none of them 0.                  *)
(***************************************************************************)
EXTENDS Integers, Sequences, SequencesExt, Bitwise

CONSTANTS Base,                              \* 256, what a byte counts to
          UriName, MethodName, CookieName,   \* REQUEST_URI, ...
          SessionKey,                        \* SESSION=
          UriMax, MethodMax, SessionMax,     \* 127, 15, 31
          Absent

Chars(s, first, n) == SubSeq(s, first, first + n - 1)
UpTo(n, s)         == SubSeq(s, 1, IF Len(s) < n THEN Len(s) ELSE n)

(* s up to the first c, or all of it                                        *)
Before(s, c) == SubSeq(s, 1, SelectInSeq(s, LAMBDA x : x = c) - 1)
Until(s, c)  == IF Contains(s, c) THEN Before(s, c) ELSE s

-----------------------------------------------------------------------------
(* cg_fastcgi_len: a length of one byte, or of four with the high bit set.  *)
(* One that the end of the record cuts is 0 and takes no byte.              *)
HighBit == Base \div 2
Width   == Base^4            \* uint32_t

(* Slip: the three bytes that follow are not known to be there.             *)
LengthSlip(buf, off) ==
    IF off >= Len(buf) THEN [len |-> 0, off |-> off]
    ELSE IF buf[off + 1] < HighBit THEN [len |-> buf[off + 1], off |-> off + 1]
    ELSE [len |-> 0, off |-> off + 4]

Length(buf, off) ==
    IF off >= Len(buf) THEN [len |-> 0, off |-> off]
    ELSE IF buf[off + 1] < HighBit THEN [len |-> buf[off + 1], off |-> off + 1]
    ELSE IF off + 4 > Len(buf) THEN [len |-> 0, off |-> off]
    ELSE [len |-> (buf[off + 1] % HighBit) * Base^3 + buf[off + 2] * Base^2
                  + buf[off + 3] * Base + buf[off + 4],
          off |-> off + 4]

SessionAt(cookie) ==
    {i \in 0 .. (Len(cookie) - Len(SessionKey)) :
       Chars(cookie, i + 1, Len(SessionKey)) = SessionKey}

FirstOf(S) == CHOOSE i \in S : \A j \in S : i <= j

Question  == 63
Semicolon == 59

(* What a pair changes of the request.                                      *)
Take(req, name, val) ==
    CASE name = UriName    -> [req EXCEPT !.uri = Until(UpTo(UriMax, val), Question)]
      [] name = MethodName -> [req EXCEPT !.method = UpTo(MethodMax, val)]
      [] name = CookieName /\ SessionAt(val) # {} ->
           LET rest == SubSeq(val, FirstOf(SessionAt(val)) + Len(SessionKey) + 1, Len(val))
           IN  [req EXCEPT !.session = UpTo(SessionMax, Until(rest, Semicolon))]
      [] OTHER -> req

(* The pairs cg_fastcgi_handle_params reads, as <<name, value>>, and        *)
(* whether it comes to an end.  The end of a pair is added up modulo the    *)
(* width: it can lie before the pair, whose lengths are then far too long   *)
(* for any name it looks for.  A turn that comes back to a place where one  *)
(* began repeats for ever.                                                  *)
Pairs(buf) ==
    LET from[off \in 0 .. Len(buf), turns \in 0 .. (Len(buf) + 1)] ==
          LET n    == Length(buf, off)
              v    == Length(buf, n.off)
              stop == v.off + n.len + v.len
              next == stop % Width
              pair == IF stop # next THEN <<>>
                      ELSE <<<<Chars(buf, v.off + 1, n.len),
                               Chars(buf, v.off + n.len + 1, v.len)>>>>
          IN  IF off >= Len(buf) \/ next > Len(buf) THEN [read |-> <<>>, ends |-> TRUE]
              ELSE IF turns = 0 \/ next = off THEN [read |-> <<>>, ends |-> FALSE]
              ELSE [from[next, turns - 1] EXCEPT !.read = pair \o @]
    IN  from[0, Len(buf) + 1]

HandleParams(req, buf) ==
    FoldLeft(LAMBDA r, pair : Take(r, pair[1], pair[2]), req, Pairs(buf).read)

-----------------------------------------------------------------------------
(* cg_get_form_value.  A percent sign takes the two characters after it,    *)
(* whatever they are: hexadecimal digits, or the end of the field and the   *)
(* beginning of the next.                                                   *)
Ampersand == 38
Plus      == 43
Percent   == 37
Equals    == 61
Space     == 32
Char      == 256             \* char, signed: what is above 127 is negative

HexDigit(c) == IF c <= 57 \/ c > 127 THEN c - 48 ELSE (c | 32) - 97 + 10
Escape(h, l) == ((16 * HexDigit(h)) % Char) | (HexDigit(l) % Char)

(* A value, decoded up to the end of its field: the sequence and the rest.  *)
Decoded(s) ==
    LET at[p \in 1 .. (Len(s) + 1)] ==
          IF p > Len(s) \/ s[p] = Ampersand THEN <<>>
          ELSE IF s[p] = Plus THEN <<Space>> \o at[p + 1]
          ELSE IF s[p] = Percent /\ p + 2 <= Len(s)
            THEN <<Escape(s[p + 1], s[p + 2])>> \o at[p + 3]
          ELSE <<s[p]>> \o at[p + 1]
    IN  at[1]

NotFound == "not found"

FormValue(qs, key) ==
    LET from[p \in 1 .. (Len(qs) + 1)] ==
          LET stop == SelectInSubSeq(qs, p, Len(qs), LAMBDA c : c = Ampersand) IN
          IF p > Len(qs) THEN NotFound
          ELSE IF UpTo(Len(key) + 1, SubSeq(qs, p, Len(qs))) = Append(key, Equals)
            THEN Decoded(SubSeq(qs, p + Len(key) + 1, Len(qs)))
          ELSE IF stop = 0 THEN NotFound ELSE from[stop + 1]
    IN  from[1]

-----------------------------------------------------------------------------
(* append_json_escaped: short escapes, and no other control characters.     *)
Backslash == 92

ShortEscapes == [c \in {34, 92, 8, 12, 10, 13, 9} |->
                   CASE c = 8 -> 98 [] c = 12 -> 102 [] c = 10 -> 110
                     [] c = 13 -> 114 [] c = 9 -> 116 [] OTHER -> c]

Escaped(c) == IF c \in DOMAIN ShortEscapes THEN <<Backslash, ShortEscapes[c]>>
              ELSE IF c >= 32 THEN <<c>> ELSE <<>>

JsonEscaped(s) == FlattenSeq([i \in DOMAIN s |-> Escaped(s[i])])
=============================================================================
