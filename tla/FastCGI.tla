------------------------------- MODULE FastCGI -------------------------------
(***************************************************************************)
(* One client slot: the FastCGI connections that use it one after another, *)
(* the receive buffer, the record parser (src/src/core/cg_fastcgi.c) and   *)
(* the completion handlers around it (src/src/app/cg_app.c), against a web *)
(* server that sends a request in pieces of any size, waits for the answer *)
(* and may hang up at any time.                                            *)
(*                                                                         *)
(* A unit stands for the bytes a parser cannot use apart: HeaderSize units *)
(* make a record header.  The router is left out (module Accounts): a      *)
(* request that is ready is answered.  The rest of the buffer is moved to  *)
(* its front by cg_memcpy_avx2, Memcpy of module Memory, whose vectors are *)
(* Block units: four headers of eight bytes.                               *)
(***************************************************************************)
EXTENDS Integers, Sequences, SequencesExt, Memory

CONSTANTS HeaderSize,   \* CG_FASTCGI_HEADER_SIZE
          MaxPayload,   \* content and padding a header can announce
          MaxStdin,     \* CG_MAX_STDIN_LEN
          RxAddress,    \* where in a vector rx_buf begins
          Requests,     \* what the web server may ask
          Uris, Sessions, Absent,
          Garbage,      \* headers that misread bytes may look like
          MaxConns      \* bound: connections of the slot

(* Slip: the buffer without room for the last byte.                         *)
RxSizeSlip == MaxPayload - 1
RxSize == MaxPayload    \* CG_FASTCGI_CLIENT_RX_BUF_SIZE = 65535 + 255

Headers == [type : {"BEGIN", "PARAMS", "STDIN", "OTHER"},
            id : (0 .. 255) \X (0 .. 255), len : 0 .. MaxPayload, pad : 0 .. MaxPayload]
Size(h) == h.len + h.pad
NoHeader  == [type |-> "NONE"]
NoRequest == [id |-> <<0, 0>>]

(* The payload of any header fits, a misread one's too: two bytes of content*)
(* length and one of padding cannot say more.  An empty STDIN record ends a *)
(* request, so no other is empty.                                           *)
ASSUME FastCGIAssumption ==
    /\ HeaderSize \in Nat \ {0} /\ MaxPayload \in Nat /\ HeaderSize <= MaxPayload
    /\ MaxStdin \in Nat \ {0} /\ MaxConns \in Nat
    /\ RxAddress \in 0 .. (Block - 1)
    /\ \A h \in Garbage : h \in Headers /\ Size(h) <= MaxPayload
    /\ MaxPayload >= 3    \* content and padding of PARAMS below
    /\ NoRequest \notin Requests
    /\ \A r \in Requests :
         /\ r.keep \in BOOLEAN /\ r.uri \in Uris /\ r.session \in Sessions \cup {Absent}
         /\ r.id \in (0 .. 255) \X (0 .. 255) /\ r.other \in 0 .. MaxPayload
         /\ r.chunks \in Seq(1 .. MaxPayload)

VARIABLES conns,    \* connections accepted so far
          state,    \* of the slot and of the parser's loop
          asked,    \* the request the web server has sent or is sending
          stream,   \* units sent and not yet read
          hungUp,   \* the web server has closed its end
          cut,      \* some connection ended inside a payload (not in the code)
          spoiled,  \* this one's rest was moved by too little (not in the code)
          rx,       \* rx_buf, up to rx_buf_meta.valid
          pos,      \* rx_buf_meta.pos
          saved,    \* saved_hdr
          req,      \* the cg_client_req
          answer    \* request id bytes of the last answer

serverVars == <<conns, asked, stream, hungUp, cut>>
vars == <<serverVars, spoiled, state, rx, pos, saved, req, answer>>

(* Records: a header (type, request id, content and padding length) and     *)
(* what the content says.                                                   *)
Record(type, id, len, pad, r, no) ==
    [hdr |-> [type |-> type, id |-> id, len |-> len, pad |-> pad], of |-> r, no |-> no]

RecordsOf(r) ==
    << Record("BEGIN", r.id, 1, 0, r, 0), Record("PARAMS", r.id, 2, 1, r, 0),
       Record("OTHER", r.id, r.other, 0, r, 0) >>
    \o [k \in DOMAIN r.chunks |-> Record("STDIN", r.id, r.chunks[k], 0, r, k)]
    \o << Record("STDIN", r.id, 0, 1, r, 0) >>

UnitsOf(rec) == [j \in 1 .. (HeaderSize + Size(rec.hdr)) |-> [rec |-> rec, at |-> j]]
BytesOf(r)  == FlattenSeq([k \in DOMAIN RecordsOf(r) |-> UnitsOf(RecordsOf(r)[k])])
BodyIn(rec) == IF rec.hdr.type = "STDIN"
                 THEN SubSeq(UnitsOf(rec), HeaderSize + 1, HeaderSize + rec.hdr.len)
                 ELSE <<>>
BodyOf(r)   == FlattenSeq([k \in DOMAIN RecordsOf(r) |-> BodyIn(RecordsOf(r)[k])])

(* The request id crosses the wire high byte first; the program loads and   *)
(* stores it as a little-endian uint16_t.                                   *)
Load16(b)  == b[1] + 256 * b[2]
Store16(v) == <<v % 256, v \div 256>>
Bswap16(v) == (v % 256) * 256 + v \div 256

Init ==
    /\ conns = 0 /\ state = "free"
    /\ asked = NoRequest /\ stream = <<>> /\ hungUp = FALSE
    /\ cut = FALSE /\ spoiled = FALSE
    /\ rx = <<>> /\ pos = 0
    /\ saved = NoHeader
    /\ req = [id |-> 0, keep |-> FALSE, uri |-> Absent, session |-> Absent, body |-> <<>>]
    /\ answer = <<>>

-----------------------------------------------------------------------------
(* The web server.                                                          *)

(* Accepting: cg_fastcgi_client_init empties the buffers; saved_hdr and the *)
(* request stay as the previous connection left them.                       *)
Connect ==
    /\ state = "free" /\ conns < MaxConns
    /\ conns' = conns + 1
    /\ state' = "read"
    /\ asked' = NoRequest /\ stream' = <<>> /\ hungUp' = FALSE
    /\ rx' = <<>> /\ pos' = 0
    /\ spoiled' = FALSE
    /\ answer' = <<>>
    /\ UNCHANGED <<cut, saved, req>>

(* The next request of a kept connection follows when the last was read.    *)
Ask(r) ==
    /\ state = "read" /\ ~hungUp /\ asked = NoRequest /\ stream = <<>>
    /\ asked' = r
    /\ stream' = BytesOf(r)
    /\ UNCHANGED <<conns, hungUp, cut, spoiled, state, rx, pos, saved, req, answer>>

(* Hanging up keeps back what was not sent yet, any suffix of the stream.   *)
HangUp ==
    /\ state # "free" /\ ~hungUp
    /\ hungUp' = TRUE
    /\ \E n \in 0 .. Len(stream) : stream' = SubSeq(stream, 1, n)
    /\ UNCHANGED <<conns, asked, cut, spoiled, state, rx, pos, saved, req, answer>>

-----------------------------------------------------------------------------
(* Reading.                                                                 *)

Room == RxSize - Len(rx)

ReadData ==
    /\ state = "read" /\ stream # <<>>
    /\ \E n \in 1 .. Len(stream) :
         /\ n <= Room
         /\ rx' = rx \o SubSeq(stream, 1, n)
         /\ stream' = SubSeq(stream, n + 1, Len(stream))
    /\ pos' = 0
    /\ state' = "parse"
    /\ UNCHANGED <<conns, asked, hungUp, cut, spoiled, saved, req, answer>>

(* A read of nothing, at the end of the stream or into no room at all, and  *)
(* a failed one both close the connection.                                  *)
ReadEnds ==
    /\ state = "read"
    /\ Room = 0 \/ hungUp
    /\ state' = "free"
    /\ cut' = (cut \/ saved # NoHeader)
    /\ UNCHANGED <<conns, asked, stream, hungUp, spoiled, rx, pos, saved, req, answer>>

-----------------------------------------------------------------------------
(* cg_fastcgi_parse, a record at a time.                                    *)

(* What follows the parser: the rest of the buffer moves to its front.  The *)
(* two places may overlap.                                                  *)
RestAt(p) ==
    LET bytes == [a \in RxAddress .. (RxAddress + Len(rx) - 1) |-> rx[a - RxAddress + 1]]
        moved == Memcpy(bytes, RxAddress, RxAddress + p, Len(rx) - p)
    IN  [i \in 1 .. (Len(rx) - p) |-> moved[RxAddress + i - 1]]

RestIsSafe(p) == Safe(RxAddress, RxAddress + p, Len(rx) - p)
Watched(p)    == spoiled' = (spoiled \/ ~RestIsSafe(p))

(* Slip: the position is not set back.                                      *)
SlideFromSlip(p) == rx' = RestAt(p) /\ Watched(p) /\ UNCHANGED pos

SlideFrom(p) == rx' = RestAt(p) /\ Watched(p) /\ pos' = 0

WaitForMore ==
    /\ SlideFrom(pos)
    /\ state' = "read"
    /\ UNCHANGED <<serverVars, saved, req, answer>>

ParseEnds ==
    /\ state = "parse" /\ pos = Len(rx)
    /\ WaitForMore

HeaderIncomplete ==
    /\ state = "parse" /\ pos < Len(rx) /\ saved = NoHeader
    /\ Len(rx) - pos < HeaderSize
    /\ WaitForMore

HeaderAt(u) == IF u.at = 1 THEN {u.rec.hdr} ELSE Garbage

ParseHeader ==
    /\ state = "parse" /\ pos < Len(rx) /\ saved = NoHeader
    /\ Len(rx) - pos >= HeaderSize
    /\ saved' \in HeaderAt(rx[pos + 1])
    /\ pos' = pos + HeaderSize
    /\ state' = "record"
    /\ UNCHANGED <<serverVars, spoiled, rx, req, answer>>

InRecord == state = "record" \/ (state = "parse" /\ pos < Len(rx) /\ saved # NoHeader)

(* Slip: waits for one byte more than the payload has.                      *)
PayloadIncompleteSlip ==
    /\ InRecord /\ Len(rx) - pos <= Size(saved)
    /\ WaitForMore

PayloadIncomplete ==
    /\ InRecord /\ Len(rx) - pos < Size(saved)
    /\ WaitForMore

Content == SubSeq(rx, pos + 1, pos + saved.len)

(* The content is read as what the header says it is; when it is that       *)
(* record's own content it says what the record says.                       *)
Genuine == Content # <<>> /\ Head(Content).at = HeaderSize + 1
           /\ Head(Content).rec.hdr = saved

TakeRecord(type) ==
    /\ InRecord /\ Len(rx) - pos >= Size(saved)
    /\ saved.type = type
    /\ saved' = NoHeader
    /\ UNCHANGED <<serverVars, answer>>

NextRecord == pos' = pos + Size(saved) /\ state' = "parse" /\ UNCHANGED <<rx, spoiled>>

(* Slip: the session of the previous request stays.                         *)
ParseBeginSlip ==
    /\ TakeRecord("BEGIN")
    /\ \E keep \in BOOLEAN :
         /\ Genuine => keep = Head(Content).rec.of.keep
         /\ req' = [req EXCEPT !.keep = keep, !.id = Load16(saved.id), !.body = <<>>]
    /\ NextRecord

ParseBegin ==
    /\ TakeRecord("BEGIN")
    /\ \E keep \in BOOLEAN :
         /\ Genuine => keep = Head(Content).rec.of.keep
         /\ req' = [req EXCEPT !.keep = keep, !.id = Load16(saved.id),
                               !.body = <<>>, !.session = Absent]
    /\ NextRecord

ParseParams ==
    /\ TakeRecord("PARAMS")
    /\ IF Genuine
         THEN LET r == Head(Content).rec.of IN
              req' = [req EXCEPT !.uri = r.uri,
                                 !.session = IF r.session = Absent THEN @ ELSE r.session]
         ELSE \E u \in Uris \cup {req.uri}, s \in Sessions \cup {req.session} :
              req' = [req EXCEPT !.uri = u, !.session = s]
    /\ NextRecord

(* A record that does not fit is passed over; a later one may fit again.    *)
ParseStdin ==
    /\ TakeRecord("STDIN") /\ saved.len > 0
    /\ req' = IF Len(req.body) + saved.len < MaxStdin
                THEN [req EXCEPT !.body = @ \o Content] ELSE req
    /\ NextRecord

(* Slip: the padding of the last record is left in the buffer.              *)
ParseLastSlip ==
    /\ TakeRecord("STDIN") /\ saved.len = 0
    /\ SlideFrom(pos)
    /\ state' = "reply"
    /\ UNCHANGED req

ParseLast ==
    /\ TakeRecord("STDIN") /\ saved.len = 0
    /\ SlideFrom(pos + Size(saved))
    /\ state' = "reply"
    /\ UNCHANGED req

ParseOther ==
    /\ TakeRecord("OTHER")
    /\ NextRecord
    /\ UNCHANGED req

-----------------------------------------------------------------------------
(* Answering.  The records of the answer carry the request's id.            *)

Reply ==
    /\ state = "reply"
    /\ answer' = Store16(Bswap16(req.id))
    /\ state' = "write"
    /\ UNCHANGED <<serverVars, spoiled, rx, pos, saved, req>>

WriteEnds ==
    /\ state = "write"
    /\ IF req.keep
         THEN /\ rx' = <<>> /\ pos' = 0
              /\ saved' = NoHeader
              /\ state' = "read"
         ELSE state' = "free" /\ UNCHANGED <<rx, pos, saved>>
    /\ asked' = NoRequest
    /\ UNCHANGED <<conns, stream, hungUp, cut, spoiled, req, answer>>

WriteFails ==
    /\ state = "write" /\ hungUp
    /\ state' = "free"
    /\ UNCHANGED <<serverVars, spoiled, rx, pos, saved, req, answer>>

Next == \/ Connect \/ (\E r \in Requests : Ask(r)) \/ HangUp
        \/ ReadData \/ ReadEnds
        \/ ParseEnds \/ HeaderIncomplete \/ ParseHeader \/ PayloadIncomplete
        \/ ParseBegin \/ ParseParams \/ ParseStdin \/ ParseLast \/ ParseOther
        \/ Reply \/ WriteEnds \/ WriteFails

Spec == Init /\ [][Next]_vars

-----------------------------------------------------------------------------
(* The type invariant; the body leaves room for its terminating zero.       *)
TypeOK ==
    /\ conns \in 0 .. MaxConns
    /\ state \in {"free", "read", "parse", "record", "reply", "write"}
    /\ asked \in Requests \cup {NoRequest}
    /\ hungUp \in BOOLEAN
    /\ Len(rx) <= RxSize /\ pos \in 0 .. Len(rx)
    /\ saved \in Headers \cup {NoHeader}
    /\ req.keep \in BOOLEAN
    /\ req.uri \in Uris \cup {Absent} /\ req.session \in Sessions \cup {Absent}
    /\ Len(req.body) < MaxStdin

(* A read is never issued with no room left, whose empty result would be    *)
(* taken for the end of the stream (cg_app.c:283): the buffer is as large   *)
(* as the largest payload and a pending header is held outside it.          *)
ReadHasRoom == state = "read" => Room > 0

(* What the parser keeps of a body: of its records in their order those     *)
(* that still fit, each whole.  A body that fits is kept whole.             *)
KeptBy(r) ==
    LET recs == RecordsOf(r)
        kept[k \in 0 .. Len(recs)] ==
          IF k = 0 THEN <<>>
          ELSE IF Len(kept[k - 1]) + Len(BodyIn(recs[k])) < MaxStdin
                 THEN kept[k - 1] \o BodyIn(recs[k]) ELSE kept[k - 1]
    IN  kept

(* The parser is not disturbed: no connection of the slot ended inside a    *)
(* payload and no rest of this one was moved over itself by too little.  The*)
(* runs fastcgi_cut and fastcgi_slide show what happens in the two cases.   *)
Undisturbed == ~cut /\ ~spoiled

(* The router is handed the request that was asked, and of its body what    *)
(* fits, however the reads cut it and whatever earlier requests left in the *)
(* slot, if the parser is not disturbed.                                    *)
DeliveredIsAsked ==
    state = "reply" /\ Undisturbed =>
      /\ req.id = Load16(asked.id) /\ req.keep = asked.keep
      /\ req.uri = asked.uri /\ req.session = asked.session
      /\ req.body = KeptBy(asked)[Len(RecordsOf(asked))]

(* A request that has been read completely is answered: the server does not *)
(* wait for more, if the parser is not disturbed.                           *)
AllRead == asked # NoRequest /\ stream = <<>> /\ ~hungUp
CompleteRequestIsAnswered == AllRead /\ Undisturbed => state # "read"

(* The same when an earlier connection of the slot ended inside a record.   *)
(* test_fuzzing.py:44-54 starves the parser of most of a payload, hangs up  *)
(* and calls the next request left without an answer "Daemon deadlocked".   *)
SurvivesCutRecord == AllRead => state # "read"

(* Emptying the buffer of a kept connection throws nothing away, if the peer*)
(* asks only after its answer (Ask) and the parser is not disturbed.        *)
NothingDiscarded == state = "write" /\ Undisturbed => rx = <<>> /\ stream = <<>>

(* What is kept of a body is its beginning: cg_fastcgi_handle_stdin         *)
(* "accumulates data from FCGI_STDIN records into the request buffer"       *)
(* (cg_fastcgi.c:216).  A body that fits is kept whole, unless the rest of  *)
(* a record in the receive buffer is a vector long and was moved by less.   *)
BodyIsPrefix == state = "reply" /\ ~cut => IsPrefix(req.body, BodyOf(asked))

(* The answer carries the id of the request, high byte first                *)
(* (test_fastcgi.py:24-25, "Strictly enforce Big-Endian parsing").          *)
(* Not so for an id whose two bytes differ: see Reply.                      *)
AnswerCarriesId == state = "write" => answer = asked.id
=============================================================================
