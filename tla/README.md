# Verification of compuguessr

compuguessr is a quiz server in C without libc. One thread runs an event loop
over io_uring, speaks FastCGI to a web server, routes requests to handlers and
keeps users and sessions in memory-mapped files. This directory holds TLA+
models of its parts, the TLC configurations that check them, and TLAPS proofs
about the event loop, the rings, the parser, the tables, both databases and the
handlers.
Paths below are relative to the repository root.

## 1. The system

| part | source | state | operations |
|---|---|---|---|
| event loop | `src/app/cg_app.c`, `src/core/cg_client.c` | state of the listener; per client slot: pool state, connection state, descriptor, buffers | issuing pass, handlers of accept, read, write, close, timer |
| io_uring rings | `src/core/cg_uring.c` | mappings; submission ring and its index array, completion ring, shared with the kernel | set-up and clean-up, get an entry, enqueue, peek, wait, discard |
| FastCGI parser | `src/core/cg_fastcgi.c` | receive buffer (`valid`, `pos`), `saved_hdr`, the request | parse records, begin / params / stdin, build the answer |
| hash table | `src/data/cg_hashmap.c` | entries (unused, occupied, tombstone), count | get, insert, delete |
| session database | `src/data/cg_sessiondb.c` | mapped file: header, table, pool | open, create, get, delete |
| user database | `src/data/cg_userdb.c` | mapped file: header, pool | open, find, create, delete |
| router | `src/services/cg_router.c` | none of its own | one handler per route: accounts, challenges, statistics, leaderboard |
| challenge database | `src/data/cg_challengedb*.c` | constant tables | binary search |
| utilities, platform | `src/util`, `src/arch`, `src/platform` | clock buffer | copy, compare, hash, format, environment, log, time |

How they interact. The loop issues at most one operation per owner (listener,
timer, client slot) by writing an entry of the submission ring; a kernel thread
(SQPOLL) takes entries, performs the operations in any order and queues
completions; the loop hands each completion to its owner by the tag in
`user_data`. A read completion runs the parser; a complete request runs one
handler of the router to its end, and the handler calls the databases. The
answer goes out by write operations, then the slot reads again (kept
connection) or closes. Everything except the kernel, the web server and the end
of the process (at any instruction, the mapped files survive) is sequential.

What is hard: completions in any order and short writes against the per-slot
state machines; rings of 64 entries against 1024 slots; two processors that see
each other's stores late; slots, descriptors, records and table entries that are
reused while something may still refer to them; records cut anywhere by reads
and by hang-ups; a receive buffer whose rest is moved over itself by vectors; a
hash table with tombstones whose lookup has no bound; a crash between two
durable writes that the compiler may have reordered. `PROJECT.json` lists each
such hazard at its line, with the properties that would show it going wrong.

What makes each part correct:

* event loop: an entry that is handed out is free; one operation per owner, and
  the one its state waits for; descriptors neither leak nor are shared; the
  listener goes on accepting; the issuing pass recurs; slots come back; replies
  end;
* rings: they are queues, also while stores are under way, when counters wrap
  and when completions overflow; set-up reports a failure and gives back what it
  took; the kernel is told of every entry;
* parser: the router sees the request that was sent, however it was cut;
* hash table: a map, whose calls return;
* session database: an acknowledged session survives crashes and is nobody
  else's;
* user database: an account is whole or absent after a crash, its name is its
  own, and what is recorded as solved has been credited;
* accounts: unique names, right count, an account changes only by its own
  sessions, a cookie is a session of the account it was given for;
* pure routines: copies, searches, encodings and dates are what they stand for.

Not all of this holds of the code. Section 4 lists what does not, and what holds
in its place.

## 2. The modules

Names of definitions follow the C names (`cg_main_fastcgi_cqe_handle` is
`FastcgiCqeHandle`); `PROJECT.json` maps every definition to its lines. A
definition whose name is another's with a suffix (`...Slip`, `...Cuts`,
`...First`) is not part of any specification: it is that definition with a
plausible mistake, kept to show that the properties notice it.

| module | models | checked through |
|---|---|---|
| `EventLoop` | loop, client pool, ring limits, kernel | itself, `EventLoopProofs` |
| `RingQueue` | what the rings promise the loop, and the loop the rings | abstract specification of `Uring` and of `EventLoop` |
| `Uring` | set-up, rings and polling thread, one memory access per step | itself, `UringProofs` |
| `KVStore` | what a map promises | abstract specification of `Hashmap` |
| `HashmapOps` | the table as a value: what a whole call finds and leaves | `Hashmap`, `SessionDB` |
| `Hashmap` | the table, one probe per step | `MCHashmap` |
| `SessionStore` | what the session database promises | abstract specification of `SessionDB`; part of `Accounts` |
| `SessionDB` | the session file, one durable write per step, crashes | `MCSessionDB` |
| `UserStore` | what the user database promises | abstract specification of `UserDB` |
| `UserDB` | the user file, one store per step, crashes, restarts | `MCUserDB` |
| `Accounts` | handlers, user database, sessions | `MCAccounts` |
| `FastCGI` | one slot: buffer, parser, connections | `MCFastCGI` |
| `Memory` | copy, slide, fill, length and comparison by vectors | `FastCGI`, `MCAlgorithms` |
| `Decoders` | name-value pairs, forms, JSON text | `MCAlgorithms` |
| `Numbers` | numbers as text, time as a date | `MCAlgorithms` |
| `Tables` | string order, challenge search, environment, leaderboard | `MCAlgorithms` |
| `Algorithms` | the last four against what they are meant to compute | `MCAlgorithms` |
| `EventLoopProofs`, `UringProofs` | theorems about the module named | TLAPS |
| `FastCGIProofs` | theorems about `FastCGI` and the routines of `Memory` | TLAPS |
| `HashmapOpsProofs` | lemmas about the operators of `HashmapOps` | TLAPS |
| `HashmapProofs`, `SessionDBProofs`, `UserDBProofs`, `AccountsProofs` | theorems about the module named | TLAPS |

How they compose. `SessionDB` extends `HashmapOps` for its table: `Keys` are the
session ids, `Vals` the indices of the pool, `Capacity` the size of both (a call
of the table is one value there; `Hashmap` justifies this by showing that the walk
ends at the entry the operators name, `WalkFindsNearest`). `SessionDB`
implements `SessionStore`, and `Accounts` is built on `SessionStore`.
`Uring` implements the queues of `RingQueue` for a caller that has at most one
operation per owner under way, until an entry is handed out that the kernel has
not taken, and `EventLoop` is shown to be such a caller until then
(`UsesRingsAsQueues`): what each side assumes of the other, the other keeps. When
an entry may be handed out too early is a property of the caller, which enqueues
for more owners than there are entries: `OverrunNeedsCrowd` of `EventLoop`.
A handler that issues its owner's next operation is one step of `EventLoop`,
`RingQueue!HandleAgain`, and two of `Uring`. `EventLoop` and `FastCGI` meet in the read handler: `EventLoop`
leaves open whether a request is complete, `FastCGI` follows one slot and leaves
the other slots and the rings out. `FastCGI` extends `Memory` and moves its buffer with
`Memcpy`. `FastCGI` ends where the router begins, `Accounts` begins there.
`Accounts` has the calls of the user database whole and no crashes, `UserDB` has
their single stores and crashes and no sessions.

### EventLoop

`pc` is the place in `main`: `listener` and `clients` (the issuing pass, with
`cursor` the loop variable `i`), `peek`, `wait`, `handle`. `listener`, `cstate`
and `pool` are the C enumerations. `left` is `tx_meta.valid - tx_meta.pos`.
`sq` holds what was enqueued and not yet taken; `Push` also overwrites every
position that shares the entry, which is what `cg_uring_sqe_get` does to a ring
that has run full. `overrun` is not in the code: it remembers that this has
happened. After it an owner may have two operations or none, and little more can
be said; the properties that need the rings are stated for the time before. `inflight` is the kernel's, `cq` the completion ring. The
kernel takes entries in order, posts accept completions with `F_MORE` until one
fails or ends the multishot, may hand out a closed descriptor again at once,
and posts results of any length for reads and writes. No completion is lost
(`IORING_FEAT_NODROP`). The timer's entry has `len = 0`, which current kernels
refuse at once: either way its completion comes without anybody's help. The
handler's end and the peek after it are two steps (`CqDiscard`, `PeekNext`), so
that a completion can come between them, which is what keeps the inner loop going.

### Uring

`pc` is the place of the loop's thread, from `cg_uring_init` on; `held` is what
set-up has acquired, `ptr` where each ring's pointer leads. A mapping that fails
returns a negative error number, and only -1 is what the code compares with:
any other is "garbage", taken for an address, and its first use is the end of
the process. `mem` is what everybody sees of the words the loop writes, `buf`
the loop's stores that only the loop sees yet, in order, as on x86; `Drain` lets
one out, a system call lets all out. `kpc`, `khead`, `needWakeup` belong to the
polling thread, which checks the tail again after it has set its flag. An owner
of `Multishot` may complete several times. A handler reads its completion where
it lies in the ring, and may enqueue before it is discarded: `handled` says that
the completion at the head is done with and not yet given back. There may be
more owners than entries; `overrun`, not in the code, remembers that an entry was
handed out before the thread had taken it. The entry's content is its owner; the view of the rings that `RingQueue` is given reads them
through `buf`.

### FastCGI

Bytes are units; a header has `HeaderSize` units and every unit knows its
record and place, so the model can tell whether the parser reads a header where
one is. Where it is not, the header is any member of `Garbage` and the content
means anything. `state` is the slot's state together with the place in
`cg_fastcgi_parse`. The rest of the buffer is moved to its front as
`cg_memcpy_avx2` does it, with vectors of `Block` units and the buffer at
`RxAddress`. A body may be larger than its array: `KeptBy` is what the parser
keeps of it, the records that still fit. Two variables are not in the code. `cut`
remembers that a connection ended inside a payload, which the test
`test/e2e/test_fuzzing.py` does on purpose; `spoiled` that in this connection a
rest was moved over itself by too little, as `Safe` of `Memory` has it. The
properties that need a sane parser are stated for slots where neither has
happened (`Undisturbed`); what happens in the two cases, `fastcgi_cut` and
`fastcgi_slide` show. The pairs inside a PARAMS record are in `Decoders`.

### Hashmap, SessionDB

`call` and `op` hold the locals of the call in progress. In `SessionDB` the
file outlives `Crash`; `op` and the process do not. `proc = "rejected"` is a
file that was sized but never got its magic: the program refuses it for ever,
which is why that run turns off the check for deadlock. Session ids are chosen
by `getrandom`; an id that is in use is never drawn again (64 bits).
`DeleteMeetsCrash = FALSE` keeps deletions and crashes apart, see section 4.
A table entry is filled in one write: its key and value go into an entry whose key
no walk reads, its `occupied` is stored last (`cg_hashmap.c:111-113`), and the
table's count is in the process's memory. This relies on the order of the source,
which GCC 12 keeps with the flags of both builds (`mk/targets/prog.mk`: -O0, -Os);
the language would allow another, which is not modelled here.

### UserDB

A step is one store, or a call of a routine the compiler cannot see into. An
operation is a sequence of sets of stores: within a set they happen in any order,
which covers every order the compiler may choose between two opaque calls. A
field of a record is abstracted to the registration that wrote it, so that a
record that mixes two registrations shows; a name copied without its end is
`Torn`. `Cut` is what a record keeps of a name (31 bytes): the search compares all
of the name it is given with that. `proc` is the life of the process: it opens or
makes the file, tries to remove the old socket, without a look at the result,
binds, serves, and can be killed anywhere; it exits when the path is still
there. With a file that was
sized and never got its magic it serves until the first request that needs the
file (`"no_db"`). `nameOf` and `lives` are not in the code.

### Accounts

A handler runs to its end before the next request, so each is one action. A
request is any combination of route, cookie, name and password from small sets;
`Rejects` are the answers for wrong method, route or missing fields. `issued`,
`life` and `asked` are not in the code: they tell apart the accounts that have
lived in one record, and the name an account was registered with from the one it
was stored with (`Stored`). A lookup that never returns (full store, unknown cookie) takes no
step: nothing happens in the server after it.

### Algorithms

The four modules it extends hold operators only, each the translation of a
routine. A state of `Algorithms` is one input, picked by the first step; the
invariants compare what the routine computes with a definition that says what it
is for: a copy against the function of bytes, a binary search against
membership, a decoder against the text that was encoded, a date against the
count of days.

## 3. The runs

| run | result | shows |
|---|---|---|
| `event_loop` | pass, 2.0M states | `OneOperation`, `OperationMatchesState`, `FdOwnership`, `PoolAgreement` with two clients on a ring of three, up to the first entry overwritten; until then the loop uses the rings as `RingQueue` has them (`UsesRingsAsQueues`), and it comes only in a crowd (`OverrunNeedsCrowd`) |
| `event_loop_live` | pass, 870k states | `ClosingIsFreed`, `ReplyIsFinished`, `TickRecurs` under fairness; `ListenerStaysArmed`: what can stop the listener |
| `uring` | pass, 1.2M states | the rings are queues whatever order stores become visible in; set-up cleans up, and lacks only what failed unnoticed; a missed wake-up is made good by the next entry |
| `hashmap` | pass, 286k states | the table is a map and implements `KVStore`, also when it is full; calls return as long as an entry is unused |
| `session_db` | pass, 1.0M states | the file is consistent over crashes and implements `SessionStore`; no crash in or before a deletion |
| `user_db` | pass, 2.0M states | an account is whole or absent over crashes, the count is out by at most one per crash; implements `UserStore` |
| `accounts` | pass, 810k states | invariants of accounts, with names that are cut; whose request may change an account, and how |
| `accounts_reuse` | `SessionKeepsAccount` violated | the session of a deleted account opens its successor |
| `fastcgi` | pass, 1.7M states | requests arrive whole, are answered, nothing is thrown away, where no record was cut and no rest spoiled; a read always has room |
| `fastcgi_cut` | `SurvivesCutRecord` violated | a record cut by a hang-up is continued by the next connection |
| `fastcgi_slide` | `BodyIsPrefix` violated | moving the rest of the buffer by less than a vector corrupts it |
| `algorithms` | pass, 218k inputs | copies, searches, decoders and numbers agree with their definitions |

Bounds, and why they are enough.

* `event_loop`: two clients and two descriptors make a full pool, a descriptor
  closed by one slot and given to the other, and two clients' completions in
  either order. Replies of up to two units make short writes. The ring has three
  entries for four owners, as the code's has 64 for 1026: it overruns. A state
  with an entry overwritten is checked and not followed (the constraint
  `EntryIsAvailable`), because all properties but `TypeOK` and `PoolAgreement`
  speak of the time before. A connection is refused only when there is a
  descriptor more than slots, which is the case in `event_loop_live`. The theorems
  of section 5 lift the properties of both event loop runs, except the liveness,
  to every size; so they do for `uring`, `hashmap` and the rest.
* `event_loop_live`: one slot and two descriptors, so that connections are
  refused, and a ring of two for three owners, whose overruns are followed. The
  liveness properties are about one slot; the other slots act on it only by the
  order of the pass, which the listener and the timer also do.
* `uring`: two owners fill a ring of two, so that an entry is reused as soon as
  it is free; heads and tails wrap at `CounterMod` = 4 after two rounds; an owner
  that completes repeatedly overflows the completion ring of two, with
  `MaxBacklog` one completion behind it. `BufferSize` holds the stores of one
  enqueue and the head written before it; when it is full, a further store waits
  for the oldest to become visible. Two owners do not overrun two entries; for a larger
  crowd the refinement is proved (`RingsAreQueues`).
* `hashmap`: three entries and four keys, of which two hash to the last entry and
  two to the first: chains collide, wrap and merge, tombstones lie inside them,
  and the table fills, with one key left over that is looked up in vain.
* `session_db`: a pool of three, one session id more than fits, two of them
  colliding at the last index; two crashes, so that a crash can hit the
  recovery of another. `CountMod` stands for 2^32 and is larger than any count.
* `user_db`: two records and three registrations, so that a record that a crash
  left half written is used again; two kills, so that one meets what the other
  left; a list of `MaxDone` two challenges and `MaxPoints` three, so that a
  challenge credited and not recorded can be credited again; one name that is cut
  to the other.
* `accounts`: two records and two sessions, so that records are reused and the
  store fills; two challenges and room to record one; three accounts in all; one
  name that is cut to another and one that is not.
* `fastcgi`: headers of two units, payloads of up to six and vectors of `Block`
  four, so that reads cut headers, contents and padding and a rest can be shorter
  or longer than a vector; two requests (one kept connection with a cookie and a
  body in three records of which the second does not fit and the third does, one
  without); two connections of the slot, the second after any end of the first. A
  parser that has lost its place reads a header of the largest or of no payload.
  `fastcgi_slide` has a body that fits, so that the move alone is to blame.
* `algorithms`: vectors of four bytes at all alignments, lengths up to three of
  them, distances up to two and a byte; every day of the 49,711 that a
  `uint32_t` of seconds holds; records of up to two pairs, cut at every byte, and
  records that claim lengths at the ends of their range: there a byte counts to
  `Base` = 128 instead of 256, so that four of them fit into TLC's integers, and
  the sum of two lengths wraps as it does in the code; forms with escapes that are
  whole, cut, or of other characters than digits;
  tables of every subset of six ids and the real fifteen; up to three entries of
  the environment; pools of up to five accounts for a leaderboard of three.

Deadlock is checked except where the system may really stop: `uring` (set-up
failed, or the thread waits and no operation completes),
`session_db` (a refused file), `user_db` (a file without its magic, or no kills
left), `fastcgi` and its companions (`MaxConns` connections are over, or the
parser waits for a silent peer), `algorithms` (a state is one input).

Fairness. Three specifications use it, all of them weak. `EventLoop!FairSpec`: the
server's thread keeps running; the kernel takes entries, completes timers, writes
and closes; nothing makes a peer send, so reads and accepts may wait for ever. This
does not bring the inner loop to its end: the timer, armed again by its own
handler, may be complete at every peek (section 4, `PassRecurs`). So `ClosingIsFreed`
and `ReplyIsFinished` say two things: that an operation that is issued is answered,
which needs nothing more, and what becomes of a connection whose next operation is
still to be issued, which has `PassRecurs` for its premise. `TickRecurs` holds also
in a turn that never ends. All three are about a ring that is never overrun.
`Uring!FairSpec`: the loop and the polling thread run and stores become visible;
nothing makes an operation complete. `Hashmap!FairSpec`: a call that can take a
step takes it.

## 4. Where code and documents disagree

Three runs violate the property they check. They are findings, with the sentences
they contradict, in `PROJECT.json`:

| run | where | what the code does |
|---|---|---|
| `accounts_reuse` | `cg_router.c:458` | a deletion leaves the sessions of the account, and its record and id go to the next registration |
| `fastcgi_cut` | `cg_fastcgi.c:61` | `saved_hdr` outlives its connection |
| `fastcgi_slide` | `cg_app.c:355` | a copy for places apart moves a rest over itself |

For the other promises that the code does not keep, a passing run meets the case
and checks what does hold. The promise itself is defined too, without a run; TLC
refutes it when it is put in the place of the properties of the configuration
named (without that one's `CONSTRAINT`):

| promise | in | where | what the code does | what holds |
|---|---|---|---|---|
| `EntryIsAvailable`: "an available submission queue entry" (`cg_uring.c:106`) | `EventLoop.cfg` | `cg_uring.c:117` | an entry is handed out without a look at the ring's head; 64 entries serve 1026 owners | `OverrunNeedsCrowd`: up to 62 connections at a time do no harm; `UsesRingsAsQueues` until then |
| `ListenerArmed`: "enters the main event loop to handle FastCGI connections and internal ticks" (`cg_app.c:418`) | `EventLoopLive.cfg`, `SQEntries = 3` | `cg_app.c:234` | the early exit for a full pool skips the re-arming of the accept | `ListenerStaysArmed`: an overrun apart, it is the only case |
| `PassRecurs`, of the same sentence | `EventLoopLive.cfg`, `SQEntries = 3` | `cg_app.c:446` | the inner loop ends only at a peek that finds nothing, and the timer re-arms itself inside it | `TickRecurs`; `ClosingIsFreed` and `ReplyIsFinished` for what is issued |
| `SetUpReportsFailure`: "0 on success, or a negative error code if setup or memory mapping fails" (`cg_uring.c:35`) | `Uring.cfg` | `cg_uring.c:54` | a mapping that fails with an error other than -1 is not noticed; the process dies at its first use | `InitCleansUp`: nothing else is missing, and what is noticed is cleaned up |
| `EnqueueNotifies`: "handles the necessary memory barriers [...] to notify the kernel of the new entry" (`cg_uring.c:131-133`) | `Uring.cfg` | `cg_uring.c:153` | no full barrier lies between the store of the tail and the load of the wake-up flag | `LaterEnqueueWakes`: the next entry wakes the thread |
| `CallsReturn`: "A pointer to the cg_hashmap_entry if found and occupied, otherwise 0" (`cg_hashmap.c:30`) | `MCHashmap.cfg` | `cg_hashmap.c:42` | without an unused entry the lookup of an absent key does not end | `ReturnsWhileUnused`: the only case |
| `NamesUnique`: "first checks if the username already exists" (`cg_userdb.c:136-137`) | `MCAccounts.cfg` | `cg_userdb.c:162` | names are compared whole and stored in 31 bytes, so that two accounts can have one name | `NamesAskedApart` (in `PoolIsSound`): nobody registers with a name that an account has |
| `CookieIsLive`: "establishes an authenticated session" (`cg_router.c:633`; also 535, 577) | `MCAccounts.cfg` | `cg_router.c:610` | that no session was created is ignored, and the cookie is what the stack held | nothing that is not the handler itself |
| `AnswerCarriesId`: "Strictly enforce Big-Endian parsing" (`test_fastcgi.py:24-25`) | `MCFastCGI.cfg` | `cg_fastcgi.c:138` | the request's id is loaded in one byte order and stored in the other: the answer to 1 carries 256 | ids whose bytes are equal |

The models show more, which no document speaks of:

* `Decoders!Pairs`: the loop over the pairs of a record does not end when the
  record ends inside a four-byte name length (`cg_fastcgi.c:107`), nor when the
  32-bit sum of a pair's place and its two lengths wraps back to where the pair
  began (`cg_fastcgi.c:167`); `DecodersAgree` says exactly when it ends;
* `Decoders!Decoded`: a percent sign takes the two characters after it whatever they
  are, so that a value that ends in one runs into the next field
  (`cg_router.c:138`);
* `FastCGI!BodyIsPrefix` also fails for a body that is larger than its array: a
  record that does not fit is passed over and a later, smaller one appended
  (`cg_fastcgi.c:237`). `DeliveredIsAsked` says what is kept;
* `SessionDB!LookupReturns` fails as `CallsReturn` does: with as many sessions as
  entries the lookup of an unknown id does not end;
* `SessionDB!FoundIsActive` and `FileIsSound` fail with
  `DeleteMeetsCrash = TRUE`: a crash inside a deletion leaves a key to a free
  entry, and a deletion after a crash that lost a count takes the count below
  zero. The server never calls `cg_sessiondb_entry_delete`, so this concerns the
  library only.

## 5. What is proved

The theorems are in seven modules, the lemmas about tables that two of them share
in `HashmapOpsProofs`. Each holds for every value of the constants that the
assumption of its module allows (`EventLoopAssumption`, `UringAssumption`,
`AccountsAssumption`, `HashmapAssumption`, `SessionDBAssumption`, `UserDBAssumption`,
`MemoryAssumption`, `FastCGIAssumption`). These say that sizes are numbers, that
the hash is an index, that the counters' range is a multiple of the rings' sizes,
that special values are not ordinary ones, that a name cut twice is a name cut
once; TLC evaluates them in the runs. No size is bounded by another that the code
does not bound: clients and owners may be any number of times the entries, and
bodies larger than their array.

One hypothesis remains, for the two theorems `FileStaysSound` and `SessionsAreKept`:
`~DeleteMeetsCrash`, no crash inside a deletion and no deletion after a crash. It is
about a constant, and the code justifies it: the server never calls
`cg_sessiondb_entry_delete`. Where a property holds only up to an event that the
code does let happen (an entry overwritten, a record cut, a rest spoiled), the
property itself says so, by a variable that remembers the event; the run of the
property, or a violation run, meets the event.

### EventLoopProofs

| theorem | property | holds |
|---|---|---|
| `TypeCorrect`, `PoolAgrees` | `TypeOK`, `PoolAgreement` | always |
| `OneOperationEach` | `OneOperation` | until an entry is overwritten |
| `OperationsMatch`, `FdsOwned` | `OperationMatchesState`, `FdOwnership` | until then |
| `RingsUsedAsQueues` | `UsesRingsAsQueues` (refinement of `RingQueue`'s steps) | until then |
| `OverrunInCrowd` | `OverrunNeedsCrowd` (action property) | always: when that can happen |
| `ListenerDisarmedOnce` | `ListenerStaysArmed` (action property) | always |

`TypeOK` is not inductive: the handlers compute with results whose range depends
on who the completion is for. `TypeInv` adds `QueuesTagged`: the entries of the
rings carry the operations of their owners, accept completions carry a
descriptor or an error without `F_MORE`. `OneOperation` needs more: that an accept without `F_MORE` is the last the kernel
has for the listener (`ListenerLast`), or re-arming could double it. A step that
overwrites no entry had room (`RoomToPush`), so `Push` is a plain `Append` there
(`PushAppends`); `overrun` is never taken back (`OverrunStays`), so it is enough
that these steps keep `EachOnce` and `ListenerLast`, with the type as `RingInv`. The
step has one lemma per action.

`OverrunInCrowd` is where that pays: while nothing was overwritten, the entries in
the ring have different owners, all of them in use (`RingIsCrowd`), so the ring is
no longer than the crowd is large (`RingBound`), and the owner about to push is in
the crowd without an entry in the ring.

`LoopInv` is `RingInv` and `PoolAgreement`, `MatchInv` adds what is awaited
(`EachAsAwaited`): a slot's state, descriptor and length change only where
`EachOnce` says that nothing is outstanding for it. `FdInv` is `MatchInv` and
`EachFdOwned`: the close
outstanding for a slot is its only operation and closes its own descriptor, so
nobody else holds the number until the kernel has it back, and whoever gets it
next is its only owner.

`RingsUsedAsQueues` maps every action to a step of `RingQueue`: an owner is idle
there when it has nothing in the ring, nothing with the kernel and no last
completion waiting. The invariant is `LoopInv`. A push that overwrites nothing is
`Enqueue`, because a state that issues is one that `EachOnce` says nothing is
outstanding for; a
completion that is dispatched is `Handle` because only the listener's announce
more (`TaggedCompletions`), and the timer's handler is `HandleAgain`.

### UringProofs

`RingsTyped`, `SetUpGivesBack` (`TypeOK`, `InitCleansUp`) and the refinement
`RingsAreQueues` (`ImplementsQueue`), for any number of owners and entries, any
range of the counters that is a multiple of both rings, and a store buffer of any
size. The invariant `IInv` has two parts: the type and the set-up (`Typed`), which
an overwritten entry does not disturb, and what makes the rings queues (`RingsOK`,
`OwnersApart`), which holds until then.

The loop and the kernel see different memories. The proof is about all of them:
`Images(mem, buf)` is the sequence of memories as they are after none, one, ...
all of the loop's stores that are held back. The kernel sees the first, the loop
the last (`Looped`); a store appends an image, a store that becomes visible
removes the first, so the invariant has to hold of every image and then needs no
case for the moment at which a store arrives. It says (`RingsOK`):

* `TailsInOrder`, `HeadsInOrder`: a later image holds no fewer submissions and
  has given back no fewer completions;
* `EntriesFilled`: wherever an image has an entry, it has that entry's index too,
  and in it what the loop filled in last, so the thread never takes an entry
  that is not whole, nor one that is being refilled;
* `EntryBehindTail`: while an entry is filled, it is the one behind the tail;
* `RoomKept`: the completion ring is never fuller than its entries, judged by
  the head the kernel sees, which may be behind the loop's;
* `Handling`: where the loop can be while a completion is handled.

`OwnersApart` says that an owner is idle, enqueued, with the kernel or waiting in
a last completion, never two of these. The entry that `cg_uring_sqe_get` hands
out is none of those enqueued as long as these are fewer than the entries
(`EntryIsFree`), which is what `overrun` records. `SetUpOK` follows
what set-up holds and where its pointers lead. Counters are compared only by
`Dist`, the way round from one to the other; `Places` says how that fits with the
remainders that pick the entry. In the refinement `StoreTail`, `PollTakes`,
`Complete` and `HandleCqe` are the abstract steps; every other step, `Drain`
above all, is a stutter.

### HashmapOpsProofs, HashmapProofs

`HashmapTyped`, `HashmapWellFormed`, `WalksAreNearest` (`TypeOK`, `WellFormed`,
`WalkFindsNearest`) and the refinement `HashmapIsMap` (`ImplementsStore`), for any
capacity and any hash. `HashmapOpsProofs` has what a table-valued operator
leaves: that `Insert` and `Delete` preserve `WellFormedTable` (a tombstone keeps
the chain of every other key) and change what one key leads to. `HashInv` is
the three invariants and `CallIsOwn`: the walk for a place only begins for a
key that is absent, which makes the entry taken the key's only one. The
refinement follows from what `Insert` and `Delete` do to each key.

### SessionDBProofs

`SessionsTyped` (`TypeOK`) and `TableStaysMap` for every interleaving of calls,
durable writes and crashes; `FileStaysSound` (`FileIsSound`) and the refinement
`SessionsAreKept` (`ImplementsSessionStore`) under `~DeleteMeetsCrash`.
`TableInv` is the type, the stages of start-up (`Started`), `TableIsMap`, and that
a session being created is not mapped before `CreateMaps` (`NewIsUnmapped`),
which is what `Insert` needs. `StoreInv` adds that a mapped session leads to an
entry that is filled for it (`Owned`), that the entry of the call in progress is
nobody else's (`Reserved`), and how far each counter is out (`Counts`): by the
writes the call has still to make, and by one per crash. In the refinement a
session exists from the write that maps it on; `CreateMaps` and `DeleteUnmaps`
are the abstract steps and every other write, and every crash, is a stutter.

### UserDBProofs

`UserDBTyped`, `RecordsAreWhole`, `CountStaysClose` (`TypeOK`, `ActiveIsWhole`,
`CountDrifts`) and the refinement `AccountsSurvive` (`ImplementsUserStore`), for any
way of cutting names. The stores of an operation come in any
order its stages allow, so the invariant has to say what is true after any
part of them: `UnderWay` says, for each store not yet made, what its absence
still guarantees (until `active` is stored the record is not active; while
"hash" is left the challenge is not in the list), and for those made what they
wrote. `Whole` follows the records, `Unique` their names (the later of two was not
begun with the name the earlier keeps), `Drift` the count: it is off by
what the stores left would add, and by one per kill. A challenge that was stored
beyond the count by a kill is in `Listed` and has been paid for, so crediting it
again leaves points no lower than the list is worth.

### AccountsProofs

`AccountsTyped`, `CountIsExact`, `ChallengesArePaid` (`TypeOK`, `CountIsActive`,
`RecordsAreCredited`), `PoolStaysSound` (`PoolIsSound`), and the action property
`AccountsAreKept` (`AccountKept`), for any way of cutting names. `AccountsInv` takes the type and the count together, because
the count stays in the range of its type only for being exact. Each handler is
reduced to one of a few changes of the pool (`Registers`, `Unregisters`, ...), and
each property is proved of the changes; a change of one account comes with the
session it was asked with (`SessionCame`).

### FastCGIProofs

`MemcpyMoves`: the copy by vectors to a lower address, the last vector taken back
from the end, has the effect of the loop over bytes if the move is `Safe`, for
every alignment, length and `Block`; `MemcpySpoils`: if it is not, it spoils every
memory without equal bytes, so `Safe` asks no more than is needed. The other
vector routines of `Memory` do what `CopyMatches` and `SearchesAgree` check on
small inputs: `MemsetFills`, `MemcmpFindsFirst`, and `StrlenFindsEnd`, which also
says that only the aligned vectors around the string are read.

`FastCGITyped`, `ReadsHaveRoom` (`TypeOK`, `ReadHasRoom`) hold also for a parser that
has lost its place. `NothingIsLost`, `CompleteIsAnswered`, `DeliversWhatWasAsked`
(`NothingDiscarded`, `CompleteRequestIsAnswered`, `DeliveredIsAsked`) are about one
that is `Undisturbed`, for bodies of any size; `FittingIsWhole` says of `KeptBy`, by
which `DeliveredIsAsked` names the body, that it is the whole body if that fits.

`BufferInv` is the type and `Waiting`: what is kept for the next read is less than
a header, or less than the payload waited for, and a header or a payload fits
into the buffer, so there is room. `InPlace` says that the parser has not lost
its place: some record of the request comes next, the units in the buffer and on
the way are exactly the request's remaining ones (`Remain`, `ComesNext`), and
the slot has heard what the records before say (`Heard`). The move to the front
is where this could break: either it is `Safe`, and `MemcpyMoves` says that it
moves, or it is remembered as `spoiled`. A connection begins in its place also after
one whose rest was spoiled, because one that was not cut leaves no header behind
(`Clean`).

### Model-checked only

* The liveness properties: `ClosingIsFreed`, `ReplyIsFinished`, `TickRecurs`,
  `ReturnsWhileUnused`, `LaterEnqueueWakes`. Fairness and ENABLED are outside what the
  prover handles.
* `Algorithms`: the decoders, the numbers and the searches of tables, whose
  results are recursive functions of the input (what it says about `Memory` is
  proved for all inputs, as theorems about the operators). The library's
  induction theorems take an operator as parameter and cannot be instantiated
  here. Where a proof needs the value of such a function, as for the copy and the
  concatenation of records, it goes by the least argument at which the claim
  would fail, and a sum is proved as a count of units; for the decoders this has
  not been done.

## 6. Not modelled

* the hash functions: they are parameters (`Hash`) of the table's models;
* the byte loops `cg_memcpy`, `cg_memset`, `cg_strlen` and the SSE twin of
  `cg_strlen_avx2`, which compute what their names say; the bytes written by
  `cg_write_*` and `cg_puts`, one system call each;
* divisions by a reciprocal, taken as the exact quotients;
* reading the auxiliary vector and the symbol table of the vDSO, the log: input
  and output without state of their own;
* the scoring of a single answer: a submission is right or not;
* the ends of the stack buffers that form values are decoded into (such as
  `username[64]`, `cg_router.c:357`, 594, 651): `cg_get_form_value` is not told their
  size, and `Decoders` gives back the value whatever its length;
* another order of the stores of a table entry than the source's (section 2,
  `SessionDB`); the user database's stores are taken in any order;
* the assembly of the answer's records (one step of `FastCGI`) and its text;
* the assembly responder, which the program does not call; the browser client;
  the scripts that make the challenge tables; build and container.

`PROJECT.json` gives the reason per component.

## 7. Plan

Done: `EventLoop` first, because everything else runs inside it, then the data
structures from the bottom (`Hashmap`, `SessionDB`, `Accounts`), then `FastCGI`;
proofs of the event loop's core; then the rings' memory order (`Uring`), the user
file (`UserDB`), the pure routines (`Memory`, `Decoders`, `Numbers`, `Tables`).

Then the proofs: the event loop, the hash table, the session and user files, the
handlers and the FastCGI parser, with the refinements of `KVStore`,
`SessionStore` and `UserStore`; then the rings, with the refinement of `RingQueue`
from both sides. Then the cases the first models kept out: more owners than
entries, names that are cut, tables without an unused entry, bodies larger than
their array, rests longer than a vector, lengths whose sum wraps; with them the
theorems lost their hypotheses, and the properties came to say how far they hold.

Next, in this order:

1. the binary search of `Tables` against membership in a sorted table, the number
   a text of digits stands for against `Utoa`;
2. that the reciprocal divisions of `Numbers` are the exact quotients.
