-------------------------------- MODULE Uring --------------------------------
(***************************************************************************)
(* The rings of src/src/core/cg_uring.c between the thread of the main     *)
(* loop and the kernel's polling thread (IORING_SETUP_SQPOLL).             *)
(*                                                                         *)
(* A processor of the x86 family sees its own stores at once and lets the  *)
(* others see them later, in order: "buf" holds the loop's stores that     *)
(* only the loop sees.  Release stores and acquire loads are plain there;  *)
(* a system call begins with the buffer empty.  The kernel uses full       *)
(* barriers, its steps act on the memory itself.                           *)
(*                                                                         *)
(* The caller has at most one operation outstanding per owner;             *)
(* UsesRingsAsQueues of EventLoop says that the main loop is such a caller.*)
(* Nothing keeps the owners fewer than the ring has entries (main has 1026 *)
(* for 64): "overrun" remembers that an entry was handed out which the     *)
(* kernel had not taken, and what the rings promise they promise up to     *)
(* that moment.                                                            *)
(***************************************************************************)
EXTENDS Integers, Sequences, FiniteSets, FiniteSetsExt, SequencesExt

CONSTANTS Owners,      \* who may have an operation outstanding
          Multishot,   \* owners whose operation may complete more than once
          SqEntries,   \* params.sq_entries
          CqEntries,   \* params.cq_entries
          CounterMod,  \* 2^32, the range of heads and tails
          BufferSize,  \* bound: stores the processor may hold back
          MaxBacklog   \* bound: completions waiting for room in the ring

ASSUME UringAssumption ==
    /\ Owners \subseteq Nat \ {0}
    /\ Multishot \subseteq Owners
    /\ SqEntries \in Nat \ {0} /\ CqEntries \in Nat \ {0}
    /\ CounterMod \in Nat
    /\ CounterMod % SqEntries = 0 /\ CounterMod % CqEntries = 0
    /\ CounterMod > SqEntries /\ CounterMod > CqEntries
    /\ BufferSize \in Nat \ {0} /\ MaxBacklog \in Nat

VARIABLES pc,          \* where the loop's thread stands
          handled,     \* the completion at the head is handled, not discarded
          held,        \* what cg_uring_init has acquired and not given back
          ptr,         \* the region each ring's pointer leads to
          sqeTail,     \* ctx->sqe_tail
          overrun,     \* history: an entry was handed out before it was taken
          cur,         \* owner of the entry being filled
          idx,         \* its index
          idle,        \* owners with no operation outstanding
          mem,         \* the words of the rings that the loop writes
          buf,         \* its stores that the kernel does not see yet
          kpc,         \* where the polling thread stands
          khead,       \* head of the submission ring
          needWakeup,  \* IORING_SQ_NEED_WAKEUP
          inflight,    \* operations the kernel works on
          cqTail,      \* tail of the completion ring
          cqes,        \* its entries
          backlog      \* completions that found it full

initVars == <<held, ptr>>
sqeVars  == <<sqeTail, overrun>>
loopVars == <<pc, handled, sqeVars, cur, idx, idle>>
pollVars == <<kpc, khead, needWakeup>>
cqVars   == <<cqTail, cqes, backlog>>
vars == <<initVars, loopVars, mem, buf, pollVars, inflight, cqVars>>

Regions == {"sq", "cq", "sqe"}
Unset   == "unset"    \* the pointer was never assigned
Failed  == "failed"   \* MAP_FAILED
Garbage == "garbage"  \* any other negative error taken for an address

SqTail   == <<"sq tail", 0>>
CqHead   == <<"cq head", 0>>
Index(i) == <<"array", i>>
Sqe(i)   == <<"sqe", i>>
Words == {SqTail, CqHead}
         \cup {Index(i) : i \in 0 .. (SqEntries - 1)}
         \cup {Sqe(i) : i \in 0 .. (SqEntries - 1)}

Zeroed  == 0          \* an entry after cg_memset_avx2: a no-op of nobody
Entries == Owners \cup {Zeroed}
Inc(n)  == (n + 1) % CounterMod
Dist(from, to) == (to - from) % CounterMod   \* unsigned difference

Init ==
    /\ pc = "setup" /\ handled = FALSE
    /\ held = {} /\ ptr = [r \in Regions |-> Unset]
    /\ sqeTail = 0 /\ overrun = FALSE /\ cur = Zeroed /\ idx = 0
    /\ idle = Owners
    /\ mem = [w \in Words |-> 0] /\ buf = <<>>
    /\ kpc = "poll" /\ khead = 0 /\ needWakeup = FALSE
    /\ inflight = {}
    /\ cqTail = 0 /\ cqes = [i \in 0 .. (CqEntries - 1) |-> <<Zeroed, FALSE>>]
    /\ backlog = <<>>

ringVars == <<handled, sqeVars, cur, idx, idle, mem, buf, pollVars, inflight, cqVars>>

-----------------------------------------------------------------------------
(* cg_uring_init.  A mapping that fails returns a negative error number;    *)
(* the code notices only -1, MAP_FAILED, and takes any other for an address.*)

SetupFails ==
    /\ pc = "setup" /\ pc' = "returned"
    /\ UNCHANGED <<initVars, ringVars>>

Setup ==
    /\ pc = "setup" /\ pc' = "map sq"
    /\ held' = {"fd"}
    /\ UNCHANGED <<ptr, ringVars>>

(* One mapping: where to go on when it succeeded (or seemed to) and where   *)
(* when it failed.                                                          *)
Map(r, next, cleanup) ==
    /\ \/ ptr' = [ptr EXCEPT ![r] = r] /\ held' = held \cup {r} /\ pc' = next
       \/ ptr' = [ptr EXCEPT ![r] = Garbage] /\ pc' = next /\ UNCHANGED held
       \/ ptr' = [ptr EXCEPT ![r] = Failed] /\ pc' = cleanup /\ UNCHANGED held
    /\ UNCHANGED ringVars

MapSq == pc = "map sq" /\ Map("sq", "map cq", "close")

(* IORING_FEAT_SINGLE_MMAP: both rings lie in one mapping.                  *)
MapCq ==
    /\ pc = "map cq"
    /\ \/ /\ ptr' = [ptr EXCEPT !["cq"] = ptr["sq"]] /\ pc' = "map sqe"
          /\ UNCHANGED <<held, ringVars>>
       \/ Map("cq", "map sqe", "unmap sq")

MapSqe == pc = "map sqe" /\ Map("sqe", "turn", "unmap cq")

(* Slip: the completion ring is unmapped also where it is the other one.    *)
UnmapCqSlip ==
    /\ pc = "unmap cq" /\ pc' = "unmap sq"
    /\ held' = held \ {ptr["cq"]}
    /\ UNCHANGED <<ptr, ringVars>>

UnmapCq ==
    /\ pc = "unmap cq" /\ pc' = "unmap sq"
    /\ held' = IF ptr["cq"] # ptr["sq"] THEN held \ {ptr["cq"]} ELSE held
    /\ UNCHANGED <<ptr, ringVars>>

UnmapSq ==
    /\ pc = "unmap sq" /\ pc' = "close"
    /\ held' = held \ {ptr["sq"]}
    /\ UNCHANGED <<ptr, ringVars>>

CloseRing ==
    /\ pc = "close" /\ pc' = "returned"
    /\ held' = held \ {"fd"}
    /\ UNCHANGED <<ptr, ringVars>>

(* main does not look at the result: the first turn of its loop writes to   *)
(* an entry, to the index array and reads the completion ring, and the      *)
(* process dies where one of them is not there.                             *)
Usable == \A r \in Regions : ptr[r] \in held

UsesUnmapped ==
    /\ pc = "returned" \/ (pc = "turn" /\ ~Usable)
    /\ pc' = "dead"
    /\ held' = {}
    /\ UNCHANGED <<ptr, ringVars>>

-----------------------------------------------------------------------------
(* What the loop sees of a word, and its stores.                            *)

View(w) ==
    LET own == {i \in DOMAIN buf : buf[i][1] = w}
    IN  IF own = {} THEN mem[w] ELSE buf[Max(own)][2]

Store(w, v) ==
    /\ Len(buf) < BufferSize
    /\ buf' = Append(buf, <<w, v>>)
    /\ UNCHANGED mem

Drain ==
    /\ buf # <<>>
    /\ mem' = [mem EXCEPT ![Head(buf)[1]] = Head(buf)[2]]
    /\ buf' = Tail(buf)
    /\ UNCHANGED <<initVars, loopVars, pollVars, inflight, cqVars>>

-----------------------------------------------------------------------------
(* Submission: cg_uring_sqe_get, the caller fills the entry,                *)
(* cg_uring_sq_enqueue.  The caller is the issuing pass, or a handler whose *)
(* completion is still to be discarded (cg_main_timestamp_tick).  No one    *)
(* looks at the head: the entry may be one the kernel has still to take.    *)

SqeGet(o) ==
    /\ pc \in {"turn", "discard"} /\ Usable /\ o \in idle
    /\ pc' = "fill"
    /\ cur' = o /\ idle' = idle \ {o}
    /\ idx' = sqeTail % SqEntries
    /\ Store(Sqe(sqeTail % SqEntries), Zeroed)
    /\ sqeTail' = Inc(sqeTail)
    /\ overrun' = (overrun \/ Dist(khead, sqeTail) >= SqEntries)
    /\ UNCHANGED <<initVars, handled, pollVars, inflight, cqVars>>

Fill ==
    /\ pc = "fill" /\ pc' = "index"
    /\ Store(Sqe(idx), cur)
    /\ UNCHANGED <<initVars, handled, sqeVars, cur, idx, idle, pollVars,
                   inflight, cqVars>>

StoreIndex ==
    /\ pc = "index" /\ pc' = "tail"
    /\ Store(Index(View(SqTail) % SqEntries), idx)
    /\ UNCHANGED <<initVars, handled, sqeVars, cur, idx, idle, pollVars,
                   inflight, cqVars>>

(* Slip: the tail runs on without wrapping.                                 *)
StoreTailSlip ==
    /\ pc = "tail" /\ pc' = "flags"
    /\ Store(SqTail, View(SqTail) + 1)
    /\ UNCHANGED <<initVars, handled, sqeVars, cur, idx, idle, pollVars,
                   inflight, cqVars>>

StoreTail ==
    /\ pc = "tail" /\ pc' = "flags"
    /\ Store(SqTail, Inc(View(SqTail)))
    /\ UNCHANGED <<initVars, handled, sqeVars, cur, idx, idle, pollVars,
                   inflight, cqVars>>

Onward == IF handled THEN "discard" ELSE "turn"

(* Slip: the flag is not looked at.                                         *)
LoadFlagsSlip ==
    /\ pc = "flags" /\ pc' = Onward
    /\ UNCHANGED <<initVars, handled, sqeVars, cur, idx, idle, mem, buf, pollVars,
                   inflight, cqVars>>

(* No fence before the load: the tail may still be in the buffer.           *)
LoadFlags ==
    /\ pc = "flags"
    /\ pc' = IF needWakeup THEN "wake" ELSE Onward
    /\ UNCHANGED <<initVars, handled, sqeVars, cur, idx, idle, mem, buf, pollVars,
                   inflight, cqVars>>

EnterWakeup ==
    /\ pc = "wake" /\ buf = <<>>
    /\ pc' = Onward
    /\ kpc' = "poll" /\ needWakeup' = FALSE
    /\ UNCHANGED <<initVars, handled, sqeVars, cur, idx, idle, mem, buf, khead,
                   inflight, cqVars>>

-----------------------------------------------------------------------------
(* Completions: peek, wait, discard.  cg_uring_cqe_wait looks before and    *)
(* after its system call; entering the kernel moves completions that found  *)
(* no room into the ring.                                                   *)

CqEmpty == View(CqHead) = cqTail

LoopAt(from, to) ==
    /\ pc = from /\ pc' = to
    /\ UNCHANGED <<initVars, handled, sqeVars, cur, idx, idle, pollVars, inflight>>

CqPeek ==
    /\ Usable
    /\ IF CqEmpty THEN LoopAt("turn", "wait") ELSE LoopAt("turn", "handle")
    /\ UNCHANGED <<mem, buf, cqVars>>

CqeWaitFinds ==
    /\ ~CqEmpty
    /\ LoopAt("wait", "handle") \/ LoopAt("blocked", "handle")
    /\ UNCHANGED <<mem, buf, cqVars>>

CqeWaitEnters ==
    /\ CqEmpty /\ buf = <<>>
    /\ LoopAt("wait", "blocked")
    /\ LET n == Min({Len(backlog), CqEntries}) IN
         /\ cqTail' = (cqTail + n) % CounterMod
         /\ cqes' = [i \in DOMAIN cqes |->
                       LET d == Dist(cqTail, i) % CqEntries
                       IN  IF d < n THEN backlog[d + 1] ELSE cqes[i]]
         /\ backlog' = SubSeq(backlog, n + 1, Len(backlog))
    /\ UNCHANGED <<mem, buf>>

(* The call is interrupted, or the ring is empty after it.                  *)
CqeWaitFails ==
    /\ LoopAt("blocked", "turn")
    /\ UNCHANGED <<mem, buf, cqVars>>

(* The handler reads the entry where it lies in the ring; main's switch has *)
(* no case for a completion of nobody.                                      *)
HandleCqe ==
    /\ pc = "handle" /\ pc' = "discard" /\ handled' = TRUE
    /\ LET e == cqes[View(CqHead) % CqEntries]
       IN  idle' = IF e[2] THEN idle ELSE idle \cup ({e[1]} \ {Zeroed})
    /\ UNCHANGED <<initVars, sqeVars, cur, idx, mem, buf, pollVars, inflight, cqVars>>

Discard(n) ==
    /\ pc = "discard" /\ pc' = "turn" /\ handled' = FALSE
    /\ Store(CqHead, n)
    /\ UNCHANGED <<initVars, sqeVars, cur, idx, idle, pollVars, inflight, cqVars>>

(* Slip: the whole ring is discarded, not the one completion handled.       *)
CqDiscardSlip == Discard(cqTail)

CqDiscard == Discard(Inc(View(CqHead)))

-----------------------------------------------------------------------------
(* The kernel.                                                              *)

(* The polling thread takes an entry: the index the array holds at its      *)
(* head, and what the entry at that index holds.                            *)
PollTakes ==
    /\ kpc = "poll" /\ khead # mem[SqTail]
    /\ inflight' = inflight \cup {mem[Sqe(mem[Index(khead % SqEntries)])]}
    /\ khead' = Inc(khead)
    /\ UNCHANGED <<initVars, loopVars, mem, buf, kpc, needWakeup, cqVars>>

(* It has seen nothing for its idle time: it raises the flag (with a full   *)
(* barrier), looks once more, and sleeps.                                   *)
PollFlags ==
    /\ kpc = "poll" /\ khead = mem[SqTail] /\ Usable
    /\ kpc' = "recheck" /\ needWakeup' = TRUE
    /\ UNCHANGED <<initVars, loopVars, mem, buf, khead, inflight, cqVars>>

PollRechecks ==
    /\ kpc = "recheck"
    /\ IF khead = mem[SqTail]
         THEN kpc' = "asleep" /\ UNCHANGED needWakeup
         ELSE kpc' = "poll" /\ needWakeup' = FALSE
    /\ UNCHANGED <<initVars, loopVars, mem, buf, khead, inflight, cqVars>>

CqRoom == Dist(mem[CqHead], cqTail) < CqEntries

Complete(o, more) ==
    /\ o \in inflight
    /\ more => o \in Multishot
    /\ inflight' = IF more THEN inflight ELSE inflight \ {o}
    /\ IF backlog = <<>> /\ CqRoom
         THEN /\ cqes' = [cqes EXCEPT ![cqTail % CqEntries] = <<o, more>>]
              /\ cqTail' = Inc(cqTail)
              /\ UNCHANGED backlog
         ELSE /\ Len(backlog) < MaxBacklog
              /\ backlog' = Append(backlog, <<o, more>>)
              /\ UNCHANGED <<cqTail, cqes>>
    /\ UNCHANGED <<initVars, loopVars, mem, buf, pollVars>>

-----------------------------------------------------------------------------
UringInit == SetupFails \/ Setup \/ MapSq \/ MapCq \/ MapSqe
             \/ UnmapCq \/ UnmapSq \/ CloseRing \/ UsesUnmapped

Enqueue == Fill \/ StoreIndex \/ StoreTail \/ LoadFlags \/ EnterWakeup

LoopStep ==
    \/ \E o \in Owners : SqeGet(o)
    \/ Enqueue
    \/ CqPeek \/ CqeWaitFinds \/ CqeWaitEnters \/ HandleCqe \/ CqDiscard

Poll == PollTakes \/ PollRechecks

Next ==
    \/ UringInit
    \/ LoopStep \/ CqeWaitFails
    \/ Drain
    \/ Poll \/ PollFlags
    \/ \E o \in Entries, more \in BOOLEAN : Complete(o, more)

Spec == Init /\ [][Next]_vars

(* Fairness: both threads run and the buffer empties; nothing makes an      *)
(* operation complete, a peer may be silent for ever.                       *)
FairSpec == Spec /\ WF_vars(LoopStep) /\ WF_vars(Drain) /\ WF_vars(Poll)

-----------------------------------------------------------------------------
(* Properties.                                                              *)

(* The type invariant: counters stay in their width, and what the kernel    *)
(* takes are entries the loop wrote, also after an overrun.                 *)
TypeOK ==
    /\ pc \in {"setup", "map sq", "map cq", "map sqe", "unmap cq", "unmap sq",
               "close", "returned", "dead", "turn", "fill", "index", "tail",
               "flags", "wake", "wait", "blocked", "handle", "discard"}
    /\ handled \in BOOLEAN
    /\ held \subseteq Regions \cup {"fd"}
    /\ ptr \in [Regions -> Regions \cup {Unset, Failed, Garbage}]
    /\ sqeTail \in 0 .. (CounterMod - 1) /\ overrun \in BOOLEAN
    /\ cur \in Entries /\ idx \in 0 .. (SqEntries - 1)
    /\ idle \subseteq Owners /\ inflight \subseteq Entries
    /\ mem \in [Words -> Nat] /\ mem[SqTail] < CounterMod /\ mem[CqHead] < CounterMod
    /\ buf \in Seq(Words \X Nat) /\ Len(buf) <= BufferSize
    /\ kpc \in {"poll", "recheck", "asleep"} /\ needWakeup \in BOOLEAN
    /\ khead \in 0 .. (CounterMod - 1) /\ cqTail \in 0 .. (CounterMod - 1)
    /\ cqes \in [0 .. (CqEntries - 1) -> Entries \X BOOLEAN]
    /\ backlog \in Seq(Entries \X BOOLEAN)

(* When cg_uring_init notices that one of its steps failed, it gives back   *)
(* all it had acquired, each thing once, whether or not the rings share a   *)
(* mapping and whatever failed unnoticed before (cg_uring.c:87-96); and     *)
(* where it reports success a mapping is missing only if it failed with an  *)
(* error other than -1.  "garbage" is no mapping: unmapping it does nothing.*)
InitCleansUp ==
    /\ pc = "returned" => held = {}
    /\ pc = "turn" => {ptr[r] : r \in Regions} \subseteq held \cup {Garbage}
    /\ pc = "unmap cq" => {ptr["cq"], ptr["sq"]} \subseteq held \cup {Garbage}
    /\ pc = "unmap sq" => ptr["sq"] \in held \cup {Garbage}

(* cg_uring_init returns "0 on success, or a negative error code if setup   *)
(* or memory mapping fails" (cg_uring.c:35): where main goes on to its      *)
(* loop, every mapping is there.                                            *)
(* Not so: InitCleansUp says what is missing then.                          *)
SetUpReportsFailure == pc = "turn" => Usable

(* What the loop has enqueued and the kernel not taken, as the loop sees    *)
(* it, and the completions not yet handled.                                 *)
Enqueued ==
    [i \in 1 .. Dist(khead, View(SqTail)) |->
       View(Sqe(View(Index((khead + i - 1) % SqEntries))))]

Unhandled ==
    LET head == IF handled THEN Inc(View(CqHead)) ELSE View(CqHead)
    IN  [i \in 1 .. Dist(head, cqTail) |-> cqes[(head + i - 1) % CqEntries]]
        \o backlog

Queue == INSTANCE RingQueue
           WITH sq <- Enqueued, cq <- Unhandled,
                idle <- idle \cup (IF pc \in {"fill", "index", "tail"}
                                     THEN {cur} ELSE {})

(* Until an entry is handed out that was not taken, the rings are queues:   *)
(* whatever the order in which stores become visible, entries are taken in  *)
(* order and as they were filled, and no completion is lost, handled twice  *)
(* or overwritten while its handler reads it, also when the completion ring *)
(* overflows and when the counters wrap.                                    *)
ImplementsQueue ==
    Queue!Init /\ [][overrun' \/ Queue!Next]_(Queue!queueVars)

(* As long as no entry is handed out before it was taken, an operation      *)
(* enqueued while the polling thread sleeps wakes it, and is taken with     *)
(* everything the thread had missed before: a missed entry waits for the    *)
(* next one at the latest.                                                  *)
LaterEnqueueWakes ==
    []~overrun =>
      \A o \in Owners :
        (kpc = "asleep" /\ pc = "index" /\ (o = cur \/ Contains(Enqueued, o)))
          ~> o \in inflight

(* cg_uring_sq_enqueue "handles the necessary memory barriers and updates   *)
(* the shared tail pointer to notify the kernel of the new entry"           *)
(* (cg_uring.c:131-133): the loop does not block for completions while the  *)
(* polling thread sleeps on an entry it has not taken.                      *)
(* Not so: LaterEnqueueWakes says what becomes of it.                       *)
EnqueueNotifies ==
    pc = "blocked" /\ kpc = "asleep" => khead = mem[SqTail]
=============================================================================
