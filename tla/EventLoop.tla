------------------------------ MODULE EventLoop ------------------------------
(***************************************************************************)
(* The application's single thread (src/src/app/cg_app.c) and the kernel   *)
(* side of its io_uring, which runs beside it.  Every turn of the main     *)
(* loop first issues the next operation of the listener and of every       *)
(* client slot, then handles completions until the completion queue is     *)
(* seen empty.                                                             *)
(*                                                                         *)
(* What a request is and what is answered is left open here: a read either *)
(* completes a request or does not, and a reply has any length up to       *)
(* MaxTx.  Module FastCGI is the detail of that step.                      *)
(***************************************************************************)
EXTENDS Integers, Sequences, FiniteSets

CONSTANTS MaxClients,   \* CG_MAX_CLIENTS
          SQEntries,    \* entries of the submission ring
          Fds,          \* descriptors the kernel may hand out
          MaxTx         \* bound: the longest reply, in units of a write

ASSUME EventLoopAssumption ==
    /\ MaxClients \in Nat \ {0}
    /\ SQEntries \in Nat \ {0}
    /\ MaxTx \in Nat \ {0}
    /\ Fds \subseteq Nat

VARIABLES pc,        \* where the main loop stands
          cursor,    \* index of the slot the issuing pass has reached
          listener,  \* state of the cg_fastcgi_ctx
          pool,      \* state of each cg_client_ctx
          cstate,    \* state of each cg_fastcgi_client_ctx
          sockfd,    \* descriptor of each client
          left,      \* bytes of the reply not yet written (valid - pos)
          keep,      \* req.keep_alive
          sq,        \* submission entries the kernel has not taken, oldest first
          inflight,  \* operations the kernel is working on
          cq,        \* completions not yet discarded, oldest first
          openFds,   \* descriptors of accepted connections that are open
          overrun    \* history: an entry not yet taken has been overwritten

loopVars   == <<pc, cursor>>
clientVars == <<pool, cstate, sockfd, left, keep>>
kernelVars == <<inflight, openFds>>
ringVars   == <<sq, overrun>>
vars == <<loopVars, listener, clientVars, ringVars, kernelVars, cq>>

Slots    == 0 .. (MaxClients - 1)
Listener == -1
Timer    == -2
Owners   == Slots \cup {Listener, Timer}    \* what user_data is tagged with
NoFd     == -1

ClientStates == {"FREE", "READ_SQE", "READ_CQE", "WRITE_SQE", "WRITE_CQE",
                 "CLOSE_SQE", "CLOSE_CQE"}
Operations == [owner : Owners,
               op    : {"ACCEPT", "TIMEOUT", "READ", "WRITE", "CLOSE"},
               fd    : Fds \cup {NoFd},
               len   : 0 .. MaxTx]
Completions == [owner : Owners, res : Int, more : BOOLEAN]

AcceptOp   == [owner |-> Listener, op |-> "ACCEPT", fd |-> NoFd, len |-> 0]
TimeoutOp  == [owner |-> Timer, op |-> "TIMEOUT", fd |-> NoFd, len |-> 0]
ReadOp(c)  == [owner |-> c, op |-> "READ", fd |-> sockfd[c], len |-> 1]
(* Slip: the length of the whole reply, not of what is left of it.          *)
WriteOpSlip(c) == [owner |-> c, op |-> "WRITE", fd |-> sockfd[c], len |-> MaxTx]

WriteOp(c) == [owner |-> c, op |-> "WRITE", fd |-> sockfd[c], len |-> left[c]]
CloseOp(c) == [owner |-> c, op |-> "CLOSE", fd |-> sockfd[c], len |-> 0]

-----------------------------------------------------------------------------
(* The submission ring.  cg_uring_sqe_get never looks at the head: entry    *)
(* tail % SQEntries is zeroed and refilled whether or not the kernel has    *)
(* taken what was there, so every position that shares it changes too.      *)
Push(e) ==
    /\ sq' = [i \in 1 .. (Len(sq) + 1) |->
                IF (Len(sq) + 1 - i) % SQEntries = 0 THEN e ELSE sq[i]]
    /\ overrun' = (overrun \/ Len(sq) >= SQEntries)

Init ==
    /\ pc = "listener"
    /\ cursor = 0
    /\ listener = "ACCEPT_SQE"
    /\ pool = [c \in Slots |-> "FREE"]
    /\ cstate = [c \in Slots |-> "FREE"]
    /\ sockfd = [c \in Slots |-> NoFd]
    /\ left = [c \in Slots |-> 0]
    /\ keep = [c \in Slots |-> FALSE]
    /\ sq = <<TimeoutOp>>
    /\ inflight = {}
    /\ cq = <<>>
    /\ openFds = {}
    /\ overrun = FALSE

-----------------------------------------------------------------------------
(* The issuing pass: the listener, then every slot in index order.          *)

FastcgiStateHandle ==
    /\ pc = "listener"
    /\ pc' = "clients"
    /\ IF listener = "ACCEPT_SQE"
         THEN /\ Push(AcceptOp)
              /\ listener' = "ACCEPT_CQE"
         ELSE UNCHANGED <<ringVars, listener>>
    /\ UNCHANGED <<cursor, clientVars, kernelVars, cq>>

(* Slip: one slot too many (i <= CG_MAX_CLIENTS).                           *)
NextSlotSlip ==
    IF cursor = MaxClients
      THEN cursor' = 0 /\ pc' = "peek"
      ELSE cursor' = cursor + 1 /\ pc' = "clients"

NextSlot ==
    IF cursor = MaxClients - 1
      THEN cursor' = 0 /\ pc' = "peek"
      ELSE cursor' = cursor + 1 /\ pc' = "clients"

(* Slip: the state is not moved on, so the next turn issues again.          *)
IssueSlip(c, from, op, to) ==
    /\ cstate[c] = from
    /\ Push(op)
    /\ UNCHANGED <<cstate, pool>>

Issue(c, from, op, to) ==
    /\ cstate[c] = from
    /\ Push(op)
    /\ cstate' = [cstate EXCEPT ![c] = to]
    /\ UNCHANGED pool

ReleaseUnopened(c) ==
    /\ cstate' = [cstate EXCEPT ![c] = "FREE"]
    /\ pool' = [pool EXCEPT ![c] = "FREE"]
    /\ UNCHANGED ringVars

ClientStateHandle(c) ==
    /\ pc = "clients" /\ cursor = c
    /\ \/ Issue(c, "READ_SQE", ReadOp(c), "READ_CQE")
       \/ Issue(c, "WRITE_SQE", WriteOp(c), "WRITE_CQE")
       \/ IF cstate[c] = "CLOSE_SQE" /\ sockfd[c] < 0
            THEN ReleaseUnopened(c)
            ELSE Issue(c, "CLOSE_SQE", CloseOp(c), "CLOSE_CQE")
       \/ /\ cstate[c] \notin {"READ_SQE", "WRITE_SQE", "CLOSE_SQE"}
          /\ UNCHANGED <<cstate, pool, ringVars>>
    /\ NextSlot
    /\ UNCHANGED <<listener, sockfd, left, keep, kernelVars, cq>>

-----------------------------------------------------------------------------
(* Looking for completions.  A wait that fails (EINTR) leaves no completion *)
(* to handle and the loop starts over.                                      *)

Peek ==
    /\ pc = "peek"
    /\ pc' = IF cq = <<>> THEN "wait" ELSE "handle"
    /\ UNCHANGED <<cursor, listener, clientVars, ringVars, kernelVars, cq>>

CqeWait ==
    /\ pc = "wait" /\ cq # <<>>
    /\ pc' = "handle"
    /\ UNCHANGED <<cursor, listener, clientVars, ringVars, kernelVars, cq>>

CqeWaitFails ==
    /\ pc = "wait"
    /\ pc' = "listener"
    /\ UNCHANGED <<cursor, listener, clientVars, ringVars, kernelVars, cq>>

(* cq_discard, with which every handler's turn ends.                        *)
CqDiscard ==
    /\ cq' = Tail(cq)
    /\ pc' = "next"
    /\ UNCHANGED cursor

(* The peek after it: what the kernel has completed in the meantime is      *)
(* handled before anything is issued.                                       *)
PeekNext ==
    /\ pc = "next"
    /\ pc' = IF cq = <<>> THEN "listener" ELSE "handle"
    /\ UNCHANGED <<cursor, listener, clientVars, ringVars, kernelVars, cq>>

-----------------------------------------------------------------------------
(* Completion handlers.                                                     *)

(* Slip: the tick does not arm the next one.                                *)
TimestampTickSlip ==
    /\ pc = "handle" /\ Head(cq).owner = Timer
    /\ CqDiscard
    /\ UNCHANGED <<listener, clientVars, ringVars, kernelVars>>

TimestampTick ==
    /\ pc = "handle" /\ Head(cq).owner = Timer
    /\ Push(TimeoutOp)
    /\ CqDiscard
    /\ UNCHANGED <<listener, clientVars, kernelVars>>

FreeSlots == {c \in Slots : pool[c] = "FREE"}

(* Slip: the error is logged and the accept not armed again.                *)
AcceptFailsSlip ==
    /\ listener = "ACCEPT_CQE" /\ Head(cq).res < 0
    /\ UNCHANGED <<listener, clientVars, openFds>>

AcceptFails ==
    /\ listener = "ACCEPT_CQE" /\ Head(cq).res < 0
    /\ listener' = "ACCEPT_SQE"
    /\ UNCHANGED <<clientVars, openFds>>

(* The early exit when no slot is free comes before the test of F_MORE.     *)
AcceptRefused ==
    /\ listener = "ACCEPT_CQE" /\ Head(cq).res >= 0 /\ FreeSlots = {}
    /\ openFds' = openFds \ {Head(cq).res}
    /\ UNCHANGED <<listener, clientVars>>

(* Slip: the accept is armed again although the kernel said F_MORE.         *)
AcceptTakenSlip ==
    /\ listener = "ACCEPT_CQE" /\ Head(cq).res >= 0
    /\ \E c \in FreeSlots :
         /\ \A d \in FreeSlots : c <= d
         /\ pool' = [pool EXCEPT ![c] = "IN_USE"]
         /\ cstate' = [cstate EXCEPT ![c] = "READ_SQE"]
         /\ sockfd' = [sockfd EXCEPT ![c] = Head(cq).res]
         /\ left' = [left EXCEPT ![c] = 0]
    /\ listener' = "ACCEPT_SQE"
    /\ UNCHANGED <<keep, openFds>>

AcceptTaken ==
    /\ listener = "ACCEPT_CQE" /\ Head(cq).res >= 0
    /\ \E c \in FreeSlots :
         /\ \A d \in FreeSlots : c <= d
         /\ pool' = [pool EXCEPT ![c] = "IN_USE"]
         /\ cstate' = [cstate EXCEPT ![c] = "READ_SQE"]
         /\ sockfd' = [sockfd EXCEPT ![c] = Head(cq).res]
         /\ left' = [left EXCEPT ![c] = 0]
    /\ listener' = IF Head(cq).more THEN listener ELSE "ACCEPT_SQE"
    /\ UNCHANGED <<keep, openFds>>

(* A completion that no accept awaits is dropped.                           *)
FastcgiCqeHandle ==
    /\ pc = "handle" /\ Head(cq).owner = Listener
    /\ IF listener = "ACCEPT_CQE"
         THEN AcceptFails \/ AcceptRefused \/ AcceptTaken
         ELSE UNCHANGED <<listener, clientVars, openFds>>
    /\ CqDiscard
    /\ UNCHANGED <<ringVars, inflight>>

(* Slip: the peer has hung up, so the slot is given back without a close.   *)
ReadDoneSlip(c) ==
    /\ cstate[c] = "READ_CQE" /\ Head(cq).res <= 0
    /\ cstate' = [cstate EXCEPT ![c] = "FREE"]
    /\ pool' = [pool EXCEPT ![c] = "FREE"]
    /\ UNCHANGED <<left, keep, sockfd>>

(* The parser and the router decide whether a request is complete, whether  *)
(* the connection is kept and how long the reply is.                        *)
ReadDone(c) ==
    /\ cstate[c] = "READ_CQE"
    /\ \/ /\ Head(cq).res <= 0
          /\ cstate' = [cstate EXCEPT ![c] = "CLOSE_SQE"]
          /\ UNCHANGED <<left, keep>>
       \/ /\ Head(cq).res > 0
          /\ cstate' = [cstate EXCEPT ![c] = "READ_SQE"]
          /\ UNCHANGED <<left, keep>>
       \/ /\ Head(cq).res > 0
          /\ \E n \in 1 .. MaxTx, k \in BOOLEAN :
               /\ left' = [left EXCEPT ![c] = n]
               /\ keep' = [keep EXCEPT ![c] = k]
          /\ cstate' = [cstate EXCEPT ![c] = "WRITE_SQE"]
    /\ UNCHANGED <<pool, sockfd>>

AfterWrite(c, res) ==
    IF res < 0 THEN "CLOSE_SQE"
    ELSE IF res < left[c] THEN "WRITE_SQE"
    ELSE IF keep[c] THEN "READ_SQE" ELSE "CLOSE_SQE"

(* Slip: pos is not advanced after a short write.                           *)
WriteDoneSlip(c) ==
    /\ cstate[c] = "WRITE_CQE"
    /\ cstate' = [cstate EXCEPT ![c] = AfterWrite(c, Head(cq).res)]
    /\ UNCHANGED <<pool, sockfd, left, keep>>

WriteDone(c) ==
    LET res == Head(cq).res IN
    /\ cstate[c] = "WRITE_CQE"
    /\ left' = [left EXCEPT ![c] = IF res < 0 THEN left[c]
                                   ELSE IF res < left[c] THEN left[c] - res
                                   ELSE 0]
    /\ cstate' = [cstate EXCEPT ![c] = AfterWrite(c, res)]
    /\ UNCHANGED <<pool, sockfd, keep>>

(* Slip: the connection is reset, the pool's slot is not given back.        *)
CloseDoneSlip(c) ==
    /\ cstate[c] = "CLOSE_CQE"
    /\ sockfd' = [sockfd EXCEPT ![c] = NoFd]
    /\ cstate' = [cstate EXCEPT ![c] = "FREE"]
    /\ UNCHANGED <<pool, left, keep>>

CloseDone(c) ==
    /\ cstate[c] = "CLOSE_CQE"
    /\ sockfd' = [sockfd EXCEPT ![c] = NoFd]
    /\ cstate' = [cstate EXCEPT ![c] = "FREE"]
    /\ pool' = [pool EXCEPT ![c] = "FREE"]
    /\ UNCHANGED <<left, keep>>

(* A completion that reaches a slot which awaits none is dropped.           *)
ClientCqeHandle(c) ==
    /\ pc = "handle" /\ Head(cq).owner = c
    /\ IF cstate[c] \in {"READ_CQE", "WRITE_CQE", "CLOSE_CQE"}
         THEN ReadDone(c) \/ WriteDone(c) \/ CloseDone(c)
         ELSE UNCHANGED clientVars
    /\ CqDiscard
    /\ UNCHANGED <<listener, ringVars, kernelVars>>

-----------------------------------------------------------------------------
(* The kernel: the SQPOLL thread takes entries in order; operations end in  *)
(* any order.  Completions are queued in order and none is lost (what does  *)
(* not fit in the completion ring waits in the kernel, IORING_FEAT_NODROP). *)

Post(o, res, more) ==
    cq' = Append(cq, [owner |-> o, res |-> res, more |-> more])

KernelSubmit ==
    /\ sq # <<>>
    /\ Head(sq) \notin inflight   \* of two equal entries, the second waits
    /\ sq' = Tail(sq)
    /\ inflight' = inflight \cup {Head(sq)}
    /\ UNCHANGED <<loopVars, listener, clientVars, cq, openFds, overrun>>

KernelAccept(fd, more) ==
    /\ AcceptOp \in inflight /\ fd \in Fds \ openFds
    /\ openFds' = openFds \cup {fd}
    /\ Post(Listener, fd, more)
    /\ inflight' = IF more THEN inflight ELSE inflight \ {AcceptOp}
    /\ UNCHANGED <<loopVars, listener, clientVars, ringVars>>

KernelAcceptError ==
    /\ AcceptOp \in inflight
    /\ Post(Listener, -1, FALSE)
    /\ inflight' = inflight \ {AcceptOp}
    /\ UNCHANGED <<loopVars, listener, clientVars, ringVars, openFds>>

KernelTimeout ==
    /\ TimeoutOp \in inflight
    /\ Post(Timer, -1, FALSE)
    /\ inflight' = inflight \ {TimeoutOp}
    /\ UNCHANGED <<loopVars, listener, clientVars, ringVars, openFds>>

(* A read yields data, the end of the stream or an error; a write puts out  *)
(* at least one unit or fails.  On a descriptor that is not open both fail. *)
Results(e) ==
    IF e.fd \notin openFds THEN {-1}
    ELSE {-1} \cup (IF e.op = "READ" THEN 0 .. e.len ELSE 1 .. e.len)

KernelTransfer(e, res) ==
    /\ e \in inflight /\ e.op \in {"READ", "WRITE"} /\ res \in Results(e)
    /\ Post(e.owner, res, FALSE)
    /\ inflight' = inflight \ {e}
    /\ UNCHANGED <<loopVars, listener, clientVars, ringVars, openFds>>

KernelClose(e) ==
    /\ e \in inflight /\ e.op = "CLOSE"
    /\ openFds' = openFds \ {e.fd}
    /\ Post(e.owner, 0, FALSE)
    /\ inflight' = inflight \ {e}
    /\ UNCHANGED <<loopVars, listener, clientVars, ringVars>>

-----------------------------------------------------------------------------
Handle == \/ TimestampTick
          \/ FastcgiCqeHandle
          \/ \E c \in Slots : ClientCqeHandle(c)

LoopStep == \/ FastcgiStateHandle
            \/ \E c \in Slots : ClientStateHandle(c)
            \/ Peek
            \/ CqeWait
            \/ Handle
            \/ PeekNext

KernelStep == \/ KernelSubmit
              \/ \E fd \in Fds, more \in BOOLEAN : KernelAccept(fd, more)
              \/ KernelAcceptError
              \/ KernelTimeout
              \/ \E e \in inflight : \E res \in Results(e) : KernelTransfer(e, res)
              \/ \E e \in inflight : KernelClose(e)

Next == LoopStep \/ CqeWaitFails \/ KernelStep

Spec == Init /\ [][Next]_vars

(* Fairness.  The loop's thread always gets on; so does the kernel with     *)
(* what needs nobody else (taking entries, the timer, closing), and the web *)
(* server keeps emptying its sockets.  Nothing makes a peer send: reads and *)
(* accepts may wait for ever.  Nothing ends the inner loop either: it goes  *)
(* on as long as the kernel completes an operation before each peek.        *)
KernelFinishes(c, ops) ==
    \E e \in inflight :
      /\ e.owner = c /\ e.op \in ops
      /\ KernelClose(e) \/ \E res \in Results(e) : KernelTransfer(e, res)

Fairness ==
    /\ WF_vars(LoopStep)
    /\ WF_vars(KernelSubmit)
    /\ WF_vars(KernelTimeout)
    /\ \A c \in Slots : WF_vars(KernelFinishes(c, {"WRITE", "CLOSE"}))

FairSpec == Spec /\ Fairness

-----------------------------------------------------------------------------
(* Properties.                                                              *)

(* The type invariant: what each field of the contexts and rings may hold.  *)
TypeOK ==
    /\ pc \in {"listener", "clients", "peek", "wait", "handle", "next"}
    /\ cursor \in Slots
    /\ listener \in {"ACCEPT_SQE", "ACCEPT_CQE"}
    /\ pool \in [Slots -> {"FREE", "IN_USE"}]
    /\ cstate \in [Slots -> ClientStates]
    /\ sockfd \in [Slots -> Fds \cup {NoFd}]
    /\ left \in [Slots -> 0 .. MaxTx]
    /\ keep \in [Slots -> BOOLEAN]
    /\ sq \in Seq(Operations)
    /\ inflight \subseteq Operations
    /\ cq \in Seq(Completions)
    /\ openFds \subseteq Fds
    /\ overrun \in BOOLEAN

Awaiting(c) == cstate[c] \in {"READ_CQE", "WRITE_CQE", "CLOSE_CQE"}
InSq(o)     == \E i \in DOMAIN sq : sq[i].owner = o
InFlight(o) == \E e \in inflight : e.owner = o
InCq(o)     == \E i \in DOMAIN cq : cq[i].owner = o

(* A slot has exactly one operation outstanding while it awaits one and     *)
(* none otherwise, wherever the operation is: in the ring, in the kernel or *)
(* completed and not yet handled.  The same for the timer, always; and the  *)
(* multishot accept is never armed twice.  This and what follows holds      *)
(* until an entry is overwritten: then an operation is lost and another     *)
(* made twice.                                                              *)
OneEntry ==
    /\ \A i, j \in DOMAIN sq : sq[i].owner = sq[j].owner => i = j
    /\ \A e, f \in inflight : e.owner = f.owner => e = f
    /\ \A i, j \in DOMAIN cq :
         cq[i].owner = cq[j].owner /\ cq[i].owner # Listener => i = j

OnePlace ==
    \A o \in Owners :
      /\ ~(InSq(o) /\ InFlight(o))
      /\ o # Listener => ~(InCq(o) /\ (InSq(o) \/ InFlight(o)))

EachOnce ==
    /\ OneEntry
    /\ OnePlace
    /\ \A c \in Slots : Awaiting(c) <=> (InSq(c) \/ InFlight(c) \/ InCq(c))
    /\ InSq(Timer) \/ InFlight(Timer) \/ InCq(Timer)
    /\ listener = "ACCEPT_SQE" => ~(InSq(Listener) \/ InFlight(Listener) \/ InCq(Listener))

OneOperation == ~overrun => EachOnce

(* cg_uring_sqe_get "Obtains an available submission queue entry"           *)
(* (cg_uring.c:106): no entry is handed out that the kernel has still to    *)
(* take.                                                                    *)
(* Not so: OverrunNeedsCrowd says when.                                     *)
EntryIsAvailable == ~overrun

(* The ring overflows only in a crowd: while the connections, the listener  *)
(* and the timer are no more than its entries, the entry handed out is      *)
(* free, however the kernel's taking and the loop's issuing interleave.     *)
InUse == {c \in Slots : pool[c] = "IN_USE"}

OverrunNeedsCrowd ==
    [][~overrun /\ overrun' => Cardinality(InUse) + 2 > SQEntries]_vars

(* The queues of the rings, as RingQueue has them: who has an operation in  *)
(* which place, in order.                                                   *)
LastInCq(o)    == \E i \in DOMAIN cq : cq[i].owner = o /\ ~cq[i].more
Outstanding(o) == InSq(o) \/ InFlight(o) \/ LastInCq(o)

SqOwners       == [i \in DOMAIN sq |-> sq[i].owner]
InFlightOwners == {e.owner : e \in inflight}
CqOwners       == [i \in DOMAIN cq |-> <<cq[i].owner, cq[i].more>>]
Idle           == {o \in Owners : ~Outstanding(o)}

Rings == INSTANCE RingQueue
           WITH sq <- SqOwners, inflight <- InFlightOwners, cq <- CqOwners, idle <- Idle

(* The loop asks of the rings only what they promise: it enqueues only for  *)
(* an owner that has nothing outstanding, and until an entry is overwritten *)
(* the operations go in order through the ring, the kernel and the          *)
(* completions, none lost or doubled.  Module Uring shows that cg_uring.c   *)
(* keeps the promise to such a caller.                                      *)
UsesRingsAsQueues ==
    /\ SqOwners = <<Timer>> /\ InFlightOwners = {} /\ CqOwners = <<>>
    /\ [][overrun' \/ Rings!Next \/ Rings!HandleAgain]_(Rings!queueVars)

(* What is outstanding for a slot is what its state awaits: same operation, *)
(* same descriptor, same remaining length.                                  *)
Awaited(c) ==
    CASE cstate[c] = "READ_CQE"  -> ReadOp(c)
      [] cstate[c] = "WRITE_CQE" -> WriteOp(c)
      [] cstate[c] = "CLOSE_CQE" -> CloseOp(c)

Issued == {sq[i] : i \in DOMAIN sq} \cup inflight

EachAsAwaited ==
    /\ \A c \in Slots : \A e \in Issued : e.owner = c => Awaiting(c) /\ e = Awaited(c)
    /\ \A i \in DOMAIN cq : \A c \in Slots :
         (cq[i].owner = c /\ cstate[c] = "WRITE_CQE") => cq[i].res <= left[c]

OperationMatchesState == ~overrun => EachAsAwaited

(* Every open connection has exactly one owner, a slot that has not yet     *)
(* closed it or an accept completion not yet handled: no descriptor leaks,  *)
(* and none is used by two slots, even when the kernel hands out again a    *)
(* number whose close has completed but has not been handled.               *)
Holds(c) == cstate[c] # "FREE" /\ ~(cstate[c] = "CLOSE_CQE" /\ InCq(c))
Arrived  == {i \in DOMAIN cq : cq[i].owner = Listener /\ cq[i].res >= 0}

EachFdOwned ==
    /\ \A c \in Slots : Holds(c) => sockfd[c] \in openFds
    /\ \A c, d \in Slots : Holds(c) /\ Holds(d) /\ sockfd[c] = sockfd[d] => c = d
    /\ \A i \in Arrived :
         /\ cq[i].res \in openFds
         /\ \A j \in Arrived : cq[i].res = cq[j].res => i = j
         /\ \A c \in Slots : Holds(c) => sockfd[c] # cq[i].res
    /\ \A f \in openFds :
         \/ \E c \in Slots : Holds(c) /\ sockfd[c] = f
         \/ \E i \in Arrived : cq[i].res = f

FdOwnership == ~overrun => EachFdOwned

(* The pool and the connection state machines agree on which slots are free.*)
PoolAgreement == \A c \in Slots : pool[c] = "FREE" <=> cstate[c] = "FREE"

(* main "enters the main event loop to handle FastCGI connections"          *)
(* (cg_app.c:418-419): the listener has its accept outstanding, or is about *)
(* to issue it.  The early exit above breaks this.                          *)
ListenerArmed ==
    \/ listener = "ACCEPT_SQE" \/ InSq(Listener) \/ InFlight(Listener)
    \/ \E i \in DOMAIN cq : cq[i].owner = Listener /\ ~cq[i].more

(* However accepts end, in an error, in a last completion or in one of      *)
(* several queued, the listener issues the next one; besides an overwritten *)
(* entry only a last completion that finds the pool full (cg_app.c:234)     *)
(* stops it.                                                                *)
LastMeetsFullPool ==
    /\ Head(cq).owner = Listener /\ ~Head(cq).more /\ Head(cq).res >= 0
    /\ FreeSlots = {}

ListenerStaysArmed ==
    [][ListenerArmed /\ ~ListenerArmed' => overrun' \/ LastMeetsFullPool]_vars

-----------------------------------------------------------------------------
(* Liveness, of a ring that is never overrun.                               *)

(* "... and internal ticks" (cg_app.c:418-419): the loop comes round to its *)
(* issuing pass again and again.                                            *)
(* Not so: under Fairness the timer may be complete at every peek.  It is   *)
(* a premise below.                                                         *)
PassRecurs == []<>(pc = "listener")

(* A connection that is closing frees its slot; one that is to be closed    *)
(* does if the issuing pass, which is to issue the close, recurs.           *)
ClosingIsFreed ==
    []~overrun =>
      \A c \in Slots :
        /\ cstate[c] = "CLOSE_CQE" ~> pool[c] = "FREE"
        /\ PassRecurs => (cstate[c] = "CLOSE_SQE" ~> pool[c] = "FREE")

(* A write that is issued is answered by the handler, and if the issuing    *)
(* pass recurs a reply is written to its end or given up, whatever the      *)
(* sizes of the writes; it does not stay half written.                      *)
ReplyIsFinished ==
    []~overrun =>
      \A c \in Slots :
        /\ cstate[c] = "WRITE_CQE" ~> cstate[c] # "WRITE_CQE"
        /\ PassRecurs =>
             (cstate[c] = "WRITE_SQE" ~> cstate[c] \in {"READ_SQE", "CLOSE_SQE"})

(* The clock is refreshed again and again, also in a turn that never ends.  *)
TickRecurs == []~overrun => []<>(pc = "handle" /\ Head(cq).owner = Timer)
=============================================================================
