--------------------------- MODULE EventLoopProofs ---------------------------
(***************************************************************************)
(* Proofs about EventLoop for any number of slots, any ring and any        *)
(* descriptors.                                                            *)
(***************************************************************************)
EXTENDS EventLoop, SequenceTheorems, FiniteSetTheorems, TLAPS

USE DEF ringVars

-----------------------------------------------------------------------------
(* Type correctness is not inductive by itself.  A handler looks at the     *)
(* head of the completion queue, which must not be empty, and an accepted   *)
(* connection stores what the completion carries, which is a descriptor     *)
(* only because accepts alone are tagged with the listener.                 *)

TransferOps == [owner : Slots, op : {"READ", "WRITE", "CLOSE"},
                fd : Fds \cup {NoFd}, len : 0 .. MaxTx]
TaggedOps   == TransferOps \cup {AcceptOp, TimeoutOp}

TaggedCompletions ==
    {x \in Completions :
       /\ x.owner = Listener => x.res \in Fds \cup {-1} /\ (x.res = -1 => ~x.more)
       /\ x.owner # Listener => ~x.more}

QueuesTagged ==
    /\ sq \in Seq(TaggedOps)
    /\ inflight \subseteq TaggedOps
    /\ cq \in Seq(TaggedCompletions)
    /\ pc = "handle" => cq # <<>>

TypeInv == TypeOK /\ QueuesTagged

(* Pushing an entry keeps the ring's type, overwriting or not.              *)
LEMMA PushType ==
    ASSUME NEW S, sq \in Seq(S), NEW e \in S, Push(e)
    PROVE  sq' \in Seq(S)
<1>1. Len(sq) \in Nat /\ \A i \in 1 .. Len(sq) : sq[i] \in S
    BY LenProperties, ElementOfSeq
<1>2. \A i \in 1 .. (Len(sq) + 1) :
         (IF (Len(sq) + 1 - i) % SQEntries = 0 THEN e ELSE sq[i]) \in S
  <2> SUFFICES ASSUME NEW i \in 1 .. (Len(sq) + 1),
                      (Len(sq) + 1 - i) % SQEntries # 0
               PROVE  sq[i] \in S
      OBVIOUS
  <2>1. 0 % SQEntries = 0
      BY EventLoopAssumption, SMT
  <2>2. i # Len(sq) + 1
      BY <1>1, <2>1
  <2> QED BY <1>1, <2>2
<1> QED BY <1>1, <1>2 DEF Push

(* and the history stays a flag.                                            *)
LEMMA PushFlags ==
    ASSUME NEW e, Push(e)
    PROVE  overrun' \in BOOLEAN
BY DEF Push

(* What Operations, and what the queue of completions may hold.             *)
LEMMA OpsTyped ==
    /\ TaggedOps \subseteq Operations
    /\ AcceptOp \in TaggedOps /\ TimeoutOp \in TaggedOps
    /\ \A e \in TaggedOps :
         /\ e.op \in {"READ", "WRITE", "CLOSE"} => e \in TransferOps
         /\ e.owner = Listener => e = AcceptOp
         /\ e.owner = Timer => e = TimeoutOp
BY EventLoopAssumption
   DEF TaggedOps, TransferOps, Operations, AcceptOp, TimeoutOp, Owners, Slots,
       Listener, Timer, NoFd

(* What a slot issues (WriteOp with what is left) is an operation.          *)
LEMMA SlotOpsTyped ==
    ASSUME TypeOK, NEW c \in Slots
    PROVE  ReadOp(c) \in TaggedOps /\ WriteOp(c) \in TaggedOps /\ CloseOp(c) \in TaggedOps
BY EventLoopAssumption
   DEF TypeOK, TaggedOps, TransferOps, ReadOp, WriteOp, CloseOp, Slots, NoFd

(* The completion at hand and those behind it are tagged completions.       *)
LEMMA HeadTyped ==
    ASSUME TypeInv, pc = "handle"
    PROVE  /\ Head(cq) \in TaggedCompletions
           /\ Head(cq).owner \in Owners /\ Head(cq).res \in Int
           /\ Tail(cq) \in Seq(TaggedCompletions)
<1>1. cq \in Seq(TaggedCompletions) /\ cq # <<>>
    BY DEF TypeInv, QueuesTagged
<1>2. Head(cq) \in TaggedCompletions /\ Tail(cq) \in Seq(TaggedCompletions)
    BY <1>1, HeadTailProperties
<1> QED BY <1>2 DEF TaggedCompletions, Completions

(* Tagged queues are queues: what the stronger types say implies TypeOK.    *)
LEMMA TaggedSeqs ==
    /\ \A q \in Seq(TaggedOps) : q \in Seq(Operations)
    /\ \A q \in Seq(TaggedCompletions) : q \in Seq(Completions)
<1>1. TaggedCompletions \subseteq Completions
    BY DEF TaggedCompletions
<1> QED BY <1>1, OpsTyped, SeqMonotonic

(* The queues after the loop has discarded a completion.                    *)
LEMMA DiscardType ==
    ASSUME TypeInv, pc = "handle", CqDiscard
    PROVE  /\ pc' \in {"next"}
           /\ cursor' \in Slots
           /\ cq' \in Seq(TaggedCompletions)
           /\ pc' = "handle" => cq' # <<>>
<1>1. Tail(cq) \in Seq(TaggedCompletions)
    BY HeadTyped
<1>2. cursor \in Slots
    BY DEF TypeInv, TypeOK
<1> QED BY <1>1, <1>2 DEF CqDiscard

(* The queue after the kernel has posted a completion.                      *)
LEMMA PostType ==
    ASSUME TypeInv, NEW o \in Owners, NEW r \in Int, NEW m \in BOOLEAN, Post(o, r, m),
           o = Listener => r \in Fds \cup {-1} /\ (r = -1 => ~m),
           o # Listener => ~m
    PROVE  /\ cq' \in Seq(TaggedCompletions)
           /\ cq' # <<>>
<1> DEFINE x == [owner |-> o, res |-> r, more |-> m]
<1>1. x \in TaggedCompletions
    BY DEF TaggedCompletions, Completions
<1>2. cq \in Seq(TaggedCompletions) /\ cq' = Append(cq, x)
    BY DEF TypeInv, QueuesTagged, Post
<1> QED BY <1>1, <1>2, AppendProperties

(* Posting the last completion of an operation keeps the types.             *)
LEMMA PostFalseType ==
    ASSUME TypeInv, NEW o \in Owners, NEW r \in Int, Post(o, r, FALSE),
           o = Listener => r \in Fds \cup {-1}
    PROVE  /\ cq' \in Seq(TaggedCompletions)
           /\ cq' # <<>>
<1>1. FALSE \in BOOLEAN
    OBVIOUS
<1> QED BY <1>1, PostType

(* The state main sets up before its loop is typed.                         *)
LEMMA TypeInit == Init => TypeInv
<1> SUFFICES ASSUME Init PROVE TypeInv
    OBVIOUS
<1>1. TimeoutOp \in TaggedOps
    BY OpsTyped
<1>2. sq \in Seq(TaggedOps) /\ cq \in Seq(TaggedCompletions)
    BY <1>1 DEF Init
<1>3. sq \in Seq(Operations) /\ cq \in Seq(Completions)
    BY <1>2, TaggedSeqs
<1>4. cursor \in Slots
    BY EventLoopAssumption DEF Init, Slots
<1> QED BY <1>2, <1>3, <1>4, EventLoopAssumption
        DEF Init, TypeInv, TypeOK, QueuesTagged, ClientStates, NoFd

(* cg_fastcgi_client_state_handle keeps the types, slot by slot.            *)
LEMMA TypeClients ==
    ASSUME TypeInv, NEW c \in Slots, ClientStateHandle(c)
    PROVE  TypeInv'
<1> USE DEF TypeInv, QueuesTagged
<1>1. \/ sq' = sq
      \/ Push(ReadOp(c)) \/ Push(WriteOp(c)) \/ Push(CloseOp(c))
    BY DEF ClientStateHandle, Issue, ReleaseUnopened
<1>2. sq' \in Seq(TaggedOps)
    BY <1>1, PushType, SlotOpsTyped
<1>3. /\ cstate' \in [Slots -> ClientStates]
      /\ pool' \in [Slots -> {"FREE", "IN_USE"}]
    BY DEF TypeOK, ClientStateHandle, Issue, ReleaseUnopened, ClientStates
<1>4. cursor' \in Slots /\ pc' \in {"peek", "clients"}
    BY EventLoopAssumption DEF TypeOK, ClientStateHandle, NextSlot, Slots
<1>5. overrun' \in BOOLEAN
    BY <1>1, PushFlags DEF TypeOK, ClientStateHandle, Issue, ReleaseUnopened
<1> QED BY <1>2, <1>3, <1>4, <1>5, TaggedSeqs DEF TypeOK, ClientStateHandle, kernelVars

(* cg_main_fastcgi_cqe_handle keeps the types: a result is a descriptor.    *)
LEMMA TypeAccept ==
    ASSUME TypeInv, FastcgiCqeHandle
    PROVE  TypeInv'
<1>1. /\ Head(cq) \in TaggedCompletions
      /\ Head(cq).owner = Listener
    BY HeadTyped DEF FastcgiCqeHandle
<1>2. Head(cq).res \in Fds \cup {NoFd}
    BY <1>1 DEF TaggedCompletions, NoFd
<1>3. /\ pc' \in {"next"} /\ cursor' \in Slots
      /\ cq' \in Seq(TaggedCompletions) /\ (pc' = "handle" => cq' # <<>>)
    BY DiscardType DEF FastcgiCqeHandle
<1>4. sq' = sq /\ inflight' = inflight /\ overrun' = overrun
    BY DEF FastcgiCqeHandle
<1>5. /\ listener' \in {"ACCEPT_SQE", "ACCEPT_CQE"}
      /\ openFds' \subseteq Fds
      /\ pool' \in [Slots -> {"FREE", "IN_USE"}]
      /\ cstate' \in [Slots -> ClientStates]
      /\ sockfd' \in [Slots -> Fds \cup {NoFd}]
      /\ left' \in [Slots -> 0 .. MaxTx]
      /\ keep' \in [Slots -> BOOLEAN]
  <2>1. CASE AcceptTaken
      BY <1>2, <2>1, EventLoopAssumption
         DEF AcceptTaken, TypeInv, TypeOK, ClientStates, FreeSlots
  <2>2. CASE AcceptFails \/ AcceptRefused
      BY <2>2 DEF AcceptFails, AcceptRefused, TypeInv, TypeOK, clientVars
  <2>3. CASE UNCHANGED <<listener, clientVars, openFds>>
      BY <2>3 DEF TypeInv, TypeOK, clientVars
  <2> QED BY <2>1, <2>2, <2>3 DEF FastcgiCqeHandle
<1> QED BY <1>3, <1>4, <1>5, TaggedSeqs DEF TypeInv, QueuesTagged, TypeOK

(* The handlers of reads, writes and closes keep the types.                 *)
LEMMA TypeCompleted ==
    ASSUME TypeInv, NEW c \in Slots, ClientCqeHandle(c)
    PROVE  TypeInv'
<1>1. /\ pc' \in {"next"} /\ cursor' \in Slots
      /\ cq' \in Seq(TaggedCompletions) /\ (pc' = "handle" => cq' # <<>>)
    BY DiscardType DEF ClientCqeHandle
<1>2. Head(cq).res \in Int
    BY HeadTyped DEF ClientCqeHandle
<1>3. /\ pool' \in [Slots -> {"FREE", "IN_USE"}]
      /\ cstate' \in [Slots -> ClientStates]
      /\ sockfd' \in [Slots -> Fds \cup {NoFd}]
      /\ left' \in [Slots -> 0 .. MaxTx]
      /\ keep' \in [Slots -> BOOLEAN]
  <2> USE DEF TypeInv, TypeOK
  <2>1. CASE ReadDone(c)
    <3>1. keep' \in [Slots -> BOOLEAN]
        BY <2>1, Zenon DEF ReadDone
    <3>2. left' \in [Slots -> 0 .. MaxTx]
      <4>1. \A n \in 1 .. MaxTx : n \in 0 .. MaxTx
          BY EventLoopAssumption
      <4> QED BY <2>1, <4>1, Zenon DEF ReadDone
    <3>3. cstate' \in [Slots -> ClientStates]
        BY <2>1, Zenon DEF ReadDone, ClientStates
    <3> QED BY <2>1, <3>1, <3>2, <3>3 DEF ReadDone
  <2>2. CASE WriteDone(c)
    <3>1. (IF Head(cq).res < 0 THEN left[c]
           ELSE IF Head(cq).res < left[c] THEN left[c] - Head(cq).res ELSE 0) \in 0 .. MaxTx
        BY <1>2, EventLoopAssumption
    <3>2. AfterWrite(c, Head(cq).res) \in ClientStates
        BY DEF AfterWrite, ClientStates
    <3> QED BY <2>2, <3>1, <3>2 DEF WriteDone
  <2>3. CASE CloseDone(c)
      BY <2>3 DEF CloseDone, ClientStates
  <2>4. CASE UNCHANGED clientVars
      BY <2>4 DEF clientVars
  <2> QED BY <2>1, <2>2, <2>3, <2>4 DEF ClientCqeHandle
<1> QED BY <1>1, <1>3, TaggedSeqs
        DEF ClientCqeHandle, kernelVars, TypeInv, QueuesTagged, TypeOK

(* Every step of the loop keeps the types.                                  *)
LEMMA TypeLoop ==
    ASSUME TypeInv, LoopStep \/ CqeWaitFails
    PROVE  TypeInv'
<1>1. CASE FastcgiStateHandle
  <2>1. sq' \in Seq(TaggedOps)
      BY <1>1, OpsTyped, PushType DEF FastcgiStateHandle, TypeInv, QueuesTagged
  <2>2. overrun' \in BOOLEAN
      BY <1>1, PushFlags DEF FastcgiStateHandle, TypeInv, TypeOK
  <2> QED BY <1>1, <2>1, <2>2, TaggedSeqs
          DEF FastcgiStateHandle, TypeInv, TypeOK, QueuesTagged, clientVars, kernelVars
<1>2. CASE \E c \in Slots : ClientStateHandle(c)
    BY <1>2, TypeClients
<1>3. CASE Peek \/ PeekNext \/ CqeWait \/ CqeWaitFails
    BY <1>3 DEF Peek, PeekNext, CqeWait, CqeWaitFails, TypeInv, TypeOK, QueuesTagged,
                clientVars, kernelVars
<1>4. CASE TimestampTick
  <2>1. sq' \in Seq(TaggedOps)
      BY <1>4, OpsTyped, PushType DEF TimestampTick, TypeInv, QueuesTagged
  <2>2. /\ pc' \in {"next"} /\ cursor' \in Slots
        /\ cq' \in Seq(TaggedCompletions) /\ (pc' = "handle" => cq' # <<>>)
      BY <1>4, DiscardType DEF TimestampTick
  <2>3. overrun' \in BOOLEAN
      BY <1>4, PushFlags DEF TimestampTick
  <2> QED BY <1>4, <2>1, <2>2, <2>3, TaggedSeqs
          DEF TimestampTick, TypeInv, TypeOK, QueuesTagged, clientVars, kernelVars
<1>5. CASE FastcgiCqeHandle
    BY <1>5, TypeAccept
<1>6. CASE \E c \in Slots : ClientCqeHandle(c)
    BY <1>6, TypeCompleted
<1> QED BY <1>1, <1>2, <1>3, <1>4, <1>5, <1>6 DEF LoopStep, Handle

(* Every step of the kernel keeps the types.                                *)
LEMMA TypeKernel ==
    ASSUME TypeInv, KernelStep
    PROVE  TypeInv'
<1> DEFINE Rest == /\ UNCHANGED <<pc, cursor, listener, pool, cstate, sockfd, left, keep,
                                  overrun>>
                   /\ openFds' \subseteq Fds
<1>1. CASE KernelSubmit
  <2>1. sq \in Seq(TaggedOps) /\ sq # <<>>
      BY <1>1 DEF KernelSubmit, TypeInv, QueuesTagged
  <2>2. Head(sq) \in TaggedOps /\ Tail(sq) \in Seq(TaggedOps)
      BY <2>1, HeadTailProperties
  <2> QED BY <1>1, <2>2, OpsTyped, TaggedSeqs
          DEF KernelSubmit, TypeInv, TypeOK, QueuesTagged, loopVars, clientVars
<1>2. ASSUME ~KernelSubmit
      PROVE  /\ Rest /\ sq' = sq /\ inflight' \subseteq inflight
             /\ cq' \in Seq(TaggedCompletions) /\ cq' # <<>>
  <2> USE DEF loopVars, clientVars
  <2>1. Listener \in Owners /\ Timer \in Owners
      BY DEF Owners
  <2>2. CASE \E fd \in Fds, more \in BOOLEAN : KernelAccept(fd, more)
    <3> PICK fd \in Fds, more \in BOOLEAN : KernelAccept(fd, more)
        BY <2>2
    <3>1. fd \in Int /\ fd # -1
        BY EventLoopAssumption
    <3>2. cq' \in Seq(TaggedCompletions) /\ cq' # <<>>
        BY <2>1, <3>1, PostType DEF KernelAccept
    <3> QED BY <3>2 DEF KernelAccept, TypeInv, TypeOK
  <2>3. CASE KernelAcceptError
    <3>1. cq' \in Seq(TaggedCompletions) /\ cq' # <<>>
      <4>1. -1 \in Int /\ -1 \in Fds \cup {-1}
          OBVIOUS
      <4>2. Post(Listener, -1, FALSE)
          BY <2>3, Zenon DEF KernelAcceptError
      <4> QED BY <2>1, <4>1, <4>2, PostFalseType, Zenon
    <3> QED BY <2>3, <3>1 DEF KernelAcceptError, TypeInv, TypeOK
  <2>4. CASE KernelTimeout
    <3>1. Timer # Listener
        BY DEF Timer, Listener
    <3>2. cq' \in Seq(TaggedCompletions) /\ cq' # <<>>
      <4>1. -1 \in Int
          OBVIOUS
      <4>2. Post(Timer, -1, FALSE)
          BY <2>4, Zenon DEF KernelTimeout
      <4> QED BY <2>1, <3>1, <4>1, <4>2, PostFalseType, Zenon
    <3> QED BY <2>4, <3>2 DEF KernelTimeout, TypeInv, TypeOK
  <2>5. ASSUME NEW e \in inflight, e.op \in {"READ", "WRITE", "CLOSE"}
        PROVE  e.owner \in Slots /\ e.owner \in Owners /\ e.owner # Listener
               /\ e.len \in 0 .. MaxTx
    <3>1. e \in TransferOps
        BY <2>5, OpsTyped DEF TypeInv, QueuesTagged
    <3> QED BY <3>1, EventLoopAssumption DEF TransferOps, Owners, Slots, Listener
  <2>6. CASE \E e \in inflight : \E res \in Results(e) : KernelTransfer(e, res)
    <3> PICK e \in inflight : \E res \in Results(e) : KernelTransfer(e, res)
        BY <2>6
    <3> PICK res \in Results(e) : KernelTransfer(e, res)
        OBVIOUS
    <3>1. e.owner \in Owners /\ e.owner # Listener /\ e.len \in 0 .. MaxTx
        BY <2>5 DEF KernelTransfer
    <3>2. res \in Int
        BY <3>1, EventLoopAssumption DEF Results
    <3>3. cq' \in Seq(TaggedCompletions) /\ cq' # <<>>
        BY <3>1, <3>2, PostFalseType DEF KernelTransfer
    <3> QED BY <3>3 DEF KernelTransfer, TypeInv, TypeOK
  <2>7. CASE \E e \in inflight : KernelClose(e)
    <3> PICK e \in inflight : KernelClose(e)
        BY <2>7
    <3>1. e.owner \in Owners /\ e.owner # Listener
        BY <2>5 DEF KernelClose
    <3>2. cq' \in Seq(TaggedCompletions) /\ cq' # <<>>
      <4>1. 0 \in Int
          OBVIOUS
      <4>2. Post(e.owner, 0, FALSE)
          BY Zenon DEF KernelClose
      <4> QED BY <3>1, <4>1, <4>2, PostFalseType, Zenon
    <3> QED BY <3>2 DEF KernelClose, TypeInv, TypeOK
  <2> QED BY <1>2, <2>2, <2>3, <2>4, <2>6, <2>7 DEF KernelStep
<1> QED
  <2>1. CASE ~KernelSubmit
    <3>1. /\ Rest /\ sq' = sq /\ inflight' \subseteq inflight
          /\ cq' \in Seq(TaggedCompletions) /\ cq' # <<>>
        BY <1>2, <2>1
    <3> QED BY <3>1, TaggedSeqs DEF TypeInv, TypeOK, QueuesTagged
  <2> QED BY <1>1, <2>1

(* The type invariant is inductive.                                         *)
LEMMA TypeStep == TypeInv /\ [Next]_vars => TypeInv'
<1> SUFFICES ASSUME TypeInv, [Next]_vars PROVE TypeInv'
    OBVIOUS
<1>1. CASE Next
    BY <1>1, TypeLoop, TypeKernel DEF Next
<1>2. CASE UNCHANGED vars
    BY <1>2 DEF vars, loopVars, clientVars, kernelVars, TypeInv, TypeOK, QueuesTagged
<1> QED BY <1>1, <1>2

(* The fields of the contexts and the entries of the rings always have      *)
(* their types, whatever the ring's size.                                   *)
THEOREM TypeCorrect == Spec => []TypeOK
<1>1. Init => TypeInv
    BY TypeInit
<1>2. TypeInv /\ [Next]_vars => TypeInv'
    BY TypeStep
<1>3. TypeInv => TypeOK
    BY DEF TypeInv
<1> QED BY <1>1, <1>2, <1>3, PTL DEF Spec

-----------------------------------------------------------------------------
(* The pool and the connections' states agree on which slots are free: each *)
(* of the three places that free or take a slot changes both.               *)
LEMMA PoolStep == TypeInv /\ PoolAgreement /\ [Next]_vars => PoolAgreement'
<1> SUFFICES ASSUME TypeInv, PoolAgreement, [Next]_vars
             PROVE  PoolAgreement'
    OBVIOUS
<1> USE DEF TypeInv, TypeOK, PoolAgreement
<1>1. ASSUME NEW c \in Slots, ClientStateHandle(c) PROVE PoolAgreement'
    BY <1>1 DEF ClientStateHandle, Issue, ReleaseUnopened
<1>2. ASSUME FastcgiCqeHandle PROVE PoolAgreement'
    BY <1>2 DEF FastcgiCqeHandle, AcceptTaken, AcceptFails, AcceptRefused, clientVars
<1>3. ASSUME NEW c \in Slots, ClientCqeHandle(c) PROVE PoolAgreement'
    BY <1>3 DEF ClientCqeHandle, ReadDone, WriteDone, AfterWrite, CloseDone, clientVars
<1>4. CASE UNCHANGED clientVars
    BY <1>4 DEF clientVars
<1> QED BY <1>1, <1>2, <1>3, <1>4
        DEF Next, LoopStep, Handle, KernelStep, FastcgiStateHandle, Peek, PeekNext, CqeWait,
            CqeWaitFails, TimestampTick, KernelSubmit, KernelAccept,
            KernelAcceptError, KernelTimeout, KernelTransfer, KernelClose, vars

(* So it is for ever, whatever the ring's size.                             *)
THEOREM PoolAgrees == Spec => []PoolAgreement
<1>1. Init => PoolAgreement
    BY DEF Init, PoolAgreement
<1> QED BY <1>1, PoolStep, TypeInit, TypeStep, PTL DEF Spec

-----------------------------------------------------------------------------
(* One operation per owner, until an entry is overwritten.                  *)

(* An overrun is remembered.                                                *)
LEMMA OverrunStays == overrun /\ [Next]_vars => overrun'
<1> SUFFICES ASSUME overrun, [Next]_vars, ~overrun' PROVE FALSE
    OBVIOUS
<1>1. UNCHANGED overrun \/ \E e : Push(e)
  <2>1. CASE LoopStep \/ CqeWaitFails
      BY <2>1 DEF LoopStep, Handle, FastcgiStateHandle, ClientStateHandle, Issue,
                  ReleaseUnopened, Peek, PeekNext, CqeWait, CqeWaitFails, TimestampTick,
                  FastcgiCqeHandle, ClientCqeHandle
  <2>2. CASE KernelStep
      BY <2>2 DEF KernelStep, KernelSubmit, KernelAccept, KernelAcceptError,
                  KernelTimeout, KernelTransfer, KernelClose
  <2>3. CASE UNCHANGED vars
      BY <2>3 DEF vars
  <2> QED BY <2>1, <2>2, <2>3 DEF Next
<1> QED BY <1>1 DEF Push

(* The completion that says the kernel will accept no more is the last of   *)
(* the listener's, and then no accept is outstanding.                       *)
ListenerLast ==
    \A i \in DOMAIN cq :
      cq[i].owner = Listener /\ ~cq[i].more =>
        /\ ~InSq(Listener) /\ ~InFlight(Listener)
        /\ \A j \in DOMAIN cq : j > i => cq[j].owner # Listener

RingInv == TypeInv /\ EachOnce /\ ListenerLast

(* There are MaxClients + 2 owners of operations.                           *)
LEMMA OwnersFinite ==
    /\ IsFiniteSet(Owners)
    /\ Cardinality(Owners) = MaxClients + 2
<1>1. IsFiniteSet(Slots) /\ Cardinality(Slots) = MaxClients
    BY EventLoopAssumption, FS_Interval DEF Slots
<1>2. Listener \notin Slots /\ Timer \notin Slots \cup {Listener}
    BY DEF Slots, Listener, Timer
<1> DEFINE L == Slots \cup {Listener}
<1>3. IsFiniteSet(L) /\ Cardinality(L) = MaxClients + 1
    BY <1>1, <1>2, FS_AddElement
<1> HIDE DEF L
<1>4. IsFiniteSet(L \cup {Timer}) /\ Cardinality(L \cup {Timer}) = MaxClients + 1 + 1
    BY <1>2, <1>3, FS_AddElement DEF L
<1>5. Owners = L \cup {Timer}
    BY DEF Owners, L
<1> QED BY <1>4, <1>5, EventLoopAssumption

(* A ring whose entries have different owners, all in S, is no longer than  *)
(* S is large.                                                              *)
LEMMA RingBound ==
    ASSUME TypeInv, OneEntry, NEW S \in SUBSET Owners,
           \A i \in DOMAIN sq : sq[i].owner \in S
    PROVE  Len(sq) \in Nat /\ Len(sq) <= Cardinality(S)
<1> DEFINE f == [i \in 1 .. Len(sq) |-> sq[i].owner]
<1>1. Len(sq) \in Nat /\ DOMAIN sq = 1 .. Len(sq)
    BY LenProperties DEF TypeInv, TypeOK
<1>2. f \in Injection(1 .. Len(sq), S)
    BY <1>1 DEF Injection, IsInjective, OneEntry
<1>3. IsFiniteSet(S)
    BY OwnersFinite, FS_Subset
<1>4. Cardinality(1 .. Len(sq)) <= Cardinality(S)
    BY <1>2, <1>3, FS_Injection, Zenon
<1>5. Cardinality(1 .. Len(sq)) = Len(sq)
    BY <1>1, FS_Interval
<1> QED BY <1>1, <1>4, <1>5

(* An entry that overwrites none had room.                                  *)
LEMMA RoomToPush ==
    ASSUME TypeInv, NEW e, Push(e), ~overrun'
    PROVE  Len(sq) < SQEntries
<1>1. Len(sq) \in Nat
    BY LenProperties DEF TypeInv, TypeOK
<1>2. ~(Len(sq) >= SQEntries)
    BY DEF Push
<1> QED BY <1>1, <1>2, EventLoopAssumption

(* Pushing into a ring that has room appends.                               *)
LEMMA PushAppends ==
    ASSUME NEW S, sq \in Seq(S), NEW e \in S, Push(e), Len(sq) < SQEntries
    PROVE  /\ Len(sq) \in Nat
           /\ DOMAIN sq = 1 .. Len(sq) /\ DOMAIN sq' = 1 .. (Len(sq) + 1)
           /\ \A i \in 1 .. Len(sq) : sq'[i] = sq[i]
           /\ sq'[Len(sq) + 1] = e
<1>1. Len(sq) \in Nat /\ DOMAIN sq = 1 .. Len(sq)
    BY LenProperties
<1>2. 0 % SQEntries = 0
    BY EventLoopAssumption, SMT
<1>3. \A x \in Nat : 0 < x /\ x < SQEntries => x % SQEntries # 0
    BY EventLoopAssumption, SMT
<1>4. \A i \in 1 .. Len(sq) : sq'[i] = sq[i]
  <2> SUFFICES ASSUME NEW i \in 1 .. Len(sq) PROVE sq'[i] = sq[i]
      OBVIOUS
  <2>1. (Len(sq) + 1 - i) % SQEntries # 0
      BY <1>1, <1>3, EventLoopAssumption
  <2>2. i \in 1 .. (Len(sq) + 1)
      BY <1>1
  <2> QED BY <2>1, <2>2 DEF Push
<1>5. sq'[Len(sq) + 1] = e
    BY <1>1, <1>2 DEF Push
<1> QED BY <1>1, <1>4, <1>5 DEF Push

(* Pushing an entry adds its owner to those in the ring, no other.          *)
LEMMA PushOwners ==
    ASSUME TypeInv, OneEntry, ~overrun', NEW e \in TaggedOps, Push(e), ~InSq(e.owner)
    PROVE  /\ \A o : InSq(o)' <=> InSq(o) \/ o = e.owner
           /\ \A i, j \in DOMAIN sq' : sq'[i].owner = sq'[j].owner => i = j
<1>1. e.owner \in Owners
    BY OpsTyped DEF Operations
<1>2. sq \in Seq(TaggedOps) /\ Len(sq) < SQEntries
    BY <1>1, RoomToPush DEF TypeInv, QueuesTagged
<1>3. /\ Len(sq) \in Nat
      /\ DOMAIN sq = 1 .. Len(sq) /\ DOMAIN sq' = 1 .. (Len(sq) + 1)
      /\ \A i \in 1 .. Len(sq) : sq'[i] = sq[i]
      /\ sq'[Len(sq) + 1] = e
    BY <1>2, PushAppends
<1>4. \A o : InSq(o)' <=> InSq(o) \/ o = e.owner
    BY <1>3 DEF InSq
<1>5. \A i, j \in DOMAIN sq' : sq'[i].owner = sq'[j].owner => i = j
    BY <1>3 DEF InSq, OneEntry
<1> QED BY <1>4, <1>5

(* Discarding the completion that was handled.                              *)
LEMMA DiscardOwners ==
    ASSUME TypeInv, OneEntry, ListenerLast, pc = "handle", CqDiscard
    PROVE  /\ InCq(Head(cq).owner)
           /\ \A o : InCq(o)' => InCq(o)
           /\ \A o : o # Head(cq).owner /\ InCq(o) => InCq(o)'
           /\ \A o : o = Head(cq).owner /\ o # Listener => ~InCq(o)'
           /\ \A i, j \in DOMAIN cq' :
                cq'[i].owner = cq'[j].owner /\ cq'[i].owner # Listener => i = j
           /\ Head(cq).owner = Listener /\ ~Head(cq).more =>
                ~InSq(Listener) /\ ~InFlight(Listener) /\ ~InCq(Listener)'
           /\ \A i \in DOMAIN cq' : cq'[i].owner = Listener /\ ~cq'[i].more =>
                /\ ~InSq(Listener) /\ ~InFlight(Listener)
                /\ \A j \in DOMAIN cq' : j > i => cq'[j].owner # Listener
<1>1. cq \in Seq(TaggedCompletions) /\ cq # <<>> /\ cq' = Tail(cq)
    BY DEF TypeInv, QueuesTagged, CqDiscard
<1>2. /\ Len(cq) \in Nat \ {0} /\ DOMAIN cq = 1 .. Len(cq)
      /\ Head(cq) = cq[1]
    BY <1>1, LenProperties, EmptySeq
<1>3. /\ DOMAIN cq' = 1 .. (Len(cq) - 1)
      /\ \A i \in 1 .. (Len(cq) - 1) : cq'[i] = cq[i + 1]
    BY <1>1, <1>2, HeadTailProperties, LenProperties
<1>4. \A i \in DOMAIN cq' : i + 1 \in DOMAIN cq /\ cq'[i] = cq[i + 1] /\ i + 1 > 1
    BY <1>2, <1>3
<1>5. \A i \in DOMAIN cq : i # 1 => i - 1 \in DOMAIN cq' /\ cq[i] = cq'[i - 1]
    BY <1>2, <1>3
<1>6. 1 \in DOMAIN cq /\ Head(cq) = cq[1]
    BY <1>2
<1>7. \A i, j \in DOMAIN cq' : (i + 1 = j + 1 => i = j) /\ (j > i => j + 1 > i + 1)
    BY <1>3, <1>2
<1>8. InCq(Head(cq).owner) /\ \A o : InCq(o)' => InCq(o)
    BY <1>4, <1>6 DEF InCq
<1>9. \A o : o # Head(cq).owner /\ InCq(o) => InCq(o)'
    BY <1>5, <1>6 DEF InCq
<1>10. \A o : o = Head(cq).owner /\ o # Listener => ~InCq(o)'
    BY <1>4, <1>6 DEF InCq, OneEntry
<1>11. \A i, j \in DOMAIN cq' :
         cq'[i].owner = cq'[j].owner /\ cq'[i].owner # Listener => i = j
    BY <1>4, <1>7 DEF OneEntry
<1>12. Head(cq).owner = Listener /\ ~Head(cq).more =>
         ~InSq(Listener) /\ ~InFlight(Listener) /\ ~InCq(Listener)'
    BY <1>4, <1>6 DEF InCq, ListenerLast
<1>13. \A i \in DOMAIN cq' : cq'[i].owner = Listener /\ ~cq'[i].more =>
         /\ ~InSq(Listener) /\ ~InFlight(Listener)
         /\ \A j \in DOMAIN cq' : j > i => cq'[j].owner # Listener
    BY <1>4, <1>7 DEF ListenerLast
<1> QED BY <1>8, <1>9, <1>10, <1>11, <1>12, <1>13

(* Posting a completion.                                                    *)
LEMMA PostOwners ==
    ASSUME TypeInv, OneEntry, NEW o, NEW r, NEW m, Post(o, r, m),
           o # Listener => ~InCq(o)
    PROVE  /\ \A x : InCq(x)' <=> InCq(x) \/ x = o
           /\ \A i, j \in DOMAIN cq' :
                cq'[i].owner = cq'[j].owner /\ cq'[i].owner # Listener => i = j
           /\ Len(cq) \in Nat
           /\ DOMAIN cq = 1 .. Len(cq) /\ DOMAIN cq' = 1 .. (Len(cq) + 1)
           /\ \A i \in 1 .. Len(cq) : cq'[i] = cq[i]
           /\ cq'[Len(cq) + 1] = [owner |-> o, res |-> r, more |-> m]
<1> DEFINE x == [owner |-> o, res |-> r, more |-> m]
           S == TaggedCompletions \cup {x}
<1>1. cq \in Seq(S) /\ x \in S /\ cq' = Append(cq, x)
  <2>1. cq \in Seq(TaggedCompletions)
      BY DEF TypeInv, QueuesTagged
  <2>2. cq \in Seq(S)
      BY <2>1, SeqMonotonic
  <2> QED BY <2>2 DEF Post
<1> HIDE DEF S
<1>2. /\ Len(cq) \in Nat
      /\ DOMAIN cq = 1 .. Len(cq) /\ DOMAIN cq' = 1 .. (Len(cq) + 1)
      /\ \A i \in 1 .. Len(cq) : cq'[i] = cq[i]
      /\ cq'[Len(cq) + 1] = x
    BY <1>1, AppendProperties, LenProperties
<1>3. x.owner = o
    OBVIOUS
<1> HIDE DEF x
<1>4. \A y : InCq(y)' <=> InCq(y) \/ y = o
    BY <1>2, <1>3 DEF InCq
<1>5. \A i, j \in DOMAIN cq' :
        cq'[i].owner = cq'[j].owner /\ cq'[i].owner # Listener => i = j
    BY <1>2, <1>3 DEF InCq, OneEntry
<1> QED BY <1>2, <1>4, <1>5 DEF x

(* The kernel takes the oldest entry of the ring.                           *)
LEMMA SubmitOwners ==
    ASSUME TypeInv, OneEntry, OnePlace, KernelSubmit
    PROVE  /\ Head(sq).owner \in Owners /\ InSq(Head(sq).owner)
           /\ \A o : InSq(o)' <=> InSq(o) /\ o # Head(sq).owner
           /\ \A o : InFlight(o)' <=> InFlight(o) \/ o = Head(sq).owner
           /\ \A i, j \in DOMAIN sq' : sq'[i].owner = sq'[j].owner => i = j
           /\ \A e, f \in inflight' : e.owner = f.owner => e = f
<1>1. sq \in Seq(TaggedOps) /\ sq # <<>> /\ sq' = Tail(sq)
    BY DEF TypeInv, QueuesTagged, KernelSubmit
<1>2. /\ Len(sq) \in Nat \ {0} /\ DOMAIN sq = 1 .. Len(sq)
      /\ Head(sq) = sq[1] /\ Head(sq) \in TaggedOps
    BY <1>1, LenProperties, EmptySeq, HeadTailProperties
<1>3. /\ DOMAIN sq' = 1 .. (Len(sq) - 1)
      /\ \A i \in 1 .. (Len(sq) - 1) : sq'[i] = sq[i + 1]
    BY <1>1, <1>2, HeadTailProperties, LenProperties
<1>4. \A i \in DOMAIN sq' : i + 1 \in DOMAIN sq /\ sq'[i] = sq[i + 1] /\ i + 1 # 1
    BY <1>2, <1>3
<1>5. \A i \in DOMAIN sq : i # 1 => i - 1 \in DOMAIN sq' /\ sq[i] = sq'[i - 1]
    BY <1>2, <1>3
<1>6. 1 \in DOMAIN sq /\ Head(sq) = sq[1]
    BY <1>2
<1>7. \A i, j \in DOMAIN sq' : i + 1 = j + 1 => i = j
    BY <1>3, <1>2
<1>8. Head(sq).owner \in Owners /\ InSq(Head(sq).owner)
    BY <1>2, <1>6, OpsTyped DEF InSq, Operations
<1>9. \A o : InSq(o)' <=> InSq(o) /\ o # Head(sq).owner
    BY <1>4, <1>5, <1>6 DEF InSq, OneEntry
<1>10. \A o : InFlight(o)' <=> InFlight(o) \/ o = Head(sq).owner
    BY DEF InFlight, KernelSubmit
<1>11. \A i, j \in DOMAIN sq' : sq'[i].owner = sq'[j].owner => i = j
    BY <1>4, <1>7 DEF OneEntry
<1>12. ~InFlight(Head(sq).owner)
    BY <1>8 DEF OnePlace
<1>13. \A e, f \in inflight' : e.owner = f.owner => e = f
    BY <1>12 DEF InFlight, OneEntry, KernelSubmit
<1> QED BY <1>8, <1>9, <1>10, <1>11, <1>13

(* The kernel ends an operation for good.                                   *)
LEMMA FinishOwners ==
    ASSUME OneEntry, NEW e \in inflight, inflight' = inflight \ {e}
    PROVE  /\ InFlight(e.owner)
           /\ \A o : InFlight(o)' <=> InFlight(o) /\ o # e.owner
           /\ \A f, g \in inflight' : f.owner = g.owner => f = g
BY DEF InFlight, OneEntry

-----------------------------------------------------------------------------
(* The invariant, action by action.                                         *)

(* The timer armed before the loop is the one operation there is.           *)
LEMMA RingInit == Init => RingInv
<1> SUFFICES ASSUME Init PROVE RingInv
    OBVIOUS
<1>1. TypeInv
    BY TypeInit
<1>2. /\ DOMAIN sq = {1} /\ sq[1] = TimeoutOp /\ DOMAIN cq = {}
      /\ inflight = {} /\ listener = "ACCEPT_SQE"
    BY DEF Init
<1>3. \A o : (InSq(o) <=> o = Timer) /\ ~InFlight(o) /\ ~InCq(o)
    BY <1>2 DEF InSq, InFlight, InCq, TimeoutOp
<1>4. Timer # Listener /\ Timer \notin Slots
    BY DEF Timer, Listener, Slots
<1>5. OneEntry
    BY <1>2 DEF OneEntry
<1>6. OnePlace
    BY <1>3 DEF OnePlace
<1>7. \A c \in Slots : ~Awaiting(c)
    BY DEF Init, Awaiting
<1>8. EachOnce
    BY <1>3, <1>4, <1>5, <1>6, <1>7 DEF EachOnce
<1>9. ListenerLast
    BY <1>2 DEF ListenerLast
<1> QED BY <1>1, <1>8, <1>9 DEF RingInv

(* Nothing outstanding moves: what the owners await decides.                *)
LEMMA SamePlaces ==
    ASSUME RingInv, UNCHANGED <<sq, inflight, cq>>
    PROVE  /\ \A o : (InSq(o)' <=> InSq(o)) /\ (InFlight(o)' <=> InFlight(o))
                     /\ (InCq(o)' <=> InCq(o))
           /\ OneEntry' /\ OnePlace' /\ ListenerLast'
<1>1. \A o : (InSq(o)' <=> InSq(o)) /\ (InFlight(o)' <=> InFlight(o))
             /\ (InCq(o)' <=> InCq(o))
    BY DEF InSq, InFlight, InCq
<1>2. OneEntry'
    BY DEF RingInv, EachOnce, OneEntry
<1>3. OnePlace'
    BY <1>1 DEF RingInv, EachOnce, OnePlace
<1>4. ListenerLast'
    BY <1>1 DEF RingInv, ListenerLast
<1> QED BY <1>1, <1>2, <1>3, <1>4

(* Pushing an entry for an owner that has nothing outstanding.              *)
LEMMA PushPlaces ==
    ASSUME RingInv, ~overrun', NEW e \in TaggedOps, Push(e), UNCHANGED <<inflight, cq>>,
           ~InSq(e.owner), ~InFlight(e.owner), ~InCq(e.owner)
    PROVE  /\ \A o : InSq(o)' <=> InSq(o) \/ o = e.owner
           /\ \A o : (InFlight(o)' <=> InFlight(o)) /\ (InCq(o)' <=> InCq(o))
           /\ OneEntry' /\ OnePlace' /\ ListenerLast'
<1>1. /\ \A o : InSq(o)' <=> InSq(o) \/ o = e.owner
      /\ \A i, j \in DOMAIN sq' : sq'[i].owner = sq'[j].owner => i = j
    BY PushOwners DEF RingInv, EachOnce
<1>2. \A o : (InFlight(o)' <=> InFlight(o)) /\ (InCq(o)' <=> InCq(o))
    BY DEF InFlight, InCq
<1>3. OneEntry'
    BY <1>1 DEF RingInv, EachOnce, OneEntry
<1>4. OnePlace'
    BY <1>1, <1>2 DEF RingInv, EachOnce, OnePlace
<1>5. ListenerLast'
  <2> SUFFICES ASSUME NEW i \in DOMAIN cq, cq[i].owner = Listener, ~cq[i].more
               PROVE  /\ ~InSq(Listener)' /\ ~InFlight(Listener)'
                      /\ \A j \in DOMAIN cq : j > i => cq[j].owner # Listener
      BY DEF ListenerLast, Listener
  <2>1. InCq(Listener)
      BY DEF InCq
  <2> QED BY <1>1, <1>2, <2>1 DEF RingInv, ListenerLast
<1> QED BY <1>1, <1>2, <1>3, <1>4, <1>5

(* Arming the accept: the listener had nothing outstanding.                 *)
LEMMA RingIssueAccept ==
    ASSUME RingInv, ~overrun', FastcgiStateHandle
    PROVE  EachOnce' /\ ListenerLast'
<1>1. CASE listener = "ACCEPT_SQE"
  <2>1. ~InSq(Listener) /\ ~InFlight(Listener) /\ ~InCq(Listener)
      BY <1>1 DEF RingInv, EachOnce
  <2>2. /\ AcceptOp \in TaggedOps /\ AcceptOp.owner = Listener
        /\ Push(AcceptOp) /\ UNCHANGED <<inflight, cq, cstate>>
        /\ listener' = "ACCEPT_CQE"
      BY <1>1, OpsTyped DEF FastcgiStateHandle, kernelVars, clientVars, AcceptOp
  <2>3. /\ \A o : InSq(o)' <=> InSq(o) \/ o = Listener
        /\ \A o : (InFlight(o)' <=> InFlight(o)) /\ (InCq(o)' <=> InCq(o))
        /\ OneEntry' /\ OnePlace' /\ ListenerLast'
      BY <2>1, <2>2, PushPlaces
  <2>4. \A c \in Slots : c # Listener /\ (Awaiting(c)' <=> Awaiting(c))
      BY <2>2 DEF Slots, Listener, Awaiting
  <2>5. Timer # Listener
      BY DEF Timer, Listener
  <2>6. EachOnce'
      BY <2>2, <2>3, <2>4, <2>5 DEF RingInv, EachOnce
  <2> QED BY <2>3, <2>6
<1>2. CASE listener # "ACCEPT_SQE"
  <2>1. UNCHANGED <<sq, inflight, cq, cstate, listener>>
      BY <1>2 DEF FastcgiStateHandle, kernelVars, clientVars
  <2>2. \A c \in Slots : Awaiting(c)' <=> Awaiting(c)
      BY <2>1 DEF Awaiting
  <2> QED BY <2>1, <2>2, SamePlaces DEF RingInv, EachOnce
<1> QED BY <1>1, <1>2

(* Issuing a slot's operation: its state awaited nothing before.            *)
LEMMA RingIssueClient ==
    ASSUME RingInv, ~overrun', NEW c \in Slots, ClientStateHandle(c)
    PROVE  EachOnce' /\ ListenerLast'
<1>1. UNCHANGED <<inflight, cq, listener>>
    BY DEF ClientStateHandle, kernelVars
<1>2. c # Timer /\ c # Listener
    BY DEF Slots, Timer, Listener
<1>3. ASSUME NEW e \in TaggedOps, e.owner = c, Push(e), ~Awaiting(c), Awaiting(c)',
             \A d \in Slots \ {c} : Awaiting(d)' <=> Awaiting(d)
      PROVE  EachOnce' /\ ListenerLast'
  <2>1. ~InSq(c) /\ ~InFlight(c) /\ ~InCq(c)
      BY <1>3 DEF RingInv, EachOnce
  <2>2. /\ \A o : InSq(o)' <=> InSq(o) \/ o = c
        /\ \A o : (InFlight(o)' <=> InFlight(o)) /\ (InCq(o)' <=> InCq(o))
        /\ OneEntry' /\ OnePlace' /\ ListenerLast'
      BY <1>1, <1>3, <2>1, PushPlaces
  <2> QED BY <1>1, <1>2, <1>3, <2>2 DEF RingInv, EachOnce
<1>4. ASSUME UNCHANGED sq, \A d \in Slots : Awaiting(d)' <=> Awaiting(d)
      PROVE  EachOnce' /\ ListenerLast'
    BY <1>1, <1>4, SamePlaces DEF RingInv, EachOnce
<1>5. ASSUME NEW from \in {"READ_SQE", "WRITE_SQE", "CLOSE_SQE"},
             NEW op \in {ReadOp(c), WriteOp(c), CloseOp(c)},
             NEW to \in {"READ_CQE", "WRITE_CQE", "CLOSE_CQE"}, Issue(c, from, op, to)
      PROVE  EachOnce' /\ ListenerLast'
  <2>1. op \in TaggedOps /\ op.owner = c
    <3>1. ReadOp(c) \in TaggedOps /\ WriteOp(c) \in TaggedOps /\ CloseOp(c) \in TaggedOps
        BY SlotOpsTyped DEF RingInv, TypeInv
    <3>2. ReadOp(c).owner = c /\ WriteOp(c).owner = c /\ CloseOp(c).owner = c
        BY DEF ReadOp, WriteOp, CloseOp
    <3> QED BY <3>1, <3>2
  <2>2. ~Awaiting(c) /\ Awaiting(c)' /\ \A d \in Slots \ {c} : Awaiting(d)' <=> Awaiting(d)
      BY <1>5 DEF Issue, Awaiting, RingInv, TypeInv, TypeOK
  <2> QED BY <1>3, <1>5, <2>1, <2>2 DEF Issue
<1>6. CASE ReleaseUnopened(c) /\ cstate[c] = "CLOSE_SQE"
    BY <1>4, <1>6 DEF ReleaseUnopened, Awaiting, RingInv, TypeInv, TypeOK
<1>7. CASE UNCHANGED <<cstate, pool, sq>>
    BY <1>4, <1>7 DEF Awaiting
<1> QED BY <1>5, <1>6, <1>7 DEF ClientStateHandle

(* The tick takes the timer's completion and arms the next one.             *)
LEMMA RingTick ==
    ASSUME RingInv, ~overrun', TimestampTick
    PROVE  EachOnce' /\ ListenerLast'
<1>1. /\ Head(cq).owner = Timer /\ Timer # Listener /\ Timer \in Owners
      /\ \A c \in Slots : c # Timer
      /\ TimeoutOp \in TaggedOps /\ TimeoutOp.owner = Timer
      /\ Push(TimeoutOp) /\ CqDiscard /\ pc = "handle"
      /\ UNCHANGED <<inflight, listener, cstate>>
    BY OpsTyped DEF TimestampTick, Timer, Listener, Slots, Owners, TimeoutOp, clientVars, kernelVars
<1>2. /\ InCq(Timer) /\ ~InCq(Timer)'
      /\ \A o : o # Timer => (InCq(o)' <=> InCq(o))
      /\ \A i, j \in DOMAIN cq' :
           cq'[i].owner = cq'[j].owner /\ cq'[i].owner # Listener => i = j
      /\ \A i \in DOMAIN cq' : cq'[i].owner = Listener /\ ~cq'[i].more =>
           /\ ~InSq(Listener) /\ ~InFlight(Listener)
           /\ \A j \in DOMAIN cq' : j > i => cq'[j].owner # Listener
    BY <1>1, DiscardOwners DEF RingInv, EachOnce
<1>3. ~InSq(Timer) /\ ~InFlight(Timer)
    BY <1>1, <1>2 DEF RingInv, EachOnce, OnePlace
<1>4. /\ \A o : InSq(o)' <=> InSq(o) \/ o = Timer
      /\ \A i, j \in DOMAIN sq' : sq'[i].owner = sq'[j].owner => i = j
    BY <1>1, <1>3, PushOwners DEF RingInv, EachOnce
<1>5. \A o : InFlight(o)' <=> InFlight(o)
    BY <1>1 DEF InFlight
<1>6. OneEntry'
    BY <1>1, <1>2, <1>4 DEF RingInv, EachOnce, OneEntry
<1>7. OnePlace'
    BY <1>1, <1>2, <1>3, <1>4, <1>5 DEF RingInv, EachOnce, OnePlace
<1>8. \A c \in Slots : Awaiting(c)' <=> Awaiting(c)
    BY <1>1 DEF Awaiting
<1>9. EachOnce'
    BY <1>1, <1>2, <1>4, <1>5, <1>6, <1>7, <1>8 DEF RingInv, EachOnce
<1>10. ListenerLast'
    BY <1>1, <1>2, <1>4, <1>5 DEF ListenerLast
<1> QED BY <1>9, <1>10

(* An accept completion ends the accept only when F_MORE is missing.        *)
LEMMA RingAccepted ==
    ASSUME RingInv, PoolAgreement, FastcgiCqeHandle
    PROVE  EachOnce' /\ ListenerLast'
<1>1. /\ Head(cq).owner = Listener /\ CqDiscard /\ pc = "handle"
      /\ Listener # Timer /\ \A c \in Slots : c # Listener
      /\ UNCHANGED <<sq, inflight>>
    BY DEF FastcgiCqeHandle, Listener, Timer, Slots
<1>2. /\ InCq(Listener)
      /\ \A o : InCq(o)' => InCq(o)
      /\ \A o : o # Listener => (InCq(o)' <=> InCq(o))
      /\ \A i, j \in DOMAIN cq' :
           cq'[i].owner = cq'[j].owner /\ cq'[i].owner # Listener => i = j
      /\ ~Head(cq).more => ~InSq(Listener) /\ ~InFlight(Listener) /\ ~InCq(Listener)'
      /\ \A i \in DOMAIN cq' : cq'[i].owner = Listener /\ ~cq'[i].more =>
           /\ ~InSq(Listener) /\ ~InFlight(Listener)
           /\ \A j \in DOMAIN cq' : j > i => cq'[j].owner # Listener
    BY <1>1, DiscardOwners DEF RingInv, EachOnce
<1>3. \A o : (InSq(o)' <=> InSq(o)) /\ (InFlight(o)' <=> InFlight(o))
    BY <1>1 DEF InSq, InFlight
<1>4. OneEntry' /\ OnePlace'
    BY <1>1, <1>2, <1>3 DEF RingInv, EachOnce, OneEntry, OnePlace
<1>5. ListenerLast'
    BY <1>2, <1>3 DEF ListenerLast
<1>6. \A c \in Slots : Awaiting(c)' <=> Awaiting(c)
  <2>1. CASE AcceptTaken
      BY <2>1 DEF AcceptTaken, FreeSlots, PoolAgreement, Awaiting, RingInv, TypeInv, TypeOK
  <2>2. CASE AcceptFails \/ AcceptRefused \/ UNCHANGED clientVars
      BY <2>2 DEF AcceptFails, AcceptRefused, Awaiting, clientVars
  <2> QED BY <2>1, <2>2 DEF FastcgiCqeHandle
<1>7. listener' = "ACCEPT_SQE" =>
        ~(InSq(Listener)' \/ InFlight(Listener)' \/ InCq(Listener)')
  <2>1. Head(cq).res < 0 => ~Head(cq).more
    <3>1. Head(cq) \in TaggedCompletions
        BY <1>1, HeadTyped DEF RingInv
    <3>2. Head(cq).res \in Fds \cup {-1} /\ (Head(cq).res = -1 => ~Head(cq).more)
        BY <1>1, <3>1 DEF TaggedCompletions
    <3>3. \A f \in Fds : ~(f < 0)
        BY EventLoopAssumption
    <3> QED BY <3>2, <3>3
  <2>2. listener' = "ACCEPT_SQE" => listener = "ACCEPT_SQE" \/ ~Head(cq).more
      BY <2>1 DEF FastcgiCqeHandle, AcceptTaken, AcceptFails, AcceptRefused
  <2>3. listener # "ACCEPT_SQE"
      BY <1>2 DEF RingInv, EachOnce
  <2> QED BY <1>2, <1>3, <2>2, <2>3
<1> QED BY <1>1, <1>2, <1>3, <1>4, <1>5, <1>6, <1>7 DEF RingInv, EachOnce

(* A handled completion was the only thing outstanding for its slot.        *)
LEMMA RingCompleted ==
    ASSUME RingInv, NEW c \in Slots, ClientCqeHandle(c)
    PROVE  EachOnce' /\ ListenerLast'
<1>1. /\ Head(cq).owner = c /\ CqDiscard /\ pc = "handle"
      /\ c # Timer /\ c # Listener /\ c \in Owners
      /\ UNCHANGED <<sq, inflight, listener>>
    BY DEF ClientCqeHandle, Listener, Timer, Slots, Owners, kernelVars
<1>2. /\ InCq(c) /\ ~InCq(c)'
      /\ \A o : o # c => (InCq(o)' <=> InCq(o))
      /\ \A i, j \in DOMAIN cq' :
           cq'[i].owner = cq'[j].owner /\ cq'[i].owner # Listener => i = j
      /\ \A i \in DOMAIN cq' : cq'[i].owner = Listener /\ ~cq'[i].more =>
           /\ ~InSq(Listener) /\ ~InFlight(Listener)
           /\ \A j \in DOMAIN cq' : j > i => cq'[j].owner # Listener
    BY <1>1, DiscardOwners DEF RingInv, EachOnce
<1>3. \A o : (InSq(o)' <=> InSq(o)) /\ (InFlight(o)' <=> InFlight(o))
    BY <1>1 DEF InSq, InFlight
<1>4. OneEntry' /\ OnePlace'
    BY <1>1, <1>2, <1>3 DEF RingInv, EachOnce, OneEntry, OnePlace
<1>5. ListenerLast'
    BY <1>2, <1>3 DEF ListenerLast
<1>6. Awaiting(c) /\ ~InSq(c) /\ ~InFlight(c)
    BY <1>1, <1>2 DEF RingInv, EachOnce, OnePlace
<1>7. ~Awaiting(c)' /\ \A d \in Slots \ {c} : Awaiting(d)' <=> Awaiting(d)
    BY <1>6 DEF ClientCqeHandle, ReadDone, WriteDone, AfterWrite, CloseDone, clientVars,
                Awaiting, RingInv, TypeInv, TypeOK
<1> QED BY <1>1, <1>2, <1>3, <1>4, <1>5, <1>6, <1>7 DEF RingInv, EachOnce

(* The kernel takes an entry: ring to kernel, same owner.                   *)
LEMMA RingSubmit ==
    ASSUME RingInv, KernelSubmit
    PROVE  EachOnce' /\ ListenerLast'
<1>1. /\ Head(sq).owner \in Owners /\ InSq(Head(sq).owner)
      /\ \A o : InSq(o)' <=> InSq(o) /\ o # Head(sq).owner
      /\ \A o : InFlight(o)' <=> InFlight(o) \/ o = Head(sq).owner
      /\ \A i, j \in DOMAIN sq' : sq'[i].owner = sq'[j].owner => i = j
      /\ \A e, f \in inflight' : e.owner = f.owner => e = f
    BY SubmitOwners DEF RingInv, EachOnce
<1>2. UNCHANGED <<cq, cstate, listener>>
    BY DEF KernelSubmit, clientVars
<1>3. \A o : (InCq(o)' <=> InCq(o)) /\ (Awaiting(o)' <=> Awaiting(o))
    BY <1>2 DEF InCq, Awaiting
<1>4. OneEntry' /\ OnePlace'
    BY <1>1, <1>2, <1>3 DEF RingInv, EachOnce, OneEntry, OnePlace
<1>5. EachOnce'
    BY <1>1, <1>2, <1>3, <1>4 DEF RingInv, EachOnce
<1>6. ListenerLast'
  <2> SUFFICES ASSUME NEW i \in DOMAIN cq, cq[i].owner = Listener, ~cq[i].more
               PROVE  /\ ~InSq(Listener)' /\ ~InFlight(Listener)'
                      /\ \A j \in DOMAIN cq : j > i => cq[j].owner # Listener
      BY <1>2 DEF ListenerLast, Listener
  <2> QED BY <1>1 DEF RingInv, ListenerLast
<1> QED BY <1>5, <1>6

(* An operation that ends for good, with a last completion.                 *)
LEMMA RingFinish ==
    ASSUME RingInv, NEW e \in inflight, inflight' = inflight \ {e},
           NEW r, Post(e.owner, r, FALSE), UNCHANGED <<sq, cstate, listener>>
    PROVE  EachOnce' /\ ListenerLast'
<1> DEFINE o == e.owner
<1>1. o \in Owners
    BY DEF RingInv, TypeInv, TypeOK, Operations
<1>2. /\ InFlight(o)
      /\ \A x : InFlight(x)' <=> InFlight(x) /\ x # o
      /\ \A f, g \in inflight' : f.owner = g.owner => f = g
    BY FinishOwners DEF RingInv, EachOnce
<1>3. ~InSq(o) /\ (o # Listener => ~InCq(o))
    BY <1>1, <1>2 DEF RingInv, EachOnce, OnePlace
<1>4. /\ \A x : InCq(x)' <=> InCq(x) \/ x = o
      /\ \A i, j \in DOMAIN cq' :
           cq'[i].owner = cq'[j].owner /\ cq'[i].owner # Listener => i = j
      /\ Len(cq) \in Nat
      /\ DOMAIN cq = 1 .. Len(cq) /\ DOMAIN cq' = 1 .. (Len(cq) + 1)
      /\ \A i \in 1 .. Len(cq) : cq'[i] = cq[i]
      /\ cq'[Len(cq) + 1].owner = o
  <2>1. TypeInv /\ OneEntry
      BY DEF RingInv, EachOnce
  <2>2. o # Listener => ~InCq(o)
      BY <1>3
  <2>3. Post(o, r, FALSE)
      OBVIOUS
  <2> HIDE DEF o
  <2>4. /\ \A x : InCq(x)' <=> InCq(x) \/ x = o
        /\ \A i, j \in DOMAIN cq' :
             cq'[i].owner = cq'[j].owner /\ cq'[i].owner # Listener => i = j
        /\ Len(cq) \in Nat
        /\ DOMAIN cq = 1 .. Len(cq) /\ DOMAIN cq' = 1 .. (Len(cq) + 1)
        /\ \A i \in 1 .. Len(cq) : cq'[i] = cq[i]
        /\ cq'[Len(cq) + 1] = [owner |-> o, res |-> r, more |-> FALSE]
      BY <2>1, <2>2, <2>3, PostOwners, Zenon
  <2> QED BY <2>4
<1> HIDE DEF o
<1>5. \A x : (InSq(x)' <=> InSq(x)) /\ (Awaiting(x)' <=> Awaiting(x))
    BY DEF InSq, Awaiting
<1>6. OneEntry' /\ OnePlace'
    BY <1>2, <1>3, <1>4, <1>5 DEF RingInv, EachOnce, OneEntry, OnePlace
<1>7. EachOnce'
    BY <1>1, <1>2, <1>3, <1>4, <1>5, <1>6 DEF RingInv, EachOnce
<1>8. ListenerLast'
  <2> SUFFICES ASSUME NEW i \in DOMAIN cq', cq'[i].owner = Listener, ~cq'[i].more
               PROVE  /\ ~InSq(Listener)' /\ ~InFlight(Listener)'
                      /\ \A j \in DOMAIN cq' : j > i => cq'[j].owner # Listener
      BY DEF ListenerLast, Listener
  <2>1. CASE i = Len(cq) + 1
      BY <1>2, <1>3, <1>4, <1>5, <2>1
  <2>2. CASE i # Len(cq) + 1
    <3>1. i \in DOMAIN cq /\ cq[i] = cq'[i]
        BY <1>4, <2>2
    <3>2. /\ ~InSq(Listener) /\ ~InFlight(Listener)
          /\ \A j \in DOMAIN cq : j > i => cq[j].owner # Listener
        BY <3>1 DEF RingInv, ListenerLast
    <3>3. o # Listener
        BY <1>2, <3>2
    <3> QED BY <1>2, <1>4, <1>5, <3>2, <3>3
  <2> QED BY <2>1, <2>2
<1> QED BY <1>7, <1>8

(* A connection accepted by an accept that goes on.                         *)
LEMMA RingAcceptMore ==
    ASSUME RingInv, NEW fd, KernelAccept(fd, TRUE)
    PROVE  EachOnce' /\ ListenerLast'
<1>1. /\ AcceptOp \in inflight /\ Post(Listener, fd, TRUE)
      /\ UNCHANGED <<inflight, sq, cstate, listener>>
    BY DEF KernelAccept, clientVars
<1>2. InFlight(Listener)
    BY <1>1 DEF InFlight, AcceptOp
<1>3. /\ \A x : InCq(x)' <=> InCq(x) \/ x = Listener
      /\ \A i, j \in DOMAIN cq' :
           cq'[i].owner = cq'[j].owner /\ cq'[i].owner # Listener => i = j
      /\ Len(cq) \in Nat
      /\ DOMAIN cq = 1 .. Len(cq) /\ DOMAIN cq' = 1 .. (Len(cq) + 1)
      /\ \A i \in 1 .. Len(cq) : cq'[i] = cq[i]
      /\ cq'[Len(cq) + 1] = [owner |-> Listener, res |-> fd, more |-> TRUE]
  <2>1. TypeInv /\ OneEntry
      BY DEF RingInv, EachOnce
  <2>2. Post(Listener, fd, TRUE)
      BY <1>1
  <2>3. ASSUME NEW o, o = Listener, NEW m, m = TRUE, Post(o, fd, m)
        PROVE  /\ \A x : InCq(x)' <=> InCq(x) \/ x = o
               /\ \A i, j \in DOMAIN cq' :
                    cq'[i].owner = cq'[j].owner /\ cq'[i].owner # Listener => i = j
               /\ Len(cq) \in Nat
               /\ DOMAIN cq = 1 .. Len(cq) /\ DOMAIN cq' = 1 .. (Len(cq) + 1)
               /\ \A i \in 1 .. Len(cq) : cq'[i] = cq[i]
               /\ cq'[Len(cq) + 1] = [owner |-> o, res |-> fd, more |-> m]
    <3>1. o # Listener => ~InCq(o)
        BY <2>3
    <3>2. Post(o, fd, m)
        BY <2>3
    <3> QED BY <2>1, <3>1, <3>2, PostOwners, Zenon
  <2> QED BY <2>2, <2>3, Zenon
<1>4. \A x : /\ InSq(x)' <=> InSq(x)
             /\ InFlight(x)' <=> InFlight(x)
             /\ Awaiting(x)' <=> Awaiting(x)
    BY <1>1 DEF InSq, InFlight, Awaiting
<1>5. OneEntry' /\ OnePlace'
    BY <1>1, <1>3, <1>4 DEF RingInv, EachOnce, OneEntry, OnePlace
<1>6. Timer # Listener /\ \A c \in Slots : c # Listener
    BY DEF Timer, Listener, Slots
<1>7. listener # "ACCEPT_SQE"
    BY <1>2 DEF RingInv, EachOnce
<1>8. EachOnce'
    BY <1>1, <1>3, <1>4, <1>5, <1>6, <1>7 DEF RingInv, EachOnce
<1>9. \A i \in DOMAIN cq : ~(cq[i].owner = Listener /\ ~cq[i].more)
    BY <1>2 DEF RingInv, ListenerLast
<1>10. \A i \in DOMAIN cq' : ~(cq'[i].owner = Listener /\ ~cq'[i].more)
  <2>1. cq'[Len(cq) + 1].more
      BY <1>3
  <2>2. \A i \in DOMAIN cq' : i = Len(cq) + 1 \/ (i \in DOMAIN cq /\ cq'[i] = cq[i])
      BY <1>3
  <2> QED BY <1>9, <2>1, <2>2
<1>11. ListenerLast'
    BY <1>10 DEF ListenerLast
<1> QED BY <1>8, <1>11

(* No step of the kernel loses or doubles an operation.                     *)
LEMMA RingKernel ==
    ASSUME RingInv, KernelStep
    PROVE  EachOnce' /\ ListenerLast'
<1>1. CASE KernelSubmit
    BY <1>1, RingSubmit
<1>2. CASE \E fd \in Fds, more \in BOOLEAN : KernelAccept(fd, more)
  <2> PICK fd \in Fds, more \in BOOLEAN : KernelAccept(fd, more)
      BY <1>2
  <2>1. CASE more = TRUE
      BY <2>1, RingAcceptMore
  <2>2. CASE more = FALSE
    <3>1. /\ AcceptOp \in inflight /\ inflight' = inflight \ {AcceptOp}
          /\ UNCHANGED <<sq, cstate, listener>>
        BY <2>2 DEF KernelAccept, clientVars
    <3>2. Post(AcceptOp.owner, fd, FALSE)
        BY <2>2, Zenon DEF KernelAccept, AcceptOp
    <3> QED BY <3>1, <3>2, RingFinish, Zenon
  <2> QED BY <2>1, <2>2
<1>3. CASE KernelAcceptError
  <2>1. /\ AcceptOp \in inflight /\ inflight' = inflight \ {AcceptOp}
        /\ UNCHANGED <<sq, cstate, listener>>
      BY <1>3 DEF KernelAcceptError, clientVars
  <2>2. Post(AcceptOp.owner, -1, FALSE)
      BY <1>3, Zenon DEF KernelAcceptError, AcceptOp
  <2> QED BY <2>1, <2>2, RingFinish, Zenon
<1>4. CASE KernelTimeout
  <2>1. /\ TimeoutOp \in inflight /\ inflight' = inflight \ {TimeoutOp}
        /\ UNCHANGED <<sq, cstate, listener>>
      BY <1>4 DEF KernelTimeout, clientVars
  <2>2. Post(TimeoutOp.owner, -1, FALSE)
      BY <1>4, Zenon DEF KernelTimeout, TimeoutOp
  <2> QED BY <2>1, <2>2, RingFinish, Zenon
<1>5. CASE \E e \in inflight : \E res \in Results(e) : KernelTransfer(e, res)
  <2> PICK e \in inflight : \E res \in Results(e) : KernelTransfer(e, res)
      BY <1>5
  <2> PICK res \in Results(e) : KernelTransfer(e, res)
      OBVIOUS
  <2>1. /\ inflight' = inflight \ {e} /\ Post(e.owner, res, FALSE)
        /\ UNCHANGED <<sq, cstate, listener>>
      BY Zenon DEF KernelTransfer, clientVars
  <2> QED BY <2>1, RingFinish, Zenon
<1>6. CASE \E e \in inflight : KernelClose(e)
  <2> PICK e \in inflight : KernelClose(e)
      BY <1>6
  <2>1. /\ inflight' = inflight \ {e} /\ Post(e.owner, 0, FALSE)
        /\ UNCHANGED <<sq, cstate, listener>>
      BY Zenon DEF KernelClose, clientVars
  <2> QED BY <2>1, RingFinish, Zenon
<1> QED BY <1>1, <1>2, <1>3, <1>4, <1>5, <1>6 DEF KernelStep

(* A step that overwrites no entry keeps the ring invariant.                *)
LEMMA RingStep == RingInv /\ PoolAgreement /\ [Next]_vars /\ ~overrun' => RingInv'
<1> SUFFICES ASSUME RingInv, PoolAgreement, [Next]_vars, ~overrun'
             PROVE  EachOnce' /\ ListenerLast'
    BY TypeStep DEF RingInv
<1>1. CASE FastcgiStateHandle
    BY <1>1, RingIssueAccept
<1>2. CASE \E c \in Slots : ClientStateHandle(c)
    BY <1>2, RingIssueClient
<1>3. CASE Peek \/ PeekNext \/ CqeWait \/ CqeWaitFails \/ UNCHANGED vars
  <2>1. UNCHANGED <<sq, inflight, cq, cstate, listener>>
      BY <1>3 DEF Peek, PeekNext, CqeWait, CqeWaitFails, vars, clientVars, kernelVars
  <2>2. \A c : Awaiting(c)' <=> Awaiting(c)
      BY <2>1 DEF Awaiting
  <2> QED BY <2>1, <2>2, SamePlaces DEF RingInv, EachOnce
<1>4. CASE TimestampTick
    BY <1>4, RingTick
<1>5. CASE FastcgiCqeHandle
    BY <1>5, RingAccepted
<1>6. CASE \E c \in Slots : ClientCqeHandle(c)
    BY <1>6, RingCompleted
<1>7. CASE KernelStep
    BY <1>7, RingKernel
<1> QED BY <1>1, <1>2, <1>3, <1>4, <1>5, <1>6, <1>7 DEF Next, LoopStep, Handle

(* What the other proofs rest on, together.                                 *)
LoopInv == RingInv /\ PoolAgreement

(* It holds of the state main sets up,                                      *)
LEMMA LoopInit == Init => LoopInv
BY RingInit DEF LoopInv, Init, PoolAgreement

(* and every step keeps it that overwrites no entry.                        *)
LEMMA LoopStepInv == LoopInv /\ [Next]_vars /\ ~overrun' => LoopInv'
BY RingStep, PoolStep DEF LoopInv, RingInv

(* Until an entry is overwritten, a slot that awaits a completion has       *)
(* exactly one operation outstanding, the timer has one always, and the     *)
(* accept is never armed twice; for a ring of any size.                     *)
THEOREM OneOperationEach == Spec => []OneOperation
<1>1. Init => LoopInv
    BY LoopInit
<1>2. (overrun \/ LoopInv) /\ [Next]_vars => (overrun \/ LoopInv)'
    BY LoopStepInv, OverrunStays
<1>3. overrun \/ LoopInv => OneOperation
    BY DEF LoopInv, RingInv, OneOperation
<1> QED BY <1>1, <1>2, <1>3, PTL DEF Spec

-----------------------------------------------------------------------------
(* The bound on the ring: those who may have an entry in it.                *)
Crowd == InUse \cup {Listener, Timer}

(* A slot whose operation is in the ring is in use.                         *)
LEMMA RingIsCrowd ==
    ASSUME LoopInv
    PROVE  /\ Crowd \subseteq Owners
           /\ \A i \in DOMAIN sq : sq[i].owner \in Crowd
<1>1. Crowd \subseteq Owners
    BY DEF Crowd, InUse, Owners
<1>2. ASSUME NEW i \in DOMAIN sq PROVE sq[i].owner \in Crowd
  <2>1. sq[i] \in Operations
      BY LenProperties, ElementOfSeq DEF LoopInv, RingInv, TypeInv, TypeOK
  <2>2. CASE sq[i].owner \in {Listener, Timer}
      BY <2>2 DEF Crowd
  <2>3. CASE sq[i].owner \in Slots
    <3>1. InSq(sq[i].owner)
        BY DEF InSq
    <3>2. Awaiting(sq[i].owner)
        BY <2>3, <3>1 DEF LoopInv, RingInv, EachOnce
    <3>3. pool[sq[i].owner] # "FREE" /\ pool[sq[i].owner] \in {"FREE", "IN_USE"}
        BY <2>3, <3>2 DEF LoopInv, RingInv, TypeInv, TypeOK, PoolAgreement, Awaiting
    <3> QED BY <2>3, <3>3 DEF Crowd, InUse
  <2> QED BY <2>1, <2>2, <2>3 DEF Operations, Owners
<1> QED BY <1>1, <1>2

(* One of them that has no entry finds room, unless they are too many.      *)
LEMMA PushInCrowd ==
    ASSUME LoopInv, NEW o \in Crowd, ~InSq(o), Len(sq) >= SQEntries
    PROVE  Cardinality(InUse) + 2 > SQEntries
<1>1. IsFiniteSet(Slots)
    BY EventLoopAssumption, FS_Interval DEF Slots
<1>2. IsFiniteSet(InUse) /\ Cardinality(InUse) \in Nat
    BY <1>1, FS_Subset, FS_CardinalityType DEF InUse
<1>3. Listener \notin InUse /\ Timer \notin InUse \cup {Listener}
    BY DEF InUse, Slots, Listener, Timer
<1> DEFINE L == InUse \cup {Listener}
<1>4. IsFiniteSet(L) /\ Cardinality(L) = Cardinality(InUse) + 1
    BY <1>2, <1>3, FS_AddElement
<1> HIDE DEF L
<1>5. IsFiniteSet(L \cup {Timer}) /\ Cardinality(L \cup {Timer}) = Cardinality(L) + 1
    BY <1>3, <1>4, FS_AddElement DEF L
<1>6. Crowd = L \cup {Timer}
    BY DEF Crowd, L
<1>7. IsFiniteSet(Crowd) /\ Cardinality(Crowd) = Cardinality(InUse) + 2
    BY <1>2, <1>4, <1>5, <1>6
<1>8. Cardinality(Crowd \ {o}) = Cardinality(Crowd) - 1
    BY <1>7, FS_RemoveElement
<1>9. /\ Crowd \ {o} \in SUBSET Owners
      /\ \A i \in DOMAIN sq : sq[i].owner \in Crowd \ {o}
    BY RingIsCrowd DEF InSq
<1>10. TypeInv /\ OneEntry
    BY DEF LoopInv, RingInv, EachOnce
<1>11. Len(sq) \in Nat /\ Len(sq) <= Cardinality(Crowd \ {o})
    BY <1>9, <1>10, RingBound
<1> QED BY <1>2, <1>7, <1>8, <1>11, EventLoopAssumption

(* Only an owner that has no entry pushes one.                              *)
LEMMA WhoPushes ==
    ASSUME LoopInv, [Next]_vars, ~overrun, overrun'
    PROVE  Len(sq) >= SQEntries /\ \E o \in Crowd : ~InSq(o)
<1>1. CASE FastcgiStateHandle
  <2>1. Push(AcceptOp) /\ listener = "ACCEPT_SQE"
      BY <1>1 DEF FastcgiStateHandle
  <2>2. ~InSq(Listener) /\ Listener \in Crowd
      BY <2>1 DEF LoopInv, RingInv, EachOnce, Crowd
  <2> QED BY <2>1, <2>2 DEF Push
<1>2. ASSUME NEW c \in Slots, ClientStateHandle(c)
      PROVE  Len(sq) >= SQEntries /\ \E o \in Crowd : ~InSq(o)
  <2>1. /\ cstate[c] \in {"READ_SQE", "WRITE_SQE", "CLOSE_SQE"}
        /\ Push(ReadOp(c)) \/ Push(WriteOp(c)) \/ Push(CloseOp(c))
      BY <1>2 DEF ClientStateHandle, Issue, ReleaseUnopened
  <2>2. pool[c] # "FREE" /\ pool[c] \in {"FREE", "IN_USE"}
      BY <2>1 DEF LoopInv, RingInv, TypeInv, TypeOK, PoolAgreement
  <2>3. ~InSq(c)
      BY <2>1 DEF LoopInv, RingInv, EachOnce, Awaiting
  <2> QED BY <2>1, <2>2, <2>3 DEF Crowd, InUse, Push
<1>3. CASE TimestampTick
  <2>1. Push(TimeoutOp) /\ CqDiscard /\ pc = "handle" /\ Head(cq).owner = Timer
      BY <1>3 DEF TimestampTick
  <2>2. InCq(Timer)
      BY <2>1, DiscardOwners DEF LoopInv, RingInv, EachOnce
  <2>3. ~InSq(Timer) /\ Timer \in Crowd
      BY <2>2 DEF LoopInv, RingInv, EachOnce, OnePlace, Owners, Timer, Listener, Crowd
  <2> QED BY <2>1, <2>3 DEF Push
<1>4. ASSUME UNCHANGED overrun PROVE FALSE
    BY <1>4
<1> QED BY <1>1, <1>2, <1>3, <1>4
        DEF Next, LoopStep, Handle, Peek, PeekNext, CqeWait, CqeWaitFails,
            FastcgiCqeHandle, ClientCqeHandle, KernelStep, KernelSubmit, KernelAccept,
            KernelAcceptError, KernelTimeout, KernelTransfer, KernelClose, vars

(* An entry is overwritten only when the connections, the listener and the  *)
(* timer are more than the ring's entries: with the 64 entries main asks    *)
(* for, not before the 63rd connection, whatever CG_MAX_CLIENTS is.         *)
THEOREM OverrunInCrowd == Spec => OverrunNeedsCrowd
<1> DEFINE Step == ~overrun /\ overrun' => Cardinality(InUse) + 2 > SQEntries
<1>1. Init => LoopInv
    BY LoopInit
<1>2. (overrun \/ LoopInv) /\ [Next]_vars => (overrun \/ LoopInv)'
    BY LoopStepInv, OverrunStays
<1>3. (overrun \/ LoopInv) /\ [Next]_vars => [Step]_vars
    BY WhoPushes, PushInCrowd
<1> QED BY <1>1, <1>2, <1>3, PTL DEF Spec, OverrunNeedsCrowd

-----------------------------------------------------------------------------
(* What the rings carry and who owns the descriptors, until an entry is     *)
(* overwritten.                                                             *)

-----------------------------------------------------------------------------
(* The queues, as sets of what they hold.                                   *)

(* An entry pushed for an owner that has none joins those issued.           *)
LEMMA PushIssued ==
    ASSUME TypeInv, OneEntry, ~overrun', NEW e \in TaggedOps, Push(e), ~InSq(e.owner),
           UNCHANGED inflight
    PROVE  /\ Issued' = Issued \cup {e}
           /\ InSq(e.owner)' /\ \A o : InSq(o) => InSq(o)'
<1>1. e.owner \in Owners
    BY OpsTyped DEF Operations
<1>2. sq \in Seq(TaggedOps) /\ Len(sq) < SQEntries
    BY <1>1, RoomToPush DEF TypeInv, QueuesTagged
<1>3. /\ Len(sq) \in Nat
      /\ DOMAIN sq = 1 .. Len(sq) /\ DOMAIN sq' = 1 .. (Len(sq) + 1)
      /\ \A i \in 1 .. Len(sq) : sq'[i] = sq[i]
      /\ sq'[Len(sq) + 1] = e
    BY <1>2, PushAppends
<1>4. Issued' = Issued \cup {e}
    BY <1>3 DEF Issued
<1> QED BY <1>3, <1>4, PushOwners

(* The kernel taking an entry moves it and leaves those issued the same.    *)
LEMMA SubmitIssued ==
    ASSUME TypeInv, KernelSubmit
    PROVE  Issued' = Issued
<1>1. sq \in Seq(TaggedOps) /\ sq # <<>> /\ sq' = Tail(sq)
    BY DEF TypeInv, QueuesTagged, KernelSubmit
<1>2. /\ Len(sq) \in Nat \ {0} /\ DOMAIN sq = 1 .. Len(sq)
      /\ Head(sq) = sq[1]
    BY <1>1, LenProperties, EmptySeq, HeadTailProperties
<1>3. /\ DOMAIN sq' = 1 .. (Len(sq) - 1)
      /\ \A i \in 1 .. (Len(sq) - 1) : sq'[i] = sq[i + 1]
    BY <1>1, <1>2, HeadTailProperties, LenProperties
<1>4. \A i \in DOMAIN sq' : i + 1 \in DOMAIN sq /\ sq'[i] = sq[i + 1]
    BY <1>2, <1>3
<1>5. \A i \in DOMAIN sq : i = 1 \/ (i - 1 \in DOMAIN sq' /\ sq[i] = sq'[i - 1])
    BY <1>2, <1>3
<1>6. 1 \in DOMAIN sq /\ inflight' = inflight \cup {sq[1]}
    BY <1>2 DEF KernelSubmit
<1> QED BY <1>4, <1>5, <1>6 DEF Issued

(* The completions that are left after the first was handled.               *)
LEMMA DiscardShifts ==
    ASSUME TypeInv, pc = "handle", CqDiscard
    PROVE  /\ 1 \in DOMAIN cq /\ Head(cq) = cq[1]
           /\ \A i \in DOMAIN cq' : i + 1 \in DOMAIN cq /\ i + 1 # 1 /\ cq'[i] = cq[i + 1]
           /\ \A i \in DOMAIN cq : i # 1 => i - 1 \in DOMAIN cq' /\ cq[i] = cq'[i - 1]
           /\ \A i, j \in DOMAIN cq' : i + 1 = j + 1 => i = j
<1>1. cq \in Seq(TaggedCompletions) /\ cq # <<>> /\ cq' = Tail(cq)
    BY DEF TypeInv, QueuesTagged, CqDiscard
<1>2. /\ Len(cq) \in Nat \ {0} /\ DOMAIN cq = 1 .. Len(cq)
      /\ Head(cq) = cq[1]
    BY <1>1, LenProperties, EmptySeq
<1>3. /\ DOMAIN cq' = 1 .. (Len(cq) - 1)
      /\ \A i \in 1 .. (Len(cq) - 1) : cq'[i] = cq[i + 1]
    BY <1>1, <1>2, HeadTailProperties, LenProperties
<1> QED BY <1>2, <1>3

(* The completions after one was posted.                                    *)
LEMMA PostAdds ==
    ASSUME TypeInv, NEW o, NEW r, NEW m, Post(o, r, m)
    PROVE  \E n \in Nat :
             /\ n \notin DOMAIN cq /\ DOMAIN cq' = DOMAIN cq \cup {n}
             /\ \A i \in DOMAIN cq : cq'[i] = cq[i]
             /\ cq'[n] = [owner |-> o, res |-> r, more |-> m]
<1> DEFINE x == [owner |-> o, res |-> r, more |-> m]
           S == TaggedCompletions \cup {x}
<1>1. cq \in Seq(S) /\ x \in S /\ cq' = Append(cq, x)
  <2>1. cq \in Seq(TaggedCompletions)
      BY DEF TypeInv, QueuesTagged
  <2>2. cq \in Seq(S)
      BY <2>1, SeqMonotonic
  <2> QED BY <2>2 DEF Post
<1> HIDE DEF S, x
<1>2. /\ Len(cq) \in Nat
      /\ DOMAIN cq = 1 .. Len(cq) /\ DOMAIN cq' = 1 .. (Len(cq) + 1)
      /\ \A i \in 1 .. Len(cq) : cq'[i] = cq[i]
      /\ cq'[Len(cq) + 1] = x
    BY <1>1, AppendProperties, LenProperties
<1>3. DOMAIN cq' = DOMAIN cq \cup {Len(cq) + 1} /\ Len(cq) + 1 \notin DOMAIN cq
    BY <1>2
<1> QED BY <1>2, <1>3 DEF x

(* Whose completions there are after one was posted.                        *)
LEMMA PostInCq ==
    ASSUME TypeInv, NEW o, NEW r, NEW m, Post(o, r, m)
    PROVE  \A x : InCq(x)' <=> InCq(x) \/ x = o
<1> PICK n \in Nat :
      /\ n \notin DOMAIN cq /\ DOMAIN cq' = DOMAIN cq \cup {n}
      /\ \A i \in DOMAIN cq : cq'[i] = cq[i]
      /\ cq'[n] = [owner |-> o, res |-> r, more |-> m]
    BY PostAdds
<1> QED BY DEF InCq

-----------------------------------------------------------------------------
(* What is outstanding for a slot is what its state awaits.  Relative to    *)
(* LoopInv the property is inductive: a slot's state, descriptor and length *)
(* change only where LoopInv says that nothing is outstanding for it.       *)

MatchInv == LoopInv /\ EachAsAwaited

(* A slot that awaits nothing has nothing in any place.                     *)
LEMMA NothingOutstanding ==
    ASSUME LoopInv, NEW c \in Slots, ~Awaiting(c)
    PROVE  /\ ~InSq(c) /\ ~InFlight(c) /\ ~InCq(c)
           /\ \A e \in Issued : e.owner # c
<1>1. ~InSq(c) /\ ~InFlight(c) /\ ~InCq(c)
    BY DEF LoopInv, RingInv, EachOnce
<1>2. \A e \in Issued : e.owner # c
    BY <1>1 DEF Issued, InSq, InFlight
<1> QED BY <1>1, <1>2

(* A slot whose completion is being handled has nothing else anywhere.      *)
LEMMA HandledAlone ==
    ASSUME LoopInv, NEW c \in Slots, pc = "handle", Head(cq).owner = c, CqDiscard
    PROVE  /\ Awaiting(c) /\ InCq(c) /\ ~InCq(c)' /\ ~InSq(c) /\ ~InFlight(c)
           /\ \A e \in Issued : e.owner # c
           /\ \A i \in DOMAIN cq' : cq'[i].owner # c
<1>1. InCq(c) /\ c # Listener /\ c \in Owners
    BY DiscardShifts DEF InCq, LoopInv, RingInv, Listener, Slots, Owners
<1>2. Awaiting(c) /\ ~InSq(c) /\ ~InFlight(c)
    BY <1>1 DEF LoopInv, RingInv, EachOnce, OnePlace
<1>3. \A e \in Issued : e.owner # c
    BY <1>2 DEF Issued, InSq, InFlight
<1>4. \A i \in DOMAIN cq' : cq'[i].owner # c
    BY <1>1, DiscardShifts DEF LoopInv, RingInv, EachOnce, OneEntry
<1> QED BY <1>1, <1>2, <1>3, <1>4 DEF InCq

(* What a slot awaits depends on its own fields alone.                      *)
LEMMA AwaitedSame ==
    ASSUME NEW c, cstate'[c] = cstate[c], sockfd'[c] = sockfd[c], left'[c] = left[c]
    PROVE  (Awaiting(c)' <=> Awaiting(c)) /\ Awaited(c)' = Awaited(c)
BY DEF Awaiting, Awaited, ReadOp, WriteOp, CloseOp

(* Issuing an operation puts out what the slot's new state awaits.          *)
LEMMA MatchIssue ==
    ASSUME MatchInv, ~overrun', NEW c \in Slots, ClientStateHandle(c)
    PROVE  EachAsAwaited'
<1>1. UNCHANGED <<sockfd, left, inflight, cq>>
    BY DEF ClientStateHandle, kernelVars
<1>2. \A d \in Slots \ {c} : cstate'[d] = cstate[d]
    BY DEF ClientStateHandle, Issue, ReleaseUnopened, MatchInv, LoopInv, RingInv, TypeInv, TypeOK
<1>3. \A d \in Slots \ {c} : (Awaiting(d)' <=> Awaiting(d)) /\ Awaited(d)' = Awaited(d)
    BY <1>1, <1>2, AwaitedSame
<1>4. ASSUME ~Awaiting(c), NEW e \in TaggedOps, e.owner = c, Push(e), Awaiting(c)', Awaited(c)' = e
      PROVE  EachAsAwaited'
  <2>1. ~InSq(c) /\ ~InCq(c) /\ \A f \in Issued : f.owner # c
      BY <1>4, NothingOutstanding DEF MatchInv
  <2>2. Issued' = Issued \cup {e}
      BY <1>1, <1>4, <2>1, PushIssued DEF MatchInv, LoopInv, RingInv, EachOnce
  <2>3. \A d \in Slots : \A f \in Issued' : f.owner = d => Awaiting(d)' /\ f = Awaited(d)'
      BY <1>3, <1>4, <2>1, <2>2 DEF MatchInv, EachAsAwaited
  <2>4. \A i \in DOMAIN cq' : \A d \in Slots :
          (cq'[i].owner = d /\ cstate'[d] = "WRITE_CQE") => cq'[i].res <= left'[d]
      BY <1>1, <1>2, <2>1 DEF MatchInv, EachAsAwaited, InCq
  <2> QED BY <2>3, <2>4 DEF EachAsAwaited
<1>5. ASSUME UNCHANGED sq, \A d \in Slots : cstate'[d] = cstate[d] \/ (d = c /\ ~Awaiting(c))
      PROVE  EachAsAwaited'
  <2>1. ~Awaiting(c) => ~InCq(c) /\ \A f \in Issued : f.owner # c
      BY NothingOutstanding DEF MatchInv
  <2>2. Issued' = Issued
      BY <1>1, <1>5 DEF Issued
  <2>3. \A d \in Slots : \A f \in Issued' : f.owner = d => Awaiting(d)' /\ f = Awaited(d)'
      BY <1>1, <1>5, <2>1, <2>2, AwaitedSame DEF MatchInv, EachAsAwaited
  <2>4. \A i \in DOMAIN cq' : \A d \in Slots :
          (cq'[i].owner = d /\ cstate'[d] = "WRITE_CQE") => cq'[i].res <= left'[d]
      BY <1>1, <1>5, <2>1 DEF MatchInv, EachAsAwaited, InCq
  <2> QED BY <2>3, <2>4 DEF EachAsAwaited
<1>6. cstate \in [Slots -> ClientStates]
    BY DEF MatchInv, LoopInv, RingInv, TypeInv, TypeOK
<1>7. TypeOK
    BY DEF MatchInv, LoopInv, RingInv, TypeInv
<1>8. CASE Issue(c, "READ_SQE", ReadOp(c), "READ_CQE")
  <2>1. ~Awaiting(c) /\ cstate'[c] = "READ_CQE" /\ Push(ReadOp(c))
      BY <1>6, <1>8 DEF Issue, Awaiting
  <2>2. Awaiting(c)' /\ Awaited(c)' = ReadOp(c) /\ ReadOp(c).owner = c
      BY <1>1, <2>1 DEF Awaiting, Awaited, ReadOp
  <2> QED BY <1>4, <1>7, <2>1, <2>2, SlotOpsTyped
<1>9. CASE Issue(c, "WRITE_SQE", WriteOp(c), "WRITE_CQE")
  <2>1. ~Awaiting(c) /\ cstate'[c] = "WRITE_CQE" /\ Push(WriteOp(c))
      BY <1>6, <1>9 DEF Issue, Awaiting
  <2>2. Awaiting(c)' /\ Awaited(c)' = WriteOp(c) /\ WriteOp(c).owner = c
      BY <1>1, <2>1 DEF Awaiting, Awaited, WriteOp
  <2> QED BY <1>4, <1>7, <2>1, <2>2, SlotOpsTyped
<1>10. CASE Issue(c, "CLOSE_SQE", CloseOp(c), "CLOSE_CQE")
  <2>1. ~Awaiting(c) /\ cstate'[c] = "CLOSE_CQE" /\ Push(CloseOp(c))
      BY <1>6, <1>10 DEF Issue, Awaiting
  <2>2. Awaiting(c)' /\ Awaited(c)' = CloseOp(c) /\ CloseOp(c).owner = c
      BY <1>1, <2>1 DEF Awaiting, Awaited, CloseOp
  <2> QED BY <1>4, <1>7, <2>1, <2>2, SlotOpsTyped
<1>11. CASE cstate[c] = "CLOSE_SQE" /\ ReleaseUnopened(c)
  <2>1. UNCHANGED sq /\ ~Awaiting(c)
      BY <1>11 DEF ReleaseUnopened, Awaiting
  <2> QED BY <1>2, <1>5, <2>1
<1>12. CASE UNCHANGED <<cstate, pool, sq>>
    BY <1>5, <1>12
<1> QED BY <1>8, <1>9, <1>10, <1>11, <1>12 DEF ClientStateHandle

(* An accepted connection takes a slot for which nothing is outstanding.    *)
LEMMA MatchAccept ==
    ASSUME MatchInv, FastcgiCqeHandle
    PROVE  EachAsAwaited'
<1>1. /\ UNCHANGED <<sq, inflight>> /\ CqDiscard /\ pc = "handle"
      /\ Head(cq).owner = Listener
    BY DEF FastcgiCqeHandle
<1>2. Issued' = Issued
    BY <1>1 DEF Issued
<1>3. \A d \in Slots :
        \/ cstate'[d] = cstate[d] /\ sockfd'[d] = sockfd[d] /\ left'[d] = left[d]
        \/ ~Awaiting(d) /\ cstate'[d] # "WRITE_CQE"
  <2>1. CASE AcceptTaken
      BY <2>1 DEF AcceptTaken, FreeSlots, Awaiting, MatchInv, LoopInv, PoolAgreement,
                  RingInv, TypeInv, TypeOK
  <2>2. CASE UNCHANGED clientVars
      BY <2>2 DEF clientVars
  <2> QED BY <2>1, <2>2 DEF FastcgiCqeHandle, AcceptFails, AcceptRefused
<1>4. \A d \in Slots : \A f \in Issued' : f.owner = d => Awaiting(d)' /\ f = Awaited(d)'
    BY <1>2, <1>3, AwaitedSame, NothingOutstanding DEF MatchInv, EachAsAwaited
<1>5. \A i \in DOMAIN cq' : \A d \in Slots :
        (cq'[i].owner = d /\ cstate'[d] = "WRITE_CQE") => cq'[i].res <= left'[d]
    BY <1>1, <1>3, DiscardShifts DEF MatchInv, EachAsAwaited, LoopInv, RingInv
<1> QED BY <1>4, <1>5 DEF EachAsAwaited

(* The handled completion was all there was for the slot.                   *)
LEMMA MatchCompleted ==
    ASSUME MatchInv, NEW c \in Slots, ClientCqeHandle(c)
    PROVE  EachAsAwaited'
<1>1. /\ UNCHANGED <<sq, inflight>> /\ CqDiscard /\ pc = "handle"
      /\ Head(cq).owner = c
    BY DEF ClientCqeHandle, kernelVars
<1>2. /\ \A e \in Issued : e.owner # c
      /\ \A i \in DOMAIN cq' : cq'[i].owner # c
    BY <1>1, HandledAlone DEF MatchInv
<1>3. Issued' = Issued
    BY <1>1 DEF Issued
<1>4. \A d \in Slots \ {c} :
        cstate'[d] = cstate[d] /\ sockfd'[d] = sockfd[d] /\ left'[d] = left[d]
  <2> USE DEF MatchInv, LoopInv, RingInv, TypeInv, TypeOK
  <2>1. CASE ReadDone(c)
      BY <2>1 DEF ReadDone
  <2>2. CASE WriteDone(c)
      BY <2>2 DEF WriteDone
  <2>3. CASE CloseDone(c)
      BY <2>3 DEF CloseDone
  <2>4. CASE UNCHANGED clientVars
      BY <2>4 DEF clientVars
  <2> QED BY <2>1, <2>2, <2>3, <2>4 DEF ClientCqeHandle
<1>5. \A d \in Slots : \A f \in Issued' : f.owner = d => Awaiting(d)' /\ f = Awaited(d)'
    BY <1>2, <1>3, <1>4, AwaitedSame DEF MatchInv, EachAsAwaited
<1>6. \A i \in DOMAIN cq' : \A d \in Slots :
        (cq'[i].owner = d /\ cstate'[d] = "WRITE_CQE") => cq'[i].res <= left'[d]
    BY <1>1, <1>2, <1>4, DiscardShifts DEF MatchInv, EachAsAwaited, LoopInv, RingInv
<1> QED BY <1>5, <1>6 DEF EachAsAwaited

(* A pushed entry of the listener or the timer is no slot's.                *)
LEMMA MatchOther ==
    ASSUME MatchInv, ~overrun', FastcgiStateHandle \/ TimestampTick
    PROVE  EachAsAwaited'
<1>1. Listener \notin Slots /\ Timer \notin Slots /\ Timer # Listener /\ Timer \in Owners
    BY DEF Listener, Timer, Slots, Owners
<1>2. UNCHANGED <<cstate, sockfd, left, inflight>>
    BY DEF FastcgiStateHandle, TimestampTick, clientVars, kernelVars
<1>3. \A d \in Slots : (Awaiting(d)' <=> Awaiting(d)) /\ Awaited(d)' = Awaited(d)
    BY <1>2, AwaitedSame
<1>4. \A f \in Issued' : f \in Issued \/ f.owner \notin Slots
  <2>1. CASE FastcgiStateHandle /\ listener = "ACCEPT_SQE"
    <3>1. Push(AcceptOp) /\ AcceptOp.owner = Listener /\ AcceptOp \in TaggedOps
        BY <2>1, OpsTyped DEF FastcgiStateHandle, AcceptOp
    <3>2. ~InSq(AcceptOp.owner)
        BY <2>1, <3>1 DEF MatchInv, LoopInv, RingInv, EachOnce
    <3>3. Issued' = Issued \cup {AcceptOp}
        BY <1>2, <3>1, <3>2, PushIssued DEF MatchInv, LoopInv, RingInv, EachOnce
    <3> QED BY <1>1, <3>1, <3>3
  <2>2. CASE FastcgiStateHandle /\ listener # "ACCEPT_SQE"
      BY <1>2, <2>2 DEF FastcgiStateHandle, Issued
  <2>3. CASE TimestampTick
    <3>1. Push(TimeoutOp) /\ TimeoutOp.owner = Timer /\ TimeoutOp \in TaggedOps
        BY <2>3, OpsTyped DEF TimestampTick, TimeoutOp
    <3>2. InCq(Timer)
        BY <2>3, DiscardShifts DEF TimestampTick, InCq, MatchInv, LoopInv, RingInv
    <3>3. ~InSq(TimeoutOp.owner)
        BY <1>1, <3>1, <3>2 DEF MatchInv, LoopInv, RingInv, EachOnce, OnePlace
    <3>4. Issued' = Issued \cup {TimeoutOp}
        BY <1>2, <3>1, <3>3, PushIssued DEF MatchInv, LoopInv, RingInv, EachOnce
    <3> QED BY <1>1, <3>1, <3>4
  <2> QED BY <2>1, <2>2, <2>3
<1>5. \A i \in DOMAIN cq' : \E j \in DOMAIN cq : cq'[i] = cq[j]
  <2>1. CASE FastcgiStateHandle
      BY <2>1 DEF FastcgiStateHandle
  <2>2. CASE TimestampTick
      BY <2>2, DiscardShifts DEF TimestampTick, MatchInv, LoopInv, RingInv
  <2> QED BY <2>1, <2>2
<1>6. \A d \in Slots : \A f \in Issued' : f.owner = d => Awaiting(d)' /\ f = Awaited(d)'
    BY <1>3, <1>4 DEF MatchInv, EachAsAwaited
<1>7. \A i \in DOMAIN cq' : \A d \in Slots :
        (cq'[i].owner = d /\ cstate'[d] = "WRITE_CQE") => cq'[i].res <= left'[d]
    BY <1>2, <1>5 DEF MatchInv, EachAsAwaited
<1> QED BY <1>6, <1>7 DEF EachAsAwaited

(* A completion the kernel posts fits when it is no longer than what the    *)
(* slot it goes to has left to write.                                       *)
LEMMA MatchPost ==
    ASSUME MatchInv, NEW o, NEW r, NEW m, Post(o, r, m), UNCHANGED <<sq, clientVars>>,
           inflight' \subseteq inflight,
           \A c \in Slots : o = c /\ cstate[c] = "WRITE_CQE" => r <= left[c]
    PROVE  EachAsAwaited'
<1>1. UNCHANGED <<cstate, sockfd, left>> /\ Issued' \subseteq Issued
    BY DEF clientVars, Issued
<1>2. \A d \in Slots : (Awaiting(d)' <=> Awaiting(d)) /\ Awaited(d)' = Awaited(d)
    BY <1>1, AwaitedSame
<1>3. \A d \in Slots : \A f \in Issued' : f.owner = d => Awaiting(d)' /\ f = Awaited(d)'
    BY <1>1, <1>2 DEF MatchInv, EachAsAwaited
<1>4. PICK n \in Nat :
        /\ n \notin DOMAIN cq /\ DOMAIN cq' = DOMAIN cq \cup {n}
        /\ \A i \in DOMAIN cq : cq'[i] = cq[i]
        /\ cq'[n] = [owner |-> o, res |-> r, more |-> m]
    BY PostAdds DEF MatchInv, LoopInv, RingInv
<1>5. \A i \in DOMAIN cq' : \A d \in Slots :
        (cq'[i].owner = d /\ cstate'[d] = "WRITE_CQE") => cq'[i].res <= left'[d]
    BY <1>1, <1>4 DEF MatchInv, EachAsAwaited
<1> QED BY <1>3, <1>5 DEF EachAsAwaited

(* The kernel writes no more than it was asked to.                          *)
LEMMA MatchKernel ==
    ASSUME MatchInv, KernelStep
    PROVE  EachAsAwaited'
<1>1. \A c \in Slots : left[c] \in Nat
    BY EventLoopAssumption DEF MatchInv, LoopInv, RingInv, TypeInv, TypeOK
<1>2. Listener \notin Slots /\ Timer \notin Slots
    BY DEF Listener, Timer, Slots
<1>3. CASE KernelSubmit
  <2>1. Issued' = Issued /\ UNCHANGED <<cstate, sockfd, left, cq>>
      BY <1>3, SubmitIssued DEF KernelSubmit, clientVars, MatchInv, LoopInv, RingInv
  <2>2. \A d \in Slots : (Awaiting(d)' <=> Awaiting(d)) /\ Awaited(d)' = Awaited(d)
      BY <2>1, AwaitedSame
  <2> QED BY <2>1, <2>2 DEF MatchInv, EachAsAwaited
<1>4. CASE \E fd \in Fds, more \in BOOLEAN : KernelAccept(fd, more)
  <2> PICK fd \in Fds, more \in BOOLEAN : KernelAccept(fd, more)
      BY <1>4
  <2>1. /\ Post(Listener, fd, more) /\ UNCHANGED <<sq, clientVars>>
        /\ inflight' \subseteq inflight
      BY DEF KernelAccept
  <2> QED BY <1>2, <2>1, MatchPost, Zenon
<1>5. CASE KernelAcceptError
  <2>1. /\ Post(Listener, -1, FALSE) /\ UNCHANGED <<sq, clientVars>>
        /\ inflight' \subseteq inflight
      BY <1>5, Zenon DEF KernelAcceptError
  <2> QED BY <1>2, <2>1, MatchPost, Zenon
<1>6. CASE KernelTimeout
  <2>1. /\ Post(Timer, -1, FALSE) /\ UNCHANGED <<sq, clientVars>>
        /\ inflight' \subseteq inflight
      BY <1>6, Zenon DEF KernelTimeout
  <2> QED BY <1>2, <2>1, MatchPost, Zenon
<1>7. CASE \E e \in inflight : \E res \in Results(e) : KernelTransfer(e, res)
  <2> PICK e \in inflight : \E res \in Results(e) : KernelTransfer(e, res)
      BY <1>7
  <2> PICK res \in Results(e) : KernelTransfer(e, res)
      OBVIOUS
  <2>1. /\ Post(e.owner, res, FALSE) /\ UNCHANGED <<sq, clientVars>>
        /\ inflight' \subseteq inflight
      BY Zenon DEF KernelTransfer
  <2>2. ASSUME NEW c \in Slots, e.owner = c, cstate[c] = "WRITE_CQE"
        PROVE  res <= left[c]
    <3>1. e = WriteOp(c)
        BY <2>2 DEF MatchInv, EachAsAwaited, Issued, Awaited
    <3>2. res = -1 \/ res \in 1 .. left[c]
        BY <3>1 DEF Results, WriteOp
    <3> QED BY <1>1, <3>2
  <2> QED BY <2>1, <2>2, MatchPost, Zenon
<1>8. CASE \E e \in inflight : KernelClose(e)
  <2> PICK e \in inflight : KernelClose(e)
      BY <1>8
  <2>1. /\ Post(e.owner, 0, FALSE) /\ UNCHANGED <<sq, clientVars>>
        /\ inflight' \subseteq inflight
      BY Zenon DEF KernelClose
  <2>2. \A c \in Slots : e.owner = c /\ cstate[c] = "WRITE_CQE" => 0 <= left[c]
      BY <1>1
  <2> QED BY <2>1, <2>2, MatchPost, Zenon
<1> QED BY <1>3, <1>4, <1>5, <1>6, <1>7, <1>8 DEF KernelStep

(* The two together are inductive.                                          *)
LEMMA MatchStep == MatchInv /\ [Next]_vars /\ ~overrun' => MatchInv'
<1> SUFFICES ASSUME MatchInv, [Next]_vars, ~overrun'
             PROVE  EachAsAwaited'
    BY LoopStepInv DEF MatchInv
<1>1. CASE FastcgiStateHandle \/ TimestampTick
    BY <1>1, MatchOther
<1>2. CASE \E c \in Slots : ClientStateHandle(c)
    BY <1>2, MatchIssue
<1>3. CASE Peek \/ PeekNext \/ CqeWait \/ CqeWaitFails \/ UNCHANGED vars
  <2>1. UNCHANGED <<sq, inflight, cq, cstate, sockfd, left>>
      BY <1>3 DEF Peek, PeekNext, CqeWait, CqeWaitFails, vars, clientVars, kernelVars
  <2>2. \A d \in Slots : (Awaiting(d)' <=> Awaiting(d)) /\ Awaited(d)' = Awaited(d)
      BY <2>1, AwaitedSame
  <2> QED BY <2>1, <2>2 DEF MatchInv, EachAsAwaited, Issued
<1>4. CASE FastcgiCqeHandle
    BY <1>4, MatchAccept
<1>5. CASE \E c \in Slots : ClientCqeHandle(c)
    BY <1>5, MatchCompleted
<1>6. CASE KernelStep
    BY <1>6, MatchKernel
<1> QED BY <1>1, <1>2, <1>3, <1>4, <1>5, <1>6 DEF Next, LoopStep, Handle

(* Nothing is issued or completed at the start but the timer.               *)
LEMMA MatchInit == Init => MatchInv
<1> SUFFICES ASSUME Init PROVE EachAsAwaited
    BY LoopInit DEF MatchInv
<1>1. Issued = {TimeoutOp} /\ DOMAIN cq = {}
    BY DEF Init, Issued
<1>2. TimeoutOp.owner \notin Slots
    BY DEF TimeoutOp, Timer, Slots
<1> QED BY <1>1, <1>2 DEF EachAsAwaited

(* What is in the rings or the kernel for a slot is the operation the       *)
(* slot's state awaits, on its descriptor and of the length it has left, and*)
(* no completion of a write reports more than that: a short write's         *)
(* arithmetic (valid - pos) cannot go below zero.                           *)
THEOREM OperationsMatch == Spec => []OperationMatchesState
<1>1. Init => MatchInv
    BY MatchInit
<1>2. (overrun \/ MatchInv) /\ [Next]_vars => (overrun \/ MatchInv)'
    BY MatchStep, OverrunStays
<1>3. overrun \/ MatchInv => OperationMatchesState
    BY DEF MatchInv, OperationMatchesState
<1> QED BY <1>1, <1>2, <1>3, PTL DEF Spec

-----------------------------------------------------------------------------
(* Descriptors.  EachFdOwned is inductive relative to MatchInv: that a      *)
(* slot's close is the only operation outstanding for it, and closes the    *)
(* slot's own descriptor, is what lets the slot go on without it.           *)

FdInv == MatchInv /\ EachFdOwned

(* Arrived connections after the handled completion is gone.                *)
LEMMA DiscardArrived ==
    ASSUME TypeInv, pc = "handle", CqDiscard
    PROVE  /\ \A i \in Arrived' : i + 1 \in Arrived /\ i + 1 # 1 /\ cq'[i] = cq[i + 1]
           /\ \A i \in Arrived : i # 1 => i - 1 \in Arrived' /\ cq[i] = cq'[i - 1]
           /\ \A i, j \in Arrived' : i + 1 = j + 1 => i = j
BY DiscardShifts DEF Arrived

(* The slot whose completion is handled drops out of the queue, the others  *)
(* stay.                                                                    *)
LEMMA DiscardInCq ==
    ASSUME LoopInv, pc = "handle", CqDiscard
    PROVE  \A c \in Slots : c # Head(cq).owner => (InCq(c)' <=> InCq(c))
<1>1. /\ \A o : InCq(o)' => InCq(o)
      /\ \A o : o # Head(cq).owner /\ InCq(o) => InCq(o)'
    BY DiscardOwners DEF LoopInv, RingInv, EachOnce
<1> QED BY <1>1

(* Nothing that decides who owns what has changed.                          *)
LEMMA FdSame ==
    ASSUME EachFdOwned, UNCHANGED <<cq, sockfd, openFds>>,
           \A c \in Slots : Holds(c)' <=> Holds(c)
    PROVE  EachFdOwned'
<1>1. Arrived' = Arrived
    BY DEF Arrived
<1> QED BY <1>1 DEF EachFdOwned

(* A handled completion that brought no connection.                         *)
LEMMA FdShift ==
    ASSUME FdInv, pc = "handle", CqDiscard, 1 \notin Arrived, UNCHANGED openFds,
           \A c \in Slots : Holds(c)' <=> Holds(c),
           \A c \in Slots : Holds(c) => sockfd'[c] = sockfd[c]
    PROVE  EachFdOwned'
<1>1. /\ \A i \in Arrived' : i + 1 \in Arrived /\ i + 1 # 1 /\ cq'[i] = cq[i + 1]
      /\ \A i \in Arrived : i - 1 \in Arrived' /\ cq[i] = cq'[i - 1]
      /\ \A i, j \in Arrived' : i + 1 = j + 1 => i = j
    BY DiscardArrived DEF FdInv, MatchInv, LoopInv, RingInv
<1>2. \A c \in Slots : Holds(c)' => sockfd'[c] \in openFds'
    BY DEF FdInv, EachFdOwned
<1>3. \A c, d \in Slots : Holds(c)' /\ Holds(d)' /\ sockfd'[c] = sockfd'[d] => c = d
    BY DEF FdInv, EachFdOwned
<1>4. \A i \in Arrived' :
        /\ cq'[i].res \in openFds'
        /\ \A j \in Arrived' : cq'[i].res = cq'[j].res => i = j
        /\ \A c \in Slots : Holds(c)' => sockfd'[c] # cq'[i].res
    BY <1>1 DEF FdInv, EachFdOwned
<1>5. \A f \in openFds' : \/ \E c \in Slots : Holds(c)' /\ sockfd'[c] = f
                          \/ \E i \in Arrived' : cq'[i].res = f
    BY <1>1 DEF FdInv, EachFdOwned
<1> QED BY <1>2, <1>3, <1>4, <1>5 DEF EachFdOwned

(* A completion that brings no connection adds none to those arrived.       *)
LEMMA PostArrived ==
    ASSUME TypeInv, NEW o, NEW r, NEW m, Post(o, r, m), o # Listener \/ ~(r >= 0)
    PROVE  Arrived' = Arrived /\ \A i \in Arrived : cq'[i] = cq[i]
<1>1. PICK n \in Nat :
        /\ n \notin DOMAIN cq /\ DOMAIN cq' = DOMAIN cq \cup {n}
        /\ \A i \in DOMAIN cq : cq'[i] = cq[i]
        /\ cq'[n] = [owner |-> o, res |-> r, more |-> m]
    BY PostAdds, SMTT(30)
<1> QED BY <1>1 DEF Arrived

(* Nor does it change who owns what when every slot holds what it held.     *)
LEMMA FdPost ==
    ASSUME FdInv, NEW o, NEW r, NEW m, Post(o, r, m), o # Listener \/ ~(r >= 0),
           UNCHANGED <<sockfd, openFds>>, \A c \in Slots : Holds(c)' <=> Holds(c)
    PROVE  EachFdOwned'
<1>1. Arrived' = Arrived /\ \A i \in Arrived : cq'[i] = cq[i]
    BY PostArrived DEF FdInv, MatchInv, LoopInv, RingInv
<1> QED BY <1>1 DEF FdInv, EachFdOwned

(* Issuing leaves the owners alone: a slot that issues its close has no     *)
(* completion, and a slot on its way to a close has a descriptor.           *)
LEMMA FdIssue ==
    ASSUME FdInv, NEW c \in Slots, ClientStateHandle(c)
    PROVE  EachFdOwned'
<1>1. UNCHANGED <<cq, sockfd, openFds>>
    BY DEF ClientStateHandle, kernelVars
<1>2. cstate \in [Slots -> ClientStates]
    BY DEF FdInv, MatchInv, LoopInv, RingInv, TypeInv, TypeOK
<1>3. \A d \in Slots : InCq(d)' <=> InCq(d)
    BY <1>1 DEF InCq
<1>4. ~Awaiting(c) => ~InCq(c)
    BY NothingOutstanding DEF FdInv, MatchInv
<1>5. CASE \E op : \/ Issue(c, "READ_SQE", op, "READ_CQE")
                   \/ Issue(c, "WRITE_SQE", op, "WRITE_CQE")
                   \/ Issue(c, "CLOSE_SQE", op, "CLOSE_CQE")
    BY <1>1, <1>2, <1>3, <1>4, <1>5, FdSame DEF Issue, Holds, Awaiting, FdInv
<1>6. CASE cstate[c] = "CLOSE_SQE" /\ sockfd[c] < 0
  <2>1. sockfd[c] \in openFds /\ openFds \subseteq Fds
      BY <1>6 DEF FdInv, EachFdOwned, Holds, MatchInv, LoopInv, RingInv, TypeInv, TypeOK
  <2>2. \A f \in Fds : ~(f < 0)
      BY EventLoopAssumption
  <2> QED BY <1>6, <2>1, <2>2
<1>7. CASE UNCHANGED <<cstate, pool, sq>>
    BY <1>1, <1>3, <1>7, FdSame DEF Holds, FdInv
<1> QED BY <1>5, <1>6, <1>7 DEF ClientStateHandle

(* The connection a handled accept brings goes to a slot that held none, or *)
(* is closed.                                                               *)
LEMMA FdAccept ==
    ASSUME FdInv, FastcgiCqeHandle
    PROVE  EachFdOwned'
<1>1. /\ CqDiscard /\ pc = "handle" /\ Head(cq).owner = Listener
      /\ \A c \in Slots : c # Listener
      /\ TypeInv /\ LoopInv
    BY DEF FastcgiCqeHandle, Listener, Slots, FdInv, MatchInv, LoopInv, RingInv
<1>2. Head(cq) = cq[1] /\ 1 \in DOMAIN cq
    BY <1>1, DiscardShifts
<1>3. listener = "ACCEPT_CQE"
  <2>1. InCq(Listener)
      BY <1>1, <1>2 DEF InCq
  <2> QED BY <1>1, <2>1 DEF LoopInv, RingInv, EachOnce, TypeInv, TypeOK
<1>4. \A c \in Slots : InCq(c)' <=> InCq(c)
    BY <1>1, DiscardInCq
<1>5. /\ \A i \in Arrived' : i + 1 \in Arrived /\ i + 1 # 1 /\ cq'[i] = cq[i + 1]
      /\ \A i \in Arrived : i # 1 => i - 1 \in Arrived' /\ cq[i] = cq'[i - 1]
      /\ \A i, j \in Arrived' : i + 1 = j + 1 => i = j
    BY <1>1, DiscardArrived
<1>6. CASE AcceptFails
  <2>1. 1 \notin Arrived
    <3>1. Head(cq).res \in Int /\ Head(cq).res < 0
        BY <1>1, <1>6, HeadTyped DEF AcceptFails
    <3> QED BY <1>2, <3>1 DEF Arrived
  <2>2. UNCHANGED <<cstate, sockfd, openFds>>
      BY <1>6 DEF AcceptFails, clientVars
  <2>3. \A c \in Slots : Holds(c)' <=> Holds(c)
      BY <1>4, <2>2 DEF Holds
  <2> QED BY <1>1, <2>1, <2>2, <2>3, FdShift
<1>7. CASE AcceptRefused
  <2>1. /\ 1 \in Arrived /\ openFds' = openFds \ {cq[1].res} /\ UNCHANGED <<cstate, sockfd>>
      BY <1>1, <1>2, <1>7 DEF AcceptRefused, clientVars, Arrived
  <2>2. \A c \in Slots : (Holds(c)' <=> Holds(c)) /\ sockfd'[c] = sockfd[c]
      BY <1>4, <2>1 DEF Holds
  <2>3. \A c \in Slots : Holds(c)' => sockfd'[c] \in openFds'
      BY <2>1, <2>2 DEF FdInv, EachFdOwned
  <2>4. \A i \in Arrived' :
          /\ cq'[i].res \in openFds'
          /\ \A j \in Arrived' : cq'[i].res = cq'[j].res => i = j
          /\ \A c \in Slots : Holds(c)' => sockfd'[c] # cq'[i].res
      BY <1>5, <2>1, <2>2 DEF FdInv, EachFdOwned
  <2>5. \A f \in openFds' : \/ \E c \in Slots : Holds(c)' /\ sockfd'[c] = f
                            \/ \E i \in Arrived' : cq'[i].res = f
      BY <1>5, <2>1, <2>2 DEF FdInv, EachFdOwned
  <2>6. \A c, d \in Slots : Holds(c)' /\ Holds(d)' /\ sockfd'[c] = sockfd'[d] => c = d
      BY <2>2 DEF FdInv, EachFdOwned
  <2> QED BY <2>3, <2>4, <2>5, <2>6 DEF EachFdOwned
<1>8. CASE AcceptTaken
  <2>1. PICK c \in Slots :
          /\ pool[c] = "FREE"
          /\ cstate' = [cstate EXCEPT ![c] = "READ_SQE"]
          /\ sockfd' = [sockfd EXCEPT ![c] = Head(cq).res]
      BY <1>8 DEF AcceptTaken, FreeSlots
  <2>2. 1 \in Arrived /\ UNCHANGED openFds
      BY <1>1, <1>2, <1>8 DEF AcceptTaken, Arrived
  <2>3. ~Holds(c) /\ Holds(c)' /\ sockfd'[c] = cq[1].res
      BY <1>1, <1>2, <2>1 DEF Holds, LoopInv, PoolAgreement, TypeInv, TypeOK
  <2>4. \A d \in Slots \ {c} : (Holds(d)' <=> Holds(d)) /\ sockfd'[d] = sockfd[d]
      BY <1>1, <1>4, <2>1 DEF Holds, TypeInv, TypeOK
  <2>5. \A d \in Slots : Holds(d)' => sockfd'[d] \in openFds'
      BY <2>2, <2>3, <2>4 DEF FdInv, EachFdOwned
  <2>6. \A d, e \in Slots : Holds(d)' /\ Holds(e)' /\ sockfd'[d] = sockfd'[e] => d = e
      BY <2>2, <2>3, <2>4 DEF FdInv, EachFdOwned
  <2>7. \A i \in Arrived' :
          /\ cq'[i].res \in openFds'
          /\ \A j \in Arrived' : cq'[i].res = cq'[j].res => i = j
          /\ \A d \in Slots : Holds(d)' => sockfd'[d] # cq'[i].res
      BY <1>5, <2>2, <2>3, <2>4 DEF FdInv, EachFdOwned
  <2>8. \A f \in openFds' : \/ \E d \in Slots : Holds(d)' /\ sockfd'[d] = f
                            \/ \E i \in Arrived' : cq'[i].res = f
      BY <1>5, <2>2, <2>3, <2>4 DEF FdInv, EachFdOwned
  <2> QED BY <2>5, <2>6, <2>7, <2>8 DEF EachFdOwned
<1> QED BY <1>3, <1>6, <1>7, <1>8 DEF FastcgiCqeHandle

(* A slot's handler keeps the slot's descriptor, until the close is done.   *)
LEMMA FdCompleted ==
    ASSUME FdInv, NEW c \in Slots, ClientCqeHandle(c)
    PROVE  EachFdOwned'
<1>1. /\ CqDiscard /\ pc = "handle" /\ Head(cq).owner = c /\ c # Listener
      /\ UNCHANGED openFds /\ TypeInv /\ LoopInv
    BY DEF ClientCqeHandle, kernelVars, FdInv, MatchInv, LoopInv, RingInv, Slots, Listener
<1>2. Awaiting(c) /\ InCq(c) /\ ~InCq(c)'
    BY <1>1, HandledAlone
<1>3. \A d \in Slots \ {c} : InCq(d)' <=> InCq(d)
    BY <1>1, DiscardInCq
<1>4. 1 \notin Arrived
    BY <1>1, DiscardShifts DEF Arrived
<1> USE DEF TypeInv, TypeOK
<1>5. CASE ReadDone(c) \/ WriteDone(c)
  <2>1. /\ UNCHANGED sockfd
        /\ \A d \in Slots \ {c} : cstate'[d] = cstate[d]
        /\ cstate[c] \in {"READ_CQE", "WRITE_CQE"}
        /\ cstate'[c] \in {"READ_SQE", "WRITE_SQE", "CLOSE_SQE"}
    <3>1. CASE ReadDone(c)
        BY <1>1, <3>1 DEF ReadDone
    <3>2. CASE WriteDone(c)
        BY <1>1, <3>2 DEF WriteDone, AfterWrite
    <3> QED BY <1>5, <3>1, <3>2
  <2>2. \A d \in Slots : Holds(d)' <=> Holds(d)
      BY <1>3, <2>1 DEF Holds
  <2> QED BY <1>1, <1>4, <2>1, <2>2, FdShift
<1>6. CASE CloseDone(c)
  <2>1. /\ \A d \in Slots \ {c} : cstate'[d] = cstate[d] /\ sockfd'[d] = sockfd[d]
        /\ cstate[c] = "CLOSE_CQE" /\ cstate'[c] = "FREE"
      BY <1>1, <1>6 DEF CloseDone
  <2>2. ~Holds(c) /\ \A d \in Slots : Holds(d)' <=> Holds(d)
      BY <1>2, <1>3, <2>1 DEF Holds
  <2> QED BY <1>1, <1>4, <2>1, <2>2, FdShift
<1> QED BY <1>2, <1>5, <1>6 DEF ClientCqeHandle, Awaiting

(* The kernel opens a descriptor when it posts it, and a close takes the    *)
(* slot's own.                                                              *)
LEMMA FdKernel ==
    ASSUME FdInv, KernelStep
    PROVE  EachFdOwned'
<1>1. Listener \notin Slots /\ Timer \notin Slots /\ Timer # Listener /\ TypeInv /\ LoopInv
    BY DEF Listener, Timer, Slots, FdInv, MatchInv, LoopInv, RingInv
<1>2. ASSUME NEW o, NEW r, NEW m, Post(o, r, m), UNCHANGED cstate,
             \A c \in Slots : o = c => cstate[c] # "CLOSE_CQE"
      PROVE  \A c \in Slots : Holds(c)' <=> Holds(c)
    BY <1>1, <1>2, PostInCq DEF Holds
<1>3. CASE KernelSubmit
  <2>1. UNCHANGED <<cq, cstate, sockfd, openFds>>
      BY <1>3 DEF KernelSubmit, clientVars
  <2> QED BY <2>1, FdSame DEF Holds, InCq, FdInv
<1>4. CASE \E fd \in Fds, more \in BOOLEAN : KernelAccept(fd, more)
  <2> PICK fd \in Fds, more \in BOOLEAN : KernelAccept(fd, more)
      BY <1>4
  <2>1. /\ Post(Listener, fd, more) /\ UNCHANGED <<cstate, sockfd>>
        /\ fd \notin openFds /\ openFds' = openFds \cup {fd} /\ fd >= 0
      BY EventLoopAssumption DEF KernelAccept, clientVars
  <2>2. PICK n \in Nat :
          /\ n \notin DOMAIN cq /\ DOMAIN cq' = DOMAIN cq \cup {n}
          /\ \A i \in DOMAIN cq : cq'[i] = cq[i]
          /\ cq'[n] = [owner |-> Listener, res |-> fd, more |-> more]
      BY <1>1, <2>1, PostAdds
  <2>3. /\ Arrived' = Arrived \cup {n} /\ n \notin Arrived
        /\ \A i \in Arrived : cq'[i] = cq[i]
        /\ cq'[n].res = fd
      BY <2>1, <2>2 DEF Arrived
  <2>4. \A c \in Slots : Holds(c)' <=> Holds(c)
      BY <1>1, <1>2, <2>1
  <2> QED BY <2>1, <2>3, <2>4 DEF FdInv, EachFdOwned
<1>5. CASE KernelAcceptError
  <2>1. Post(Listener, -1, FALSE) /\ UNCHANGED <<cstate, sockfd, openFds>>
      BY <1>5, Zenon DEF KernelAcceptError, clientVars
  <2>2. ~(-1 >= 0)
      OBVIOUS
  <2>3. \A c \in Slots : Holds(c)' <=> Holds(c)
      BY <1>1, <1>2, <2>1, Zenon
  <2> QED BY <2>1, <2>2, <2>3, FdPost, Zenon
<1>6. CASE KernelTimeout
  <2>1. Post(Timer, -1, FALSE) /\ UNCHANGED <<cstate, sockfd, openFds>>
      BY <1>6, Zenon DEF KernelTimeout, clientVars
  <2>2. \A c \in Slots : Holds(c)' <=> Holds(c)
      BY <1>1, <1>2, <2>1, Zenon
  <2> QED BY <1>1, <2>1, <2>2, FdPost, Zenon
<1>7. ASSUME NEW e \in inflight, e.op \in {"READ", "WRITE", "CLOSE"}
      PROVE  /\ e.owner \in Slots /\ Awaiting(e.owner) /\ e = Awaited(e.owner)
             /\ ~InCq(e.owner)
  <2>1. e \in TransferOps
      BY <1>1, <1>7, OpsTyped DEF TypeInv, QueuesTagged
  <2>2. e.owner \in Slots /\ e.owner \in Owners /\ InFlight(e.owner) /\ e \in Issued
      BY <2>1 DEF TransferOps, Owners, InFlight, Issued
  <2> QED BY <1>1, <2>2
          DEF FdInv, MatchInv, EachAsAwaited, LoopInv, RingInv, EachOnce, OnePlace
<1>8. CASE \E e \in inflight : \E res \in Results(e) : KernelTransfer(e, res)
  <2> PICK e \in inflight : \E res \in Results(e) : KernelTransfer(e, res)
      BY <1>8
  <2> PICK res \in Results(e) : KernelTransfer(e, res)
      OBVIOUS
  <2>1. Post(e.owner, res, FALSE) /\ UNCHANGED <<cstate, sockfd, openFds>>
        /\ e.op \in {"READ", "WRITE"}
      BY Zenon DEF KernelTransfer, clientVars
  <2>2. e.owner \in Slots /\ cstate[e.owner] # "CLOSE_CQE"
      BY <1>7, <2>1 DEF Awaited, CloseOp
  <2>3. \A c \in Slots : Holds(c)' <=> Holds(c)
      BY <1>2, <2>1, <2>2, Zenon
  <2> QED BY <1>1, <2>1, <2>2, <2>3, FdPost, Zenon
<1>9. CASE \E e \in inflight : KernelClose(e)
  <2> PICK e \in inflight : KernelClose(e)
      BY <1>9
  <2> DEFINE c == e.owner
  <2>1. Post(c, 0, FALSE) /\ UNCHANGED <<cstate, sockfd>> /\ openFds' = openFds \ {e.fd}
      BY Zenon DEF KernelClose, clientVars
  <2>2. e.op = "CLOSE" /\ c \in Slots /\ Awaiting(c) /\ e = Awaited(c) /\ ~InCq(c)
      BY <1>7 DEF KernelClose
  <2>3. cstate[c] = "CLOSE_CQE" /\ e.fd = sockfd[c]
    <3>1. cstate[c] # "READ_CQE" /\ cstate[c] # "WRITE_CQE"
        BY <2>2 DEF Awaited, ReadOp, WriteOp
    <3> QED BY <2>2, <3>1 DEF Awaiting, Awaited, CloseOp
  <2> HIDE DEF c
  <2>4. c # Listener
      BY <1>1, <2>2
  <2>5. Arrived' = Arrived /\ \A i \in Arrived : cq'[i] = cq[i]
      BY <1>1, <2>1, <2>4, PostArrived, Zenon
  <2>6. \A d \in Slots : InCq(d)' <=> InCq(d) \/ d = c
      BY <1>1, <2>1, PostInCq, Zenon
  <2>7. Holds(c) /\ ~Holds(c)' /\ \A d \in Slots \ {c} : Holds(d)' <=> Holds(d)
      BY <2>1, <2>2, <2>3, <2>6 DEF Holds
  <2> QED BY <2>1, <2>2, <2>3, <2>5, <2>7 DEF FdInv, EachFdOwned
<1> QED BY <1>3, <1>4, <1>5, <1>6, <1>8, <1>9 DEF KernelStep

(* The three together are inductive.                                        *)
LEMMA FdStep == FdInv /\ [Next]_vars /\ ~overrun' => FdInv'
<1> SUFFICES ASSUME FdInv, [Next]_vars, ~overrun'
             PROVE  EachFdOwned'
    BY MatchStep DEF FdInv
<1>1. CASE FastcgiStateHandle \/ Peek \/ PeekNext \/ CqeWait \/ CqeWaitFails \/ UNCHANGED vars
  <2>1. UNCHANGED <<cq, cstate, sockfd, openFds>>
      BY <1>1 DEF FastcgiStateHandle, Peek, PeekNext, CqeWait, CqeWaitFails, vars,
                  clientVars, kernelVars
  <2> QED BY <2>1, FdSame DEF Holds, InCq, FdInv
<1>2. CASE \E c \in Slots : ClientStateHandle(c)
    BY <1>2, FdIssue
<1>3. CASE TimestampTick
  <2>1. /\ CqDiscard /\ pc = "handle" /\ Head(cq).owner = Timer
        /\ UNCHANGED <<cstate, sockfd, openFds>> /\ TypeInv /\ LoopInv
        /\ Timer # Listener /\ \A c \in Slots : c # Timer
      BY <1>3 DEF TimestampTick, clientVars, kernelVars, FdInv, MatchInv, LoopInv, RingInv,
                  Timer, Listener, Slots
  <2>2. 1 \notin Arrived
      BY <2>1, DiscardShifts DEF Arrived
  <2>3. \A c \in Slots : Holds(c)' <=> Holds(c)
      BY <2>1, DiscardInCq DEF Holds
  <2> QED BY <2>1, <2>2, <2>3, FdShift
<1>4. CASE FastcgiCqeHandle
    BY <1>4, FdAccept
<1>5. CASE \E c \in Slots : ClientCqeHandle(c)
    BY <1>5, FdCompleted
<1>6. CASE KernelStep
    BY <1>6, FdKernel
<1> QED BY <1>1, <1>2, <1>3, <1>4, <1>5, <1>6 DEF Next, LoopStep, Handle

(* Every open descriptor has exactly one owner, a slot that has not yet     *)
(* closed it or one accept completion: none leaks, none is shared, and none *)
(* is closed that the kernel has already handed out again.                  *)
THEOREM FdsOwned == Spec => []FdOwnership
<1>1. Init => FdInv
  <2>1. Init => EachFdOwned
      BY DEF Init, EachFdOwned, Holds, Arrived
  <2> QED BY <2>1, MatchInit DEF FdInv
<1>2. (overrun \/ FdInv) /\ [Next]_vars => (overrun \/ FdInv)'
    BY FdStep, OverrunStays
<1>3. overrun \/ FdInv => FdOwnership
    BY DEF FdInv, FdOwnership
<1> QED BY <1>1, <1>2, <1>3, PTL DEF Spec

-----------------------------------------------------------------------------
(* The listener.  An accept armed stays armed from place to place: about to *)
(* be issued, in the ring, in the kernel, or ended by a completion that is  *)
(* still to be handled.                                                     *)

LastQueued == \E i \in DOMAIN cq : cq[i].owner = Listener /\ ~cq[i].more

(* Handling a completion of somebody else leaves the listener's last where  *)
(* it is.                                                                   *)
LEMMA LastStays ==
    ASSUME TypeInv, pc = "handle", CqDiscard, LastQueued,
           ~(Head(cq).owner = Listener /\ ~Head(cq).more)
    PROVE  LastQueued'
BY DiscardShifts DEF LastQueued

(* and posting another one does, too.                                       *)
LEMMA LastPosted ==
    ASSUME TypeInv, NEW o, NEW r, NEW m, Post(o, r, m),
           LastQueued \/ (o = Listener /\ ~m)
    PROVE  LastQueued'
<1>1. PICK n \in Nat :
        /\ n \notin DOMAIN cq /\ DOMAIN cq' = DOMAIN cq \cup {n}
        /\ \A i \in DOMAIN cq : cq'[i] = cq[i]
        /\ cq'[n] = [owner |-> o, res |-> r, more |-> m]
    BY PostAdds
<1> QED BY <1>1 DEF LastQueued

(* Every step of the loop but the early exit keeps the listener armed.      *)
LEMMA ArmedLoop ==
    ASSUME LoopInv, ~overrun', LoopStep \/ CqeWaitFails, ListenerArmed
    PROVE  ListenerArmed' \/ LastMeetsFullPool
<1>1. TypeInv /\ OneEntry /\ EachOnce /\ (ListenerArmed <=>
        listener = "ACCEPT_SQE" \/ InSq(Listener) \/ InFlight(Listener) \/ LastQueued)
    BY DEF LoopInv, RingInv, EachOnce, ListenerArmed, LastQueued
<1>2. ListenerArmed' <=>
        listener' = "ACCEPT_SQE" \/ InSq(Listener)' \/ InFlight(Listener)' \/ LastQueued'
    BY DEF ListenerArmed, LastQueued
<1>3. CASE FastcgiStateHandle
  <2>1. CASE listener = "ACCEPT_SQE"
    <3>1. Push(AcceptOp) /\ AcceptOp.owner = Listener /\ AcceptOp \in TaggedOps
        BY <1>3, <2>1, OpsTyped DEF FastcgiStateHandle, AcceptOp
    <3>2. ~InSq(AcceptOp.owner)
        BY <1>1, <2>1, <3>1 DEF EachOnce
    <3> QED BY <1>1, <1>2, <3>1, <3>2, PushOwners
  <2>2. CASE listener # "ACCEPT_SQE"
      BY <1>3, <2>2 DEF FastcgiStateHandle, ListenerArmed, InSq, InFlight, kernelVars
  <2> QED BY <2>1, <2>2
<1>4. ASSUME NEW c \in Slots, ClientStateHandle(c)
      PROVE  ListenerArmed'
  <2>1. UNCHANGED <<listener, inflight, cq>>
      BY <1>4 DEF ClientStateHandle, kernelVars
  <2>2. InSq(Listener) => InSq(Listener)'
    <3>1. CASE UNCHANGED sq
        BY <3>1 DEF InSq
    <3>2. ASSUME NEW op \in {ReadOp(c), WriteOp(c), CloseOp(c)}, Push(op), ~Awaiting(c)
          PROVE  InSq(Listener) => InSq(Listener)'
      <4>1. op \in TaggedOps /\ op.owner = c
        <5>1. ReadOp(c) \in TaggedOps /\ WriteOp(c) \in TaggedOps /\ CloseOp(c) \in TaggedOps
            BY <1>1, SlotOpsTyped DEF TypeInv
        <5>2. ReadOp(c).owner = c /\ WriteOp(c).owner = c /\ CloseOp(c).owner = c
            BY DEF ReadOp, WriteOp, CloseOp
        <5> QED BY <5>1, <5>2
      <4>2. ~InSq(op.owner)
          BY <3>2, <4>1, NothingOutstanding
      <4> QED BY <1>1, <3>2, <4>1, <4>2, PushOwners
    <3> QED BY <1>4, <3>1, <3>2 DEF ClientStateHandle, Issue, ReleaseUnopened, Awaiting
  <2> QED BY <1>1, <1>2, <2>1, <2>2 DEF InFlight, LastQueued
<1>5. CASE Peek \/ PeekNext \/ CqeWait \/ CqeWaitFails
    BY <1>5 DEF Peek, PeekNext, CqeWait, CqeWaitFails, ListenerArmed, InSq, InFlight, kernelVars
<1>6. CASE TimestampTick
  <2>1. /\ Push(TimeoutOp) /\ TimeoutOp.owner = Timer /\ TimeoutOp \in TaggedOps
        /\ CqDiscard /\ pc = "handle" /\ Head(cq).owner = Timer
        /\ Timer # Listener /\ Timer \in Owners /\ UNCHANGED <<listener, inflight>>
      BY <1>6, OpsTyped DEF TimestampTick, TimeoutOp, Timer, Listener, Owners, kernelVars
  <2>2. InCq(Timer)
      BY <1>1, <2>1, DiscardShifts DEF InCq
  <2>3. ~InSq(TimeoutOp.owner)
      BY <1>1, <2>1, <2>2 DEF EachOnce, OnePlace
  <2>4. InSq(Listener) => InSq(Listener)'
      BY <1>1, <2>1, <2>3, PushOwners
  <2>5. LastQueued => LastQueued'
      BY <1>1, <2>1, LastStays
  <2> QED BY <1>1, <1>2, <2>1, <2>4, <2>5 DEF InFlight
<1>7. CASE FastcgiCqeHandle
  <2>1. /\ CqDiscard /\ pc = "handle" /\ Head(cq).owner = Listener
        /\ UNCHANGED <<sq, inflight>>
      BY <1>7 DEF FastcgiCqeHandle
  <2>2. listener = "ACCEPT_CQE"
    <3>1. InCq(Listener)
        BY <1>1, <2>1, DiscardShifts DEF InCq
    <3> QED BY <1>1, <3>1 DEF EachOnce, TypeInv, TypeOK
  <2>3. CASE Head(cq).more
      BY <1>1, <1>2, <2>1, <2>2, <2>3, LastStays DEF InSq, InFlight
  <2>4. CASE ~Head(cq).more
      BY <1>2, <1>7, <2>1, <2>2, <2>4
         DEF FastcgiCqeHandle, AcceptFails, AcceptRefused, AcceptTaken, LastMeetsFullPool
  <2> QED BY <2>3, <2>4
<1>8. ASSUME NEW c \in Slots, ClientCqeHandle(c)
      PROVE  ListenerArmed'
  <2>1. /\ CqDiscard /\ pc = "handle" /\ Head(cq).owner # Listener
        /\ UNCHANGED <<sq, inflight, listener>>
      BY <1>8 DEF ClientCqeHandle, kernelVars, Slots, Listener
  <2> QED BY <1>1, <1>2, <2>1, LastStays DEF InSq, InFlight
<1> QED BY <1>3, <1>4, <1>5, <1>6, <1>7, <1>8 DEF LoopStep, Handle

(* An operation of somebody else that ends leaves the listener armed, and   *)
(* so does the listener's when its last completion is queued.               *)
LEMMA ArmedPost ==
    ASSUME LoopInv, ListenerArmed, NEW o, NEW r, NEW m, Post(o, r, m),
           UNCHANGED <<sq, listener>>,
           \A e \in inflight \ inflight' : e.owner = Listener => o = Listener /\ ~m
    PROVE  ListenerArmed'
<1>1. TypeInv
    BY DEF LoopInv, RingInv
<1>2. LastQueued => LastQueued'
    BY <1>1, LastPosted
<1>3. InFlight(Listener) => InFlight(Listener)' \/ LastQueued'
    BY <1>1, LastPosted DEF InFlight
<1> QED BY <1>2, <1>3 DEF ListenerArmed, LastQueued, InSq

(* No step of the kernel disarms the listener.                              *)
LEMMA ArmedKernel ==
    ASSUME LoopInv, KernelStep, ListenerArmed
    PROVE  ListenerArmed'
<1>1. TypeInv /\ OneEntry /\ OnePlace
    BY DEF LoopInv, RingInv, EachOnce
<1>2. AcceptOp.owner = Listener /\ TimeoutOp.owner # Listener
    BY DEF AcceptOp, TimeoutOp, Timer, Listener
<1>3. ASSUME NEW e \in inflight, e.op \in {"READ", "WRITE", "CLOSE"}
      PROVE  e.owner # Listener
    BY <1>1, <1>3, OpsTyped DEF TypeInv, QueuesTagged, TransferOps, Slots, Listener
<1>4. CASE KernelSubmit
  <2>1. InSq(Listener) => InSq(Listener)' \/ InFlight(Listener)'
      BY <1>1, <1>4, SubmitOwners
  <2>2. InFlight(Listener) => InFlight(Listener)'
      BY <1>4 DEF KernelSubmit, InFlight
  <2> QED BY <1>4, <2>1, <2>2 DEF KernelSubmit, ListenerArmed
<1>5. CASE \E fd \in Fds, more \in BOOLEAN : KernelAccept(fd, more)
  <2> PICK fd \in Fds, more \in BOOLEAN : KernelAccept(fd, more)
      BY <1>5
  <2>1. Post(Listener, fd, more) /\ UNCHANGED <<sq, listener>>
      BY DEF KernelAccept
  <2>2. \A e \in inflight \ inflight' : ~more
      BY DEF KernelAccept
  <2> QED BY <2>1, <2>2, ArmedPost, Zenon
<1>6. CASE KernelAcceptError
  <2>1. Post(Listener, -1, FALSE) /\ UNCHANGED <<sq, listener>>
      BY <1>6, Zenon DEF KernelAcceptError
  <2> QED BY <2>1, ArmedPost, Zenon
<1>7. CASE KernelTimeout
  <2>1. Post(Timer, -1, FALSE) /\ UNCHANGED <<sq, listener>>
      BY <1>7, Zenon DEF KernelTimeout
  <2>2. \A e \in inflight \ inflight' : e.owner # Listener
      BY <1>2, <1>7 DEF KernelTimeout
  <2> QED BY <2>1, <2>2, ArmedPost, Zenon
<1>8. CASE \E e \in inflight : \E res \in Results(e) : KernelTransfer(e, res)
  <2> PICK e \in inflight : \E res \in Results(e) : KernelTransfer(e, res)
      BY <1>8
  <2> PICK res \in Results(e) : KernelTransfer(e, res)
      OBVIOUS
  <2>1. Post(e.owner, res, FALSE) /\ UNCHANGED <<sq, listener>>
      BY Zenon DEF KernelTransfer
  <2>2. \A f \in inflight \ inflight' : f.owner # Listener
      BY <1>3 DEF KernelTransfer
  <2> QED BY <2>1, <2>2, ArmedPost, Zenon
<1>9. CASE \E e \in inflight : KernelClose(e)
  <2> PICK e \in inflight : KernelClose(e)
      BY <1>9
  <2>1. Post(e.owner, 0, FALSE) /\ UNCHANGED <<sq, listener>>
      BY Zenon DEF KernelClose
  <2>2. \A f \in inflight \ inflight' : f.owner # Listener
      BY <1>3 DEF KernelClose
  <2> QED BY <2>1, <2>2, ArmedPost, Zenon
<1> QED BY <1>4, <1>5, <1>6, <1>7, <1>8, <1>9 DEF KernelStep

(* However accepts end, the listener goes on to the next one; the only step *)
(* after which it never again does is the early exit of a last completion   *)
(* that finds no free slot (cg_app.c:234).                                  *)
THEOREM ListenerDisarmedOnce == Spec => ListenerStaysArmed
<1> DEFINE Armed == ListenerArmed /\ ~ListenerArmed' => overrun' \/ LastMeetsFullPool
<1>1. Init => LoopInv
    BY LoopInit
<1>2. (overrun \/ LoopInv) /\ [Next]_vars => (overrun \/ LoopInv)'
    BY LoopStepInv, OverrunStays
<1>3. (overrun \/ LoopInv) /\ [Next]_vars => [Armed]_vars
  <2>1. overrun /\ [Next]_vars => [Armed]_vars
      BY OverrunStays
  <2>2. LoopInv /\ [Next]_vars => [Armed]_vars
      BY ArmedLoop, ArmedKernel DEF Next
  <2> QED BY <2>1, <2>2
<1> QED BY <1>1, <1>2, <1>3, PTL DEF Spec, ListenerStaysArmed

-----------------------------------------------------------------------------
(* The rings as queues.  The queues of RingQueue hold the owners of what    *)
(* the rings hold, entry by entry.                                          *)
OwnersIn(q) == [i \in DOMAIN q |-> q[i].owner]
MarksIn(q)  == [i \in DOMAIN q |-> <<q[i].owner, q[i].more>>]

(* A sequence with one more element at its end,                             *)
LEMMA LongerIsAppend ==
    ASSUME NEW S, NEW p \in Seq(S), NEW r \in Seq(S), NEW x \in S,
           Len(r) = Len(p) + 1, \A i \in 1 .. Len(p) : r[i] = p[i], r[Len(p) + 1] = x
    PROVE  r = Append(p, x)
<1>1. Len(p) \in Nat
    BY LenProperties
<1>2. /\ Append(p, x) \in Seq(S) /\ Len(Append(p, x)) = Len(p) + 1
      /\ \A i \in 1 .. Len(p) : Append(p, x)[i] = p[i]
      /\ Append(p, x)[Len(p) + 1] = x
    BY AppendProperties
<1>3. \A i \in 1 .. Len(r) : r[i] = Append(p, x)[i]
  <2> TAKE i \in 1 .. Len(r)
  <2>1. i \in 1 .. Len(p) \/ i = Len(p) + 1
      BY <1>1
  <2> QED BY <1>2, <2>1
<1> QED BY <1>2, <1>3, SeqEqual

(* and one without its first.                                               *)
LEMMA ShorterIsTail ==
    ASSUME NEW S, NEW p \in Seq(S), NEW r \in Seq(S), p # <<>>,
           Len(r) = Len(p) - 1, \A i \in 1 .. (Len(p) - 1) : r[i] = p[i + 1]
    PROVE  r = Tail(p)
<1>1. Len(p) \in Nat \ {0}
    BY LenProperties, EmptySeq
<1>2. /\ Tail(p) \in Seq(S) /\ Len(Tail(p)) = Len(p) - 1
      /\ \A i \in 1 .. (Len(p) - 1) : Tail(p)[i] = p[i + 1]
    BY HeadTailProperties
<1> QED BY <1>1, <1>2, SeqEqual

(* The owners of the entries of a ring,                                     *)
LEMMA OwnersOfEntries ==
    ASSUME NEW q \in Seq(TaggedOps)
    PROVE  /\ OwnersIn(q) \in Seq(Owners) /\ Len(OwnersIn(q)) = Len(q) /\ Len(q) \in Nat
           /\ DOMAIN q = 1 .. Len(q) /\ \A i \in 1 .. Len(q) : OwnersIn(q)[i] = q[i].owner
<1>1. Len(q) \in Nat /\ DOMAIN q = 1 .. Len(q)
    BY LenProperties
<1>2. \A i \in 1 .. Len(q) : q[i].owner \in Owners
  <2> TAKE i \in 1 .. Len(q)
  <2>1. q[i] \in Operations
      BY ElementOfSeq, OpsTyped
  <2> QED BY <2>1 DEF Operations
<1>3. OwnersIn(q) = [i \in 1 .. Len(q) |-> q[i].owner]
    BY <1>1 DEF OwnersIn
<1>4. OwnersIn(q) \in Seq(Owners) /\ Len(OwnersIn(q)) = Len(q)
    BY <1>1, <1>2, <1>3
<1> QED BY <1>1, <1>3, <1>4

(* and of a queue of completions, with what is still to come.               *)
LEMMA MarksOfCompletions ==
    ASSUME NEW q \in Seq(TaggedCompletions)
    PROVE  /\ MarksIn(q) \in Seq(Owners \X BOOLEAN) /\ Len(MarksIn(q)) = Len(q)
           /\ Len(q) \in Nat /\ DOMAIN q = 1 .. Len(q)
           /\ \A i \in 1 .. Len(q) : MarksIn(q)[i] = <<q[i].owner, q[i].more>>
<1>1. Len(q) \in Nat /\ DOMAIN q = 1 .. Len(q)
    BY LenProperties
<1>2. \A i \in 1 .. Len(q) : <<q[i].owner, q[i].more>> \in Owners \X BOOLEAN
  <2> TAKE i \in 1 .. Len(q)
  <2>1. q[i] \in Completions
      BY ElementOfSeq DEF TaggedCompletions
  <2> QED BY <2>1 DEF Completions
<1>3. MarksIn(q) = [i \in 1 .. Len(q) |-> <<q[i].owner, q[i].more>>]
    BY <1>1 DEF MarksIn
<1>4. MarksIn(q) \in Seq(Owners \X BOOLEAN) /\ Len(MarksIn(q)) = Len(q)
    BY <1>1, <1>2, <1>3
<1> QED BY <1>1, <1>3, <1>4

(* Pushing an entry for an owner that has nothing outstanding enqueues it.  *)
LEMMA PushEnqueues ==
    ASSUME RingInv, ~overrun', NEW e \in TaggedOps, Push(e), ~InSq(e.owner)
    PROVE  SqOwners' = Append(SqOwners, e.owner)
<1>1. e.owner \in Owners
    BY OpsTyped DEF Operations
<1>2. sq \in Seq(TaggedOps) /\ sq' \in Seq(TaggedOps)
    BY PushType DEF RingInv, TypeInv, QueuesTagged
<1>3. Len(sq) < SQEntries
    BY <1>1, RoomToPush DEF RingInv, EachOnce
<1>4. /\ DOMAIN sq' = 1 .. (Len(sq) + 1) /\ \A i \in 1 .. Len(sq) : sq'[i] = sq[i]
      /\ sq'[Len(sq) + 1] = e
    BY <1>2, <1>3, PushAppends
<1>5. /\ OwnersIn(sq) \in Seq(Owners) /\ Len(OwnersIn(sq)) = Len(sq) /\ Len(sq) \in Nat
      /\ \A i \in 1 .. Len(sq) : OwnersIn(sq)[i] = sq[i].owner
    BY <1>2, OwnersOfEntries
<1>6. /\ OwnersIn(sq') \in Seq(Owners) /\ Len(OwnersIn(sq')) = Len(sq')
      /\ DOMAIN sq' = 1 .. Len(sq') /\ Len(sq') \in Nat
      /\ \A i \in 1 .. Len(sq') : OwnersIn(sq')[i] = sq'[i].owner
    BY <1>2, OwnersOfEntries
<1>7. Len(sq') = Len(sq) + 1
    BY <1>4, <1>5, <1>6
<1>8. /\ \A i \in 1 .. Len(sq) : OwnersIn(sq')[i] = OwnersIn(sq)[i]
      /\ OwnersIn(sq')[Len(sq) + 1] = e.owner
    BY <1>4, <1>5, <1>6, <1>7
<1>9. OwnersIn(sq') = Append(OwnersIn(sq), e.owner)
    BY <1>1, <1>5, <1>6, <1>7, <1>8, LongerIsAppend
<1> QED BY <1>9 DEF SqOwners, OwnersIn

(* Posting a completion appends it.                                         *)
LEMMA PostAppends ==
    ASSUME TypeInv, TypeInv', NEW o, NEW r, NEW m, Post(o, r, m)
    PROVE  /\ CqOwners' = Append(CqOwners, <<o, m>>)
           /\ \A x : LastInCq(x)' <=> LastInCq(x) \/ (x = o /\ ~m)
<1> DEFINE y == [owner |-> o, res |-> r, more |-> m]
<1>1. cq \in Seq(TaggedCompletions) /\ cq' \in Seq(TaggedCompletions) /\ cq' = Append(cq, y)
    BY DEF TypeInv, QueuesTagged, Post
<1>2. y.owner = o /\ y.more = m
    OBVIOUS
<1> HIDE DEF y
<1>3. /\ MarksIn(cq) \in Seq(Owners \X BOOLEAN) /\ Len(MarksIn(cq)) = Len(cq)
      /\ Len(cq) \in Nat /\ DOMAIN cq = 1 .. Len(cq)
      /\ \A i \in 1 .. Len(cq) : MarksIn(cq)[i] = <<cq[i].owner, cq[i].more>>
    BY <1>1, MarksOfCompletions
<1>4. /\ MarksIn(cq') \in Seq(Owners \X BOOLEAN) /\ Len(MarksIn(cq')) = Len(cq')
      /\ Len(cq') \in Nat /\ DOMAIN cq' = 1 .. Len(cq')
      /\ \A i \in 1 .. Len(cq') : MarksIn(cq')[i] = <<cq'[i].owner, cq'[i].more>>
    BY <1>1, MarksOfCompletions
<1>5. /\ Len(cq') = Len(cq) + 1 /\ \A i \in 1 .. Len(cq) : cq'[i] = cq[i]
      /\ cq'[Len(cq) + 1] = y
    BY <1>1, <1>3
<1>6. /\ \A i \in 1 .. Len(cq) : MarksIn(cq')[i] = MarksIn(cq)[i]
      /\ MarksIn(cq')[Len(cq) + 1] = <<o, m>>
  <2>1. /\ Len(cq) + 1 \in 1 .. Len(cq')
        /\ \A i \in 1 .. Len(cq) : i \in 1 .. Len(cq')
      BY <1>3, <1>5
  <2> QED BY <1>2, <1>3, <1>4, <1>5, <2>1, Zenon
<1>7. <<o, m>> \in Owners \X BOOLEAN
  <2>1. Len(cq) + 1 \in 1 .. Len(cq')
      BY <1>3, <1>5
  <2> QED BY <1>4, <1>6, <2>1, ElementOfSeq
<1>8. MarksIn(cq') = Append(MarksIn(cq), <<o, m>>)
    BY <1>3, <1>4, <1>5, <1>6, <1>7, LongerIsAppend
<1>9. \A x : LastInCq(x)' <=> LastInCq(x) \/ (x = o /\ ~m)
  <2> PICK n \in Nat :
        /\ n \notin DOMAIN cq /\ DOMAIN cq' = DOMAIN cq \cup {n}
        /\ \A i \in DOMAIN cq : cq'[i] = cq[i]
        /\ cq'[n] = [owner |-> o, res |-> r, more |-> m]
      BY PostAdds
  <2> QED BY DEF LastInCq
<1> QED BY <1>8, <1>9 DEF CqOwners, MarksIn

(* Discarding one takes it from the front.                                  *)
LEMMA DiscardTakes ==
    ASSUME TypeInv, TypeInv', pc = "handle", CqDiscard
    PROVE  /\ CqOwners # <<>> /\ Head(CqOwners) = <<Head(cq).owner, Head(cq).more>>
           /\ CqOwners' = Tail(CqOwners)
           /\ \A x : LastInCq(x) <=> LastInCq(x)' \/ (x = Head(cq).owner /\ ~Head(cq).more)
<1>1. /\ cq \in Seq(TaggedCompletions) /\ cq' \in Seq(TaggedCompletions)
      /\ cq # <<>> /\ cq' = Tail(cq)
    BY DEF TypeInv, QueuesTagged, CqDiscard
<1>2. /\ MarksIn(cq) \in Seq(Owners \X BOOLEAN) /\ Len(MarksIn(cq)) = Len(cq)
      /\ Len(cq) \in Nat /\ DOMAIN cq = 1 .. Len(cq)
      /\ \A i \in 1 .. Len(cq) : MarksIn(cq)[i] = <<cq[i].owner, cq[i].more>>
    BY <1>1, MarksOfCompletions
<1>3. /\ MarksIn(cq') \in Seq(Owners \X BOOLEAN) /\ Len(MarksIn(cq')) = Len(cq')
      /\ Len(cq') \in Nat /\ DOMAIN cq' = 1 .. Len(cq')
      /\ \A i \in 1 .. Len(cq') : MarksIn(cq')[i] = <<cq'[i].owner, cq'[i].more>>
    BY <1>1, MarksOfCompletions
<1>4. /\ Len(cq) > 0 /\ Head(cq) = cq[1] /\ Len(cq') = Len(cq) - 1
      /\ \A i \in 1 .. (Len(cq) - 1) : cq'[i] = cq[i + 1]
    BY <1>1, <1>2, EmptySeq, HeadTailProperties
<1>5. \A i \in 1 .. (Len(cq) - 1) : MarksIn(cq')[i] = MarksIn(cq)[i + 1]
  <2> TAKE i \in 1 .. (Len(cq) - 1)
  <2>1. i \in 1 .. Len(cq') /\ i + 1 \in 1 .. Len(cq) /\ cq'[i] = cq[i + 1]
      BY <1>2, <1>4
  <2> QED BY <1>2, <1>3, <2>1, Zenon
<1>6. MarksIn(cq) # <<>> /\ Head(MarksIn(cq)) = <<Head(cq).owner, Head(cq).more>>
    BY <1>2, <1>4, EmptySeq
<1>7. MarksIn(cq') = Tail(MarksIn(cq))
    BY <1>2, <1>3, <1>4, <1>5, <1>6, ShorterIsTail
<1>8. \A x : LastInCq(x) <=> LastInCq(x)' \/ (x = Head(cq).owner /\ ~Head(cq).more)
    BY DiscardShifts DEF LastInCq
<1> QED BY <1>6, <1>7, <1>8 DEF CqOwners, MarksIn

(* An operation issued is one enqueued, by an owner that has none.          *)
LEMMA PushIsEnqueue ==
    ASSUME RingInv, ~overrun', NEW e \in TaggedOps, Push(e), UNCHANGED <<inflight, cq>>,
           ~InSq(e.owner), ~InFlight(e.owner), ~InCq(e.owner)
    PROVE  Rings!Next
<1>1. e.owner \in Owners
    BY OpsTyped DEF Operations
<1>2. SqOwners' = Append(SqOwners, e.owner)
    BY PushEnqueues
<1>3. /\ \A o : InSq(o)' <=> InSq(o) \/ o = e.owner
      /\ \A o : (InFlight(o)' <=> InFlight(o)) /\ (LastInCq(o)' <=> LastInCq(o))
    BY PushPlaces DEF LastInCq
<1>4. ~LastInCq(e.owner)
    BY DEF LastInCq, InCq
<1>5. e.owner \in Idle /\ Idle' = Idle \ {e.owner}
    BY <1>1, <1>3, <1>4 DEF Idle, Outstanding
<1>6. UNCHANGED <<InFlightOwners, CqOwners>>
    BY DEF InFlightOwners, CqOwners
<1>7. Rings!Enqueue(e.owner)
    BY <1>2, <1>5, <1>6 DEF Rings!Enqueue
<1> QED BY <1>1, <1>7 DEF Rings!Next

(* The kernel takes the oldest.                                             *)
LEMMA SubmitIsTake ==
    ASSUME RingInv, TypeInv', KernelSubmit
    PROVE  Rings!Take
<1>1. /\ sq \in Seq(TaggedOps) /\ sq # <<>> /\ sq' = Tail(sq) /\ sq' \in Seq(TaggedOps)
      /\ inflight' = inflight \cup {Head(sq)} /\ cq' = cq
    BY DEF KernelSubmit, RingInv, TypeInv, QueuesTagged
<1>2. /\ OwnersIn(sq) \in Seq(Owners) /\ Len(OwnersIn(sq)) = Len(sq) /\ Len(sq) \in Nat
      /\ \A i \in 1 .. Len(sq) : OwnersIn(sq)[i] = sq[i].owner
    BY <1>1, OwnersOfEntries
<1>3. /\ OwnersIn(sq') \in Seq(Owners) /\ Len(OwnersIn(sq')) = Len(sq')
      /\ \A i \in 1 .. Len(sq') : OwnersIn(sq')[i] = sq'[i].owner
    BY <1>1, OwnersOfEntries
<1>4. /\ Len(sq) > 0 /\ Head(sq) = sq[1] /\ Len(sq') = Len(sq) - 1
      /\ \A i \in 1 .. (Len(sq) - 1) : sq'[i] = sq[i + 1]
    BY <1>1, <1>2, EmptySeq, HeadTailProperties
<1>5. \A i \in 1 .. (Len(sq) - 1) : OwnersIn(sq')[i] = OwnersIn(sq)[i + 1]
  <2> TAKE i \in 1 .. (Len(sq) - 1)
  <2>1. i \in 1 .. Len(sq') /\ i + 1 \in 1 .. Len(sq) /\ sq'[i] = sq[i + 1]
      BY <1>2, <1>4
  <2> QED BY <1>2, <1>3, <2>1, Zenon
<1>6. OwnersIn(sq) # <<>> /\ Head(OwnersIn(sq)) = Head(sq).owner
    BY <1>2, <1>4, EmptySeq
<1>7. OwnersIn(sq') = Tail(OwnersIn(sq))
    BY <1>2, <1>3, <1>4, <1>5, <1>6, ShorterIsTail
<1>8. SqOwners # <<>> /\ Head(SqOwners) = Head(sq).owner /\ SqOwners' = Tail(SqOwners)
    BY <1>6, <1>7 DEF SqOwners, OwnersIn
<1>9. InFlightOwners' = InFlightOwners \cup {Head(SqOwners)}
    BY <1>1, <1>8 DEF InFlightOwners
<1>10. \A o : Outstanding(o)' <=> Outstanding(o)
  <2>1. /\ InSq(Head(sq).owner)
        /\ \A o : InSq(o)' <=> InSq(o) /\ o # Head(sq).owner
        /\ \A o : InFlight(o)' <=> InFlight(o) \/ o = Head(sq).owner
      BY SubmitOwners DEF RingInv, EachOnce
  <2>2. \A o : LastInCq(o)' <=> LastInCq(o)
      BY <1>1 DEF LastInCq
  <2> QED BY <2>1, <2>2 DEF Outstanding
<1>11. Idle' = Idle
    BY <1>10 DEF Idle
<1>12. CqOwners' = CqOwners
    BY <1>1 DEF CqOwners
<1> QED BY <1>8, <1>9, <1>11, <1>12 DEF Rings!Take

(* An operation that ends completes for the last time,                      *)
LEMMA FinishIsComplete ==
    ASSUME RingInv, TypeInv', NEW e \in inflight, inflight' = inflight \ {e},
           NEW r, Post(e.owner, r, FALSE), sq' = sq
    PROVE  Rings!Next
<1> DEFINE o == e.owner
<1>1. o \in Owners
    BY DEF RingInv, TypeInv, TypeOK, Operations
<1>2. InFlight(o) /\ \A x : InFlight(x)' <=> InFlight(x) /\ x # o
    BY FinishOwners DEF RingInv, EachOnce
<1>3. Post(o, r, FALSE) /\ TypeInv
    BY DEF RingInv
<1> HIDE DEF o
<1>4. /\ CqOwners' = Append(CqOwners, <<o, FALSE>>)
      /\ \A x : LastInCq(x)' <=> LastInCq(x) \/ (x = o /\ ~FALSE)
    BY <1>3, PostAppends, Zenon
<1>5. o \in InFlightOwners /\ InFlightOwners' = InFlightOwners \ {o}
  <2>1. \A x : x \in InFlightOwners <=> InFlight(x)
      BY DEF InFlightOwners, InFlight
  <2>2. \A x : x \in InFlightOwners' <=> InFlight(x)'
      BY DEF InFlightOwners, InFlight
  <2> QED BY <1>2, <2>1, <2>2
<1>6. SqOwners' = SqOwners /\ \A x : InSq(x)' <=> InSq(x)
    BY DEF SqOwners, InSq
<1>7. Idle' = Idle
    BY <1>2, <1>4, <1>6 DEF Idle, Outstanding
<1>8. Rings!Complete(o, FALSE)
    BY <1>4, <1>5, <1>6, <1>7 DEF Rings!Complete
<1> QED BY <1>1, <1>8 DEF Rings!Next

(* and an accept that goes on completes with more to come.                  *)
LEMMA AcceptIsComplete ==
    ASSUME RingInv, TypeInv', NEW fd, KernelAccept(fd, TRUE)
    PROVE  Rings!Next
<1>1. AcceptOp \in inflight /\ Post(Listener, fd, TRUE) /\ UNCHANGED <<inflight, sq>> /\ TypeInv
    BY DEF KernelAccept, RingInv
<1>2. /\ CqOwners' = Append(CqOwners, <<Listener, TRUE>>)
      /\ \A x : LastInCq(x)' <=> LastInCq(x) \/ (x = Listener /\ ~TRUE)
    BY <1>1, PostAppends, Zenon
<1>3. /\ SqOwners' = SqOwners /\ InFlightOwners' = InFlightOwners
      /\ \A x : (InSq(x)' <=> InSq(x)) /\ (InFlight(x)' <=> InFlight(x))
    BY <1>1 DEF SqOwners, InFlightOwners, InSq, InFlight
<1>4. Idle' = Idle
    BY <1>2, <1>3 DEF Idle, Outstanding
<1>5. Listener \in InFlightOwners /\ Listener \in Owners
    BY <1>1 DEF InFlightOwners, AcceptOp, Owners
<1>6. Rings!Complete(Listener, TRUE)
    BY <1>2, <1>3, <1>4, <1>5 DEF Rings!Complete
<1> QED BY <1>5, <1>6 DEF Rings!Next

(* A completion handled for the last time leaves its owner with nothing     *)
(* outstanding.                                                             *)
LEMMA LastLeavesNothing ==
    ASSUME RingInv, pc = "handle", CqDiscard, NEW o, o = Head(cq).owner
    PROVE  /\ o \in Owners /\ Head(cq).more \in BOOLEAN
           /\ ~Head(cq).more => ~InSq(o) /\ ~InFlight(o) /\ ~InCq(o)'
           /\ o # Listener => ~Head(cq).more
<1>1. TypeInv /\ OneEntry /\ OnePlace /\ ListenerLast
    BY DEF RingInv, EachOnce
<1>2. Head(cq) \in TaggedCompletions /\ o \in Owners /\ Head(cq).more \in BOOLEAN
  <2>1. Head(cq) \in TaggedCompletions /\ o \in Owners
      BY <1>1, HeadTyped
  <2> QED BY <2>1 DEF TaggedCompletions, Completions
<1>3. /\ InCq(o) /\ (o # Listener => ~InCq(o)')
      /\ o = Listener /\ ~Head(cq).more =>
           ~InSq(Listener) /\ ~InFlight(Listener) /\ ~InCq(Listener)'
    BY <1>1, DiscardOwners
<1>4. o # Listener => ~InSq(o) /\ ~InFlight(o)
    BY <1>1, <1>2, <1>3 DEF OnePlace
<1>5. o # Listener => ~Head(cq).more
    BY <1>2 DEF TaggedCompletions
<1>6. o = Listener /\ ~Head(cq).more => ~InSq(o) /\ ~InFlight(o) /\ ~InCq(o)'
    BY <1>3
<1> QED BY <1>2, <1>3, <1>4, <1>5, <1>6

(* A handler that issues nothing handles,                                   *)
LEMMA DiscardIsHandle ==
    ASSUME RingInv, TypeInv', pc = "handle", CqDiscard, UNCHANGED <<sq, inflight>>
    PROVE  Rings!Handle
<1> PICK o, m : o = Head(cq).owner /\ m = Head(cq).more
    OBVIOUS
<1>1. /\ CqOwners # <<>> /\ Head(CqOwners) = <<o, m>> /\ CqOwners' = Tail(CqOwners)
      /\ \A x : LastInCq(x) <=> LastInCq(x)' \/ (x = o /\ ~m)
    BY DiscardTakes DEF RingInv
<1>2. o \in Owners /\ m \in BOOLEAN /\ (~m => ~InSq(o) /\ ~InFlight(o) /\ ~InCq(o)')
    BY LastLeavesNothing
<1>4. /\ SqOwners' = SqOwners /\ InFlightOwners' = InFlightOwners
      /\ \A x : (InSq(x)' <=> InSq(x)) /\ (InFlight(x)' <=> InFlight(x))
    BY DEF SqOwners, InFlightOwners, InSq, InFlight
<1>5. LastInCq(o)' => InCq(o)'
    BY DEF LastInCq, InCq
<1>6. Idle' = IF m THEN Idle ELSE Idle \cup {o}
  <2>1. CASE m
      BY <1>1, <1>4, <2>1 DEF Idle, Outstanding
  <2>2. CASE ~m
      BY <1>1, <1>2, <1>4, <1>5, <2>2 DEF Idle, Outstanding
  <2> QED BY <2>1, <2>2
<1>7. Head(CqOwners)[1] = o /\ Head(CqOwners)[2] = m
    BY <1>1
<1>8. Idle' = IF Head(CqOwners)[2] THEN Idle ELSE Idle \cup {Head(CqOwners)[1]}
    BY <1>6, <1>7, Zenon
<1> QED BY <1>1, <1>4, <1>8 DEF Rings!Handle

(* and the tick handles and enqueues again.                                 *)
LEMMA TickIsHandleAgain ==
    ASSUME RingInv, TypeInv', ~overrun', TimestampTick
    PROVE  Rings!HandleAgain
<1>1. /\ Head(cq).owner = Timer /\ Timer # Listener /\ Timer \in Owners
      /\ TimeoutOp \in TaggedOps /\ TimeoutOp.owner = Timer
      /\ Push(TimeoutOp) /\ CqDiscard /\ pc = "handle" /\ inflight' = inflight
    BY OpsTyped DEF TimestampTick, Timer, Listener, Owners, TimeoutOp, kernelVars
<1>2. ~Head(cq).more /\ ~InSq(Timer) /\ ~InFlight(Timer)
    BY <1>1, LastLeavesNothing
<1>3. SqOwners' = Append(SqOwners, Timer)
    BY <1>1, <1>2, PushEnqueues
<1>4. /\ CqOwners # <<>> /\ Head(CqOwners) = <<Head(cq).owner, Head(cq).more>>
      /\ CqOwners' = Tail(CqOwners)
      /\ \A x : LastInCq(x) <=> LastInCq(x)' \/ (x = Head(cq).owner /\ ~Head(cq).more)
    BY <1>1, DiscardTakes DEF RingInv
<1>5. /\ \A x : InSq(x)' <=> InSq(x) \/ x = Timer
      /\ \A x : InFlight(x)' <=> InFlight(x)
  <2>1. \A x : InSq(x)' <=> InSq(x) \/ x = TimeoutOp.owner
      BY <1>1, <1>2, PushOwners DEF RingInv, EachOnce
  <2> QED BY <1>1, <2>1 DEF InFlight
<1>6. Idle' = Idle
    BY <1>1, <1>2, <1>4, <1>5 DEF Idle, Outstanding
<1>7. InFlightOwners' = InFlightOwners
    BY <1>1 DEF InFlightOwners
<1>8. ~Head(CqOwners)[2] /\ Head(CqOwners)[1] = Timer
    BY <1>1, <1>2, <1>4
<1> QED BY <1>3, <1>4, <1>6, <1>7, <1>8 DEF Rings!HandleAgain

(* Every step of the loop is one of the queues, or two where the tick arms  *)
(* the timer again,                                                         *)
LEMMA LoopUsesRings ==
    ASSUME LoopInv, LoopInv', ~overrun', LoopStep \/ CqeWaitFails
    PROVE  Rings!Next \/ Rings!HandleAgain \/ UNCHANGED Rings!queueVars
<1>1. RingInv /\ TypeInv' /\ EachOnce
    BY DEF LoopInv, RingInv
<1>2. ASSUME UNCHANGED <<sq, inflight, cq>>
      PROVE  UNCHANGED Rings!queueVars
    BY <1>2 DEF Rings!queueVars, SqOwners, InFlightOwners, CqOwners, Idle, Outstanding,
                InSq, InFlight, LastInCq
<1>3. CASE FastcgiStateHandle
  <2>1. CASE listener = "ACCEPT_SQE"
    <3>1. Push(AcceptOp) /\ AcceptOp.owner = Listener /\ AcceptOp \in TaggedOps
          /\ UNCHANGED <<inflight, cq>>
        BY <1>3, <2>1, OpsTyped DEF FastcgiStateHandle, AcceptOp, kernelVars
    <3>2. ~InSq(Listener) /\ ~InFlight(Listener) /\ ~InCq(Listener)
        BY <1>1, <2>1 DEF EachOnce
    <3> QED BY <1>1, <3>1, <3>2, PushIsEnqueue
  <2>2. CASE listener # "ACCEPT_SQE"
      BY <1>2, <1>3, <2>2 DEF FastcgiStateHandle, kernelVars
  <2> QED BY <2>1, <2>2
<1>4. ASSUME NEW c \in Slots, ClientStateHandle(c)
      PROVE  Rings!Next \/ UNCHANGED Rings!queueVars
  <2>1. UNCHANGED <<inflight, cq>>
      BY <1>4 DEF ClientStateHandle, kernelVars
  <2>2. CASE UNCHANGED sq
      BY <1>2, <2>1, <2>2
  <2>3. ASSUME NEW op \in {ReadOp(c), WriteOp(c), CloseOp(c)}, Push(op), ~Awaiting(c)
        PROVE  Rings!Next
    <3>1. op \in TaggedOps /\ op.owner = c
      <4>1. ReadOp(c) \in TaggedOps /\ WriteOp(c) \in TaggedOps /\ CloseOp(c) \in TaggedOps
          BY <1>1, SlotOpsTyped DEF RingInv, TypeInv
      <4>2. ReadOp(c).owner = c /\ WriteOp(c).owner = c /\ CloseOp(c).owner = c
          BY DEF ReadOp, WriteOp, CloseOp
      <4> QED BY <4>1, <4>2
    <3>2. ~InSq(c) /\ ~InFlight(c) /\ ~InCq(c)
        BY <2>3, NothingOutstanding
    <3> QED BY <1>1, <2>1, <2>3, <3>1, <3>2, PushIsEnqueue
  <2> QED BY <1>4, <2>2, <2>3 DEF ClientStateHandle, Issue, ReleaseUnopened, Awaiting
<1>5. CASE Peek \/ PeekNext \/ CqeWait \/ CqeWaitFails
    BY <1>2, <1>5 DEF Peek, PeekNext, CqeWait, CqeWaitFails, kernelVars
<1>6. CASE TimestampTick
    BY <1>1, <1>6, TickIsHandleAgain
<1>7. CASE FastcgiCqeHandle \/ \E c \in Slots : ClientCqeHandle(c)
  <2>1. pc = "handle" /\ CqDiscard /\ UNCHANGED <<sq, inflight>>
      BY <1>7 DEF FastcgiCqeHandle, ClientCqeHandle, kernelVars
  <2> QED BY <1>1, <2>1, DiscardIsHandle DEF Rings!Next
<1> QED BY <1>3, <1>4, <1>5, <1>6, <1>7 DEF LoopStep, Handle

(* and so is every step of the kernel.                                      *)
LEMMA KernelUsesRings ==
    ASSUME LoopInv, LoopInv', KernelStep
    PROVE  Rings!Next
<1>1. RingInv /\ TypeInv'
    BY DEF LoopInv, RingInv
<1>2. CASE KernelSubmit
    BY <1>1, <1>2, SubmitIsTake DEF Rings!Next
<1>3. CASE \E fd \in Fds, more \in BOOLEAN : KernelAccept(fd, more)
  <2> PICK fd \in Fds, more \in BOOLEAN : KernelAccept(fd, more)
      BY <1>3
  <2>1. CASE more = TRUE
      BY <1>1, <2>1, AcceptIsComplete
  <2>2. CASE more = FALSE
    <3>1. AcceptOp \in inflight /\ inflight' = inflight \ {AcceptOp} /\ sq' = sq
        BY <2>2 DEF KernelAccept
    <3>2. Post(AcceptOp.owner, fd, FALSE)
        BY <2>2, Zenon DEF KernelAccept, AcceptOp
    <3> QED BY <1>1, <3>1, <3>2, FinishIsComplete, Zenon
  <2> QED BY <2>1, <2>2
<1>4. CASE KernelAcceptError
  <2>1. AcceptOp \in inflight /\ inflight' = inflight \ {AcceptOp} /\ sq' = sq
      BY <1>4 DEF KernelAcceptError
  <2>2. Post(AcceptOp.owner, -1, FALSE)
      BY <1>4, Zenon DEF KernelAcceptError, AcceptOp
  <2> QED BY <1>1, <2>1, <2>2, FinishIsComplete, Zenon
<1>5. CASE KernelTimeout
  <2>1. TimeoutOp \in inflight /\ inflight' = inflight \ {TimeoutOp} /\ sq' = sq
      BY <1>5 DEF KernelTimeout
  <2>2. Post(TimeoutOp.owner, -1, FALSE)
      BY <1>5, Zenon DEF KernelTimeout, TimeoutOp
  <2> QED BY <1>1, <2>1, <2>2, FinishIsComplete, Zenon
<1>6. CASE \E e \in inflight : \E res \in Results(e) : KernelTransfer(e, res)
  <2> PICK e \in inflight : \E res \in Results(e) : KernelTransfer(e, res)
      BY <1>6
  <2> PICK res \in Results(e) : KernelTransfer(e, res)
      OBVIOUS
  <2>1. inflight' = inflight \ {e} /\ Post(e.owner, res, FALSE) /\ sq' = sq
      BY Zenon DEF KernelTransfer
  <2> QED BY <1>1, <2>1, FinishIsComplete, Zenon
<1>7. CASE \E e \in inflight : KernelClose(e)
  <2> PICK e \in inflight : KernelClose(e)
      BY <1>7
  <2>1. inflight' = inflight \ {e} /\ Post(e.owner, 0, FALSE) /\ sq' = sq
      BY Zenon DEF KernelClose
  <2> QED BY <1>1, <2>1, FinishIsComplete, Zenon
<1> QED BY <1>2, <1>3, <1>4, <1>5, <1>6, <1>7 DEF KernelStep

(* Until an entry is overwritten, every step of the loop and of the kernel  *)
(* is a step of the queues that Uring implements: no owner has a second     *)
(* operation under way, none is lost on its way, for a ring of any size.    *)
THEOREM RingsUsedAsQueues == Spec => UsesRingsAsQueues
<1> DEFINE First == SqOwners = <<Timer>> /\ InFlightOwners = {} /\ CqOwners = <<>>
           Step  == overrun' \/ Rings!Next \/ Rings!HandleAgain
<1>1. Init => LoopInv
    BY LoopInit
<1>2. Init => First
    BY DEF Init, SqOwners, InFlightOwners, CqOwners, TimeoutOp
<1>3. (overrun \/ LoopInv) /\ [Next]_vars => (overrun \/ LoopInv)'
    BY LoopStepInv, OverrunStays
<1>4. (overrun \/ LoopInv) /\ [Next]_vars => [Step]_(Rings!queueVars)
  <2>1. overrun /\ [Next]_vars => [Step]_(Rings!queueVars)
      BY OverrunStays
  <2>2. ASSUME LoopInv, [Next]_vars, ~overrun'
        PROVE  [Step]_(Rings!queueVars)
    <3>1. LoopInv'
        BY <2>2, LoopStepInv
    <3>2. CASE UNCHANGED vars
        BY <3>2 DEF vars, kernelVars, Rings!queueVars, SqOwners, InFlightOwners,
                    CqOwners, Idle, Outstanding, InSq, InFlight, LastInCq
    <3> QED BY <2>2, <3>1, <3>2, LoopUsesRings, KernelUsesRings DEF Next
  <2> QED BY <2>1, <2>2
<1> QED BY <1>1, <1>2, <1>3, <1>4, PTL DEF Spec, UsesRingsAsQueues
=============================================================================
