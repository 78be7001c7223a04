------------------------------ MODULE RingQueue ------------------------------
(***************************************************************************)
(* What the two rings of src/src/core/cg_uring.c promise the main loop:    *)
(* operations are submitted in the order in which they were enqueued, each *)
(* as it was filled, and completions are handled in the order in which     *)
(* they were posted, none lost and none twice.  Module EventLoop is        *)
(* written over queues like these, and shown to use them as such.          *)
(***************************************************************************)
EXTENDS Sequences

CONSTANT Owners    \* who may have an operation outstanding

VARIABLES sq,        \* owners of the operations enqueued and not yet taken
          inflight,  \* owners of the operations the kernel works on
          cq,        \* completions not yet handled: <<owner, more to come>>
          idle       \* owners with no operation outstanding

queueVars == <<sq, inflight, cq, idle>>

Init ==
    /\ sq = <<>>
    /\ inflight = {}
    /\ cq = <<>>
    /\ idle = Owners

Enqueue(o) ==
    /\ o \in idle
    /\ idle' = idle \ {o}
    /\ sq' = Append(sq, o)
    /\ UNCHANGED <<inflight, cq>>

Take ==
    /\ sq # <<>>
    /\ inflight' = inflight \cup {Head(sq)}
    /\ sq' = Tail(sq)
    /\ UNCHANGED <<cq, idle>>

Complete(o, more) ==
    /\ o \in inflight
    /\ cq' = Append(cq, <<o, more>>)
    /\ inflight' = IF more THEN inflight ELSE inflight \ {o}
    /\ UNCHANGED <<sq, idle>>

Handle ==
    /\ cq # <<>>
    /\ idle' = IF Head(cq)[2] THEN idle ELSE idle \cup {Head(cq)[1]}
    /\ cq' = Tail(cq)
    /\ UNCHANGED <<sq, inflight>>

(* A handler that enqueues its owner's next operation at once: Handle and   *)
(* Enqueue, for a caller whose handlers are single steps.                   *)
HandleAgain ==
    /\ cq # <<>> /\ ~Head(cq)[2]
    /\ cq' = Tail(cq)
    /\ sq' = Append(sq, Head(cq)[1])
    /\ UNCHANGED <<inflight, idle>>

Next ==
    \/ \E o \in Owners : Enqueue(o) \/ \E more \in BOOLEAN : Complete(o, more)
    \/ Take
    \/ Handle

Spec == Init /\ [][Next]_queueVars
=============================================================================
