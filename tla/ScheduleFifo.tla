---------------------------- MODULE ScheduleFifo ----------------------------
(***************************************************************************)
(* What TLoop::Schedule promises: an unbounded first-in first-out queue of *)
(* operations.  Schedule makes an operation visible to the loop in one     *)
(* atomic step; the loop applies the operations one at a time, in the      *)
(* order in which they became visible, and every one of them.              *)
(***************************************************************************)
EXTENDS Sequences

CONSTANT Ops

VARIABLE queue

(***************************************************************************)
(* An operation is an intrusive list node: it is in the queue at most once *)
(* and may be scheduled again once it has been applied.                    *)
(***************************************************************************)
Enqueue(o) ==
  /\ \A i \in DOMAIN queue : queue[i] # o
  /\ queue' = Append(queue, o)

Apply ==
  /\ queue # <<>>
  /\ queue' = Tail(queue)

FifoInit == queue = <<>>
FifoNext == Apply \/ \E o \in Ops : Enqueue(o)

FifoSpec == FifoInit /\ [][FifoNext]_queue
FairFifoSpec == FifoSpec /\ WF_queue(Apply)
=============================================================================
