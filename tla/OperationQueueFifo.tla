------------------------- MODULE OperationQueueFifo -------------------------
(***************************************************************************)
(* The lock-free list implements the abstract queue of ScheduleFifo.       *)
(***************************************************************************)
EXTENDS OperationQueue, SequencesExt

ASSUME OpsFinite == IsFiniteSet(Ops)

(* s lists the nodes from o on, each the Next of the one before, up to nullptr. *)
IsChain(next, o, s) ==
  /\ o = IF s = <<>> THEN NULL ELSE s[1]
  /\ \A i \in 1..Len(s) : next[s[i]] = IF i = Len(s) THEN NULL ELSE s[i + 1]

Lists == UNION {[1..n -> Ops] : n \in 0..Cardinality(Ops)}

(* The nodes reached from o through TOperation::Next. *)
Chain(next, o) == CHOOSE s \in Lists : IsChain(next, o, s)

(***************************************************************************)
(* The refinement mapping: first what the loop still has to apply of the   *)
(* list it grabbed (while it reverses the list, the part not yet turned    *)
(* round precedes the rest), then the pushed operations, newest at         *)
(* ListHead.                                                               *)
(***************************************************************************)
Grabbed ==
  CASE lpc = "reverse" -> Reverse(Chain(NextOf, cur)) \o Chain(NextOf, newTop)
    [] lpc = "apply"   -> Chain(NextOf, cur)
    [] OTHER           -> <<>>

Fifo == INSTANCE ScheduleFifo WITH queue <- Grabbed \o Reverse(Chain(NextOf, ListHead))

(***************************************************************************)
(* The safety part: an operation is enqueued once, by the compare-and-swap *)
(* of its push, and the queue only ever loses its oldest operation.        *)
(***************************************************************************)
AppliesInOrder == Fifo!FifoSpec

(***************************************************************************)
(* Every push takes effect at its compare-and-swap and the loop applies    *)
(* operations exactly once each, in the order in which they were pushed,   *)
(* although the list is a stack, nodes are reused at the same address      *)
(* (ABA) and pushes go on while a grabbed list is reversed and applied;    *)
(* and the loop never stops applying while operations are queued.          *)
(***************************************************************************)
ImplementsFifo == Fifo!FairFifoSpec
=============================================================================
