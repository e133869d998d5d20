--------------------------- MODULE OperationQueue ---------------------------
(***************************************************************************)
(* TLoop::Schedule and TLoop::ApplyOperations: the lock-free list          *)
(* TOperationList, a stack of intrusive nodes threaded through             *)
(* TOperation::Next, and the uv_async_t that tells the loop to empty it.   *)
(*                                                                         *)
(* One action is one access to an atomic or to a Next field.  The atomics  *)
(* are sequentially consistent here; the code asks for release on a        *)
(* successful push and acquire on the exchange in Grab.  An Apply that     *)
(* itself calls Schedule on the loop thread is one of the interleavings of *)
(* a scheduling thread between two steps of ApplyOperations.               *)
(***************************************************************************)

CONSTANTS
  Threads,        \* threads that call Schedule
  Ops,            \* operations, each an intrusive list node
  NULL            \* nullptr

ASSUME NullIsNoOp == NULL \notin Ops

VARIABLES
  ListHead,    \* TOperationList::Head
  NextOf,      \* TOperation::Next of every operation
  free,        \* operations that are in nobody's hands
  pc,          \* where each thread is in Schedule
  op,          \* the operation each thread is scheduling
  curTop,      \* PushBack's local curTop
  pending,     \* uv_async_t::pending
  wake,        \* the loop's wakeup descriptor is readable
  lpc,         \* where the loop thread is
  cur,         \* Grab's cur, then ApplyOperations' op
  newTop       \* Grab's newTop

listVars == <<ListHead, NextOf, free>>
producerVars == <<pc, op, curTop>>
loopVars == <<lpc, cur, newTop>>
asyncVars == <<pending, wake>>
vars == <<listVars, producerVars, asyncVars, loopVars>>

OpOrNull == Ops \cup {NULL}

ProducerPc == {"idle", "load", "link", "cas", "fire", "send", "write"}
LoopPc == {"poll", "swap", "grab", "reverse", "apply"}

(***************************************************************************)
(* The type invariant.  A thread inside PushBack holds an operation, so    *)
(* that it never writes the Next field of nullptr.                         *)
(***************************************************************************)
TypeOK ==
  /\ ListHead \in OpOrNull
  /\ NextOf \in [Ops -> OpOrNull]
  /\ free \in SUBSET Ops
  /\ pc \in [Threads -> ProducerPc]
  /\ op \in [Threads -> OpOrNull]
  /\ \A t \in Threads : pc[t] \in {"load", "link", "cas"} => op[t] \in Ops
  /\ curTop \in [Threads -> OpOrNull]
  /\ pending \in BOOLEAN
  /\ wake \in BOOLEAN
  /\ lpc \in LoopPc
  /\ cur \in OpOrNull
  /\ newTop \in OpOrNull

Init ==
  /\ ListHead = NULL
  /\ NextOf = [o \in Ops |-> NULL]
  /\ free = Ops
  /\ pc = [t \in Threads |-> "idle"]
  /\ op = [t \in Threads |-> NULL]
  /\ curTop = [t \in Threads |-> NULL]
  /\ pending = FALSE
  /\ wake = FALSE
  /\ lpc = "poll"
  /\ cur = NULL
  /\ newTop = NULL

Goto(t, from, to) ==
  /\ pc[t] = from
  /\ pc' = [pc EXCEPT ![t] = to]

LoopGoto(from, to) ==
  /\ lpc = from
  /\ lpc' = to

-----------------------------------------------------------------------------
(* Schedule(op): PushBack, then Fire.                                      *)

(***************************************************************************)
(* A thread starts an operation that nobody else holds.  An operation may  *)
(* be scheduled anew as soon as it has been applied: a repeated sync_wait  *)
(* builds its operation state at the same address.                         *)
(***************************************************************************)
Schedule(t) ==
  /\ Goto(t, "idle", "load")
  /\ \E o \in free :
       /\ op' = [op EXCEPT ![t] = o]
       /\ free' = free \ {o}
  /\ UNCHANGED <<ListHead, NextOf, curTop, asyncVars, loopVars>>

LoadTop(t) ==
  /\ Goto(t, "load", "link")
  /\ curTop' = [curTop EXCEPT ![t] = ListHead]
  /\ UNCHANGED <<listVars, op, asyncVars, loopVars>>

Link(t) ==
  /\ Goto(t, "link", "cas")
  /\ NextOf' = [NextOf EXCEPT ![op[t]] = curTop[t]]
  /\ UNCHANGED <<ListHead, free, op, curTop, asyncVars, loopVars>>

(* Bug: the push returns without the Fire that follows it. *)
CasWithoutFire(t) ==
  /\ ListHead = curTop[t]
  /\ Goto(t, "cas", "idle")
  /\ ListHead' = op[t]
  /\ op' = [op EXCEPT ![t] = NULL]
  /\ curTop' = [curTop EXCEPT ![t] = NULL]
  /\ UNCHANGED <<NextOf, free, asyncVars, loopVars>>

(* PushBack's locals end with it. *)
CasSucceeds(t) ==
  /\ ListHead = curTop[t]
  /\ Goto(t, "cas", "fire")
  /\ ListHead' = op[t]
  /\ op' = [op EXCEPT ![t] = NULL]
  /\ curTop' = [curTop EXCEPT ![t] = NULL]
  /\ UNCHANGED <<NextOf, free, asyncVars, loopVars>>

(* Bug: the failed exchange reloads the operation instead of curTop. *)
CasReloadsOp(t) ==
  /\ Goto(t, "cas", "link")
  /\ op' = [op EXCEPT ![t] = ListHead]
  /\ UNCHANGED <<listVars, curTop, asyncVars, loopVars>>

(* compare_exchange_weak may also fail when the values are equal. *)
CasFails(t) ==
  /\ Goto(t, "cas", "link")
  /\ curTop' = [curTop EXCEPT ![t] = ListHead]
  /\ UNCHANGED <<listVars, op, asyncVars, loopVars>>

(* uv_async_send: nothing to do when a notification is already pending. *)
FireCheck(t) ==
  /\ IF pending THEN Goto(t, "fire", "idle") ELSE Goto(t, "fire", "send")
  /\ UNCHANGED <<listVars, op, curTop, asyncVars, loopVars>>

(* uv_async_send: only the sender that raises the flag writes to the pipe. *)
FireSend(t) ==
  /\ IF pending THEN Goto(t, "send", "idle") ELSE Goto(t, "send", "write")
  /\ pending' = TRUE
  /\ UNCHANGED <<listVars, op, curTop, wake, loopVars>>

FireWrite(t) ==
  /\ Goto(t, "write", "idle")
  /\ wake' = TRUE
  /\ UNCHANGED <<listVars, op, curTop, pending, loopVars>>

-----------------------------------------------------------------------------
(* The loop thread: uv__async_io, then ApplyOperations.                    *)

Poll ==
  /\ wake
  /\ LoopGoto("poll", "swap")
  /\ wake' = FALSE
  /\ UNCHANGED <<listVars, producerVars, pending, cur, newTop>>

(* The flag is lowered before the callback runs. *)
AsyncIo ==
  /\ IF pending THEN LoopGoto("swap", "grab") ELSE LoopGoto("swap", "poll")
  /\ pending' = FALSE
  /\ UNCHANGED <<listVars, producerVars, wake, cur, newTop>>

(* Bug: the list is applied newest first, without the reversal. *)
GrabNewestFirst ==
  /\ LoopGoto("grab", "apply")
  /\ cur' = ListHead
  /\ ListHead' = NULL
  /\ newTop' = NULL
  /\ UNCHANGED <<NextOf, free, producerVars, asyncVars>>

Grab ==
  /\ LoopGoto("grab", "reverse")
  /\ cur' = ListHead
  /\ ListHead' = NULL
  /\ newTop' = NULL
  /\ UNCHANGED <<NextOf, free, producerVars, asyncVars>>

ReverseStep ==
  /\ lpc = "reverse"
  /\ cur # NULL
  /\ NextOf' = [NextOf EXCEPT ![cur] = newTop]
  /\ newTop' = cur
  /\ cur' = NextOf[cur]
  /\ UNCHANGED <<ListHead, free, producerVars, asyncVars, lpc>>

ReverseDone ==
  /\ cur = NULL
  /\ LoopGoto("reverse", "apply")
  /\ cur' = newTop
  /\ newTop' = NULL
  /\ UNCHANGED <<listVars, producerVars, asyncVars>>

(* Next is read first: Apply may complete the operation and free the node. *)
ApplyStep ==
  /\ lpc = "apply"
  /\ cur # NULL
  /\ cur' = NextOf[cur]
  /\ free' = free \cup {cur}
  /\ UNCHANGED <<ListHead, NextOf, producerVars, asyncVars, lpc, newTop>>

ApplyDone ==
  /\ cur = NULL
  /\ LoopGoto("apply", "poll")
  /\ UNCHANGED <<listVars, producerVars, asyncVars, cur, newTop>>

-----------------------------------------------------------------------------
InSchedule(t) ==
  \/ LoadTop(t) \/ Link(t) \/ CasSucceeds(t) \/ CasFails(t)
  \/ FireCheck(t) \/ FireSend(t) \/ FireWrite(t)

ApplyOperations ==
  Grab \/ ReverseStep \/ ReverseDone \/ ApplyStep \/ ApplyDone

LoopThread == Poll \/ AsyncIo \/ ApplyOperations

Next == LoopThread \/ \E t \in Threads : Schedule(t) \/ InSchedule(t)

Spec == Init /\ [][Next]_vars

(***************************************************************************)
(* The loop thread keeps running, and so does a thread inside Schedule.    *)
(* Nothing makes a compare-and-swap succeed: PushBack is only lock-free.   *)
(***************************************************************************)
Fairness == WF_vars(LoopThread) /\ \A t \in Threads : WF_vars(InSchedule(t))

FairSpec == Spec /\ Fairness

-----------------------------------------------------------------------------
(***************************************************************************)
(* A raised async flag always has its wakeup on the way: the descriptor is *)
(* readable, a sender is about to write to it, or the loop is about to     *)
(* look at the flag.                                                       *)
(***************************************************************************)
PendingIsDelivered ==
  pending => \/ wake
             \/ \E t \in Threads : pc[t] = "write"
             \/ lpc = "swap"

(***************************************************************************)
(* Whenever the list is not empty, the loop is about to grab it, a         *)
(* notification is pending, or the thread that pushed is still going to    *)
(* fire one.                                                               *)
(***************************************************************************)
ListIsNoticed ==
  ListHead # NULL => \/ lpc = "grab"
                     \/ pending
                     \/ \E t \in Threads : pc[t] \in {"fire", "send"}

(***************************************************************************)
(* No lost wakeup between Schedule and ApplyOperations: an operation in    *)
(* the list is never left there with nothing on its way that makes the     *)
(* loop look, whatever sends, flag tests and grabs overlap.                *)
(***************************************************************************)
NoStrandedOperation == PendingIsDelivered /\ ListIsNoticed
=============================================================================
