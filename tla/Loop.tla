-------------------------------- MODULE Loop --------------------------------
(***************************************************************************)
(* TLoop shared by several threads: sync_wait, run, run_once and drain.    *)
(*                                                                         *)
(* At most one thread at a time is inside uv_run.  A thread that finds     *)
(* the loop running puts its TRunner into Runners and waits; the thread    *)
(* that leaves uv_run wakes the next runner.  A sync_wait ends when its    *)
(* sender completes on the loop, in whichever thread's uv_run that is.     *)
(*                                                                         *)
(* A TRunner lives on the stack of the thread that waits, and so does the  *)
(* one operation that a sync_wait has on the loop at a time, so both are   *)
(* named by the thread.  opAt says where the operation is.  The order of   *)
(* scheduled operations is left open here; ScheduleFifo is about it.       *)
(***************************************************************************)
EXTENDS Naturals, SequencesExt

CONSTANTS
  Threads,     \* the threads that share the loop
  NULL,        \* no thread
  Modes,       \* which entry points are called
  Kinds,       \* which senders are passed to sync_wait
  MaxCalls     \* bound on the number of calls each thread makes

AllModes == {"sync_wait", "run", "run_once", "drain"}

(***************************************************************************)
(* schedule: schedule(loop); finish: the same, then loop.finish();         *)
(* timer: a timer started on the loop; transfer: work on another thread    *)
(* that is transferred to the loop; throw: schedule(loop) with a value     *)
(* that throws when it is stored.                                          *)
(***************************************************************************)
AllKinds == {"schedule", "finish", "timer", "transfer", "throw"}

ASSUME NullIsNoThread == NULL \notin Threads
ASSUME ModesAndKinds == Modes \subseteq AllModes /\ Kinds \subseteq AllKinds
ASSUME MaxCallsNat == MaxCalls \in Nat

VARIABLES
  pc,            \* where each thread is
  mode,          \* the entry point it called
  kind,          \* the sender it passed to sync_wait
  RunMtx,        \* the thread that holds the mutex, or NULL
  Running,       \* TLoop::Running
  Runners,       \* TLoop::Runners, the most recent runner first
  Awakenings,    \* TRunner::Awakenings
  Acq,           \* TRunner::Acq
  wakeups,       \* TRunner::Wait's local wakeups
  target,        \* WakeupNext's local next, or NULL
  stopFlag,      \* uv_loop_t::stop_flag
  asyncPending,  \* a notification of the Async handle is pending
  opAt,          \* where the operation of each sync_wait is
  foreign,       \* the other thread of a transfer: what it does next
  calls,         \* number of calls so far
  dest,          \* the result variable of each sync_wait holds a result
  receiver,      \* the sync_wait whose receiver the loop thread completes, or NULL
  signal,        \* what that receiver does next
  frame,         \* which of the calls of that thread the receiver belongs to
  undefined      \* a receiver was used after its sync_wait had returned

runnerVars == <<Awakenings, Acq, wakeups>>
lockVars == <<RunMtx, Running, Runners, target>>
uvVars == <<stopFlag, asyncPending, opAt>>
callVars == <<mode, kind, calls>>
signalVars == <<dest, receiver, signal, frame, undefined>>
vars == <<pc, callVars, lockVars, runnerVars, uvVars, foreign, signalVars>>

UvRunPc == {"uv_enter", "turn", "poll", "apply", "closing", "timers"}
WaitPc == {"wait", "blocked", "erase"}
PcSet == UvRunPc \cup WaitPc \cup
  {"idle", "push", "fire", "check", "lock", "relock", "wakenext", "wakeup"}
OpPlaces ==
  {"none", "foreign", "start", "scheduled", "batch", "armed", "due", "closing"}
Signals == {"none", "signal", "notify", "error_signal", "error_notify", "signal_again"}

(* The type invariant. *)
TypeOK ==
  /\ pc \in [Threads -> PcSet]
  /\ mode \in [Threads -> AllModes]
  /\ kind \in [Threads -> AllKinds]
  /\ RunMtx \in Threads \cup {NULL}
  /\ Running \in BOOLEAN
  /\ Runners \in Seq(Threads)
  /\ Awakenings \in [Threads -> Nat]
  /\ Acq \in [Threads -> BOOLEAN]
  /\ wakeups \in [Threads -> Nat]
  /\ target \in Threads \cup {NULL}
  /\ stopFlag \in BOOLEAN
  /\ asyncPending \in BOOLEAN
  /\ opAt \in [Threads -> OpPlaces]
  /\ foreign \in [Threads -> {"none", "push", "fire"}]
  /\ calls \in [Threads -> Nat]
  /\ dest \in [Threads -> BOOLEAN]
  /\ receiver \in Threads \cup {NULL}
  /\ signal \in Signals
  /\ frame \in Nat
  /\ undefined \in BOOLEAN

Init ==
  /\ pc = [t \in Threads |-> "idle"]
  /\ mode = [t \in Threads |-> "run"]
  /\ kind = [t \in Threads |-> "schedule"]
  /\ RunMtx = NULL
  /\ Running = FALSE
  /\ Runners = <<>>
  /\ Awakenings = [t \in Threads |-> 0]
  /\ Acq = [t \in Threads |-> FALSE]
  /\ wakeups = [t \in Threads |-> 0]
  /\ target = NULL
  /\ stopFlag = FALSE
  /\ asyncPending = FALSE
  /\ opAt = [t \in Threads |-> "none"]
  /\ foreign = [t \in Threads |-> "none"]
  /\ calls = [t \in Threads |-> 0]
  /\ dest = [t \in Threads |-> FALSE]
  /\ receiver = NULL /\ signal = "none" /\ frame = 0
  /\ undefined = FALSE

Goto(t, from, to) ==
  /\ pc[t] = from
  /\ pc' = [pc EXCEPT ![t] = to]

InUvRun(t) == pc[t] \in UvRunPc

(* TRunner::Finished *)
Finished(t) == Awakenings[t] = 0

-----------------------------------------------------------------------------
(* The calls.                                                              *)

(* Bug: the counter starts below the value that means finished. *)
RunnerFromMinusOne(t) ==
  /\ Awakenings' = [Awakenings EXCEPT ![t] = 0 - 1]
  /\ Acq' = [Acq EXCEPT ![t] = FALSE]
  /\ calls[t] < MaxCalls
  /\ calls' = [calls EXCEPT ![t] = @ + 1]

(* A new TRunner. *)
NewRunner(t) ==
  /\ Awakenings' = [Awakenings EXCEPT ![t] = 1]
  /\ Acq' = [Acq EXCEPT ![t] = FALSE]
  /\ calls[t] < MaxCalls
  /\ calls' = [calls EXCEPT ![t] = @ + 1]

(* sync_wait connects and starts a sender that begins on the loop, ... *)
SyncWait(t, k) ==
  /\ Goto(t, "idle", "push")
  /\ k # "transfer"
  /\ NewRunner(t)
  /\ mode' = [mode EXCEPT ![t] = "sync_wait"]
  /\ kind' = [kind EXCEPT ![t] = k]
  /\ opAt' = [opAt EXCEPT ![t] = "start"]
  /\ dest' = [dest EXCEPT ![t] = FALSE]
  /\ UNCHANGED <<lockVars, wakeups, stopFlag, asyncPending, foreign>>
  /\ UNCHANGED <<receiver, signal, frame, undefined>>

(* ... or one that begins elsewhere and comes to the loop by itself. *)
SyncWaitTransfer(t) ==
  /\ Goto(t, "idle", "check")
  /\ foreign[t] = "none"
  /\ NewRunner(t)
  /\ mode' = [mode EXCEPT ![t] = "sync_wait"]
  /\ kind' = [kind EXCEPT ![t] = "transfer"]
  /\ opAt' = [opAt EXCEPT ![t] = "foreign"]
  /\ foreign' = [foreign EXCEPT ![t] = "push"]
  /\ dest' = [dest EXCEPT ![t] = FALSE]
  /\ UNCHANGED <<lockVars, wakeups, stopFlag, asyncPending>>
  /\ UNCHANGED <<receiver, signal, frame, undefined>>

(* run, run_once and drain *)
Run(t, m) ==
  /\ Goto(t, "idle", "lock")
  /\ m # "sync_wait"
  /\ NewRunner(t)
  /\ mode' = [mode EXCEPT ![t] = m]
  /\ UNCHANGED <<kind, lockVars, wakeups, uvVars, foreign, signalVars>>

(* Schedule, the two halves: PushBack and Fire. *)
PushBack(t) ==
  /\ Goto(t, "push", "fire")
  /\ opAt' = [opAt EXCEPT ![t] = "scheduled"]
  /\ UNCHANGED <<callVars, lockVars, runnerVars, stopFlag, asyncPending, foreign, signalVars>>

Fire(t) ==
  /\ Goto(t, "fire", "check")
  /\ asyncPending' = TRUE
  /\ UNCHANGED <<callVars, lockVars, runnerVars, stopFlag, opAt, foreign, signalVars>>

(* The same, on the thread that transfers to the loop. *)
ForeignPushBack(t) ==
  /\ foreign[t] = "push"
  /\ foreign' = [foreign EXCEPT ![t] = "fire"]
  /\ opAt' = [opAt EXCEPT ![t] = "scheduled"]
  /\ UNCHANGED <<pc, callVars, lockVars, runnerVars, stopFlag, asyncPending, signalVars>>

ForeignFire(t) ==
  /\ foreign[t] = "fire"
  /\ foreign' = [foreign EXCEPT ![t] = "none"]
  /\ asyncPending' = TRUE
  /\ UNCHANGED <<pc, callVars, lockVars, runnerVars, stopFlag, opAt, signalVars>>

-----------------------------------------------------------------------------
(* RunnerSteal, and the loops of run, run_once and drain.                  *)

(* Bug: the waiting thread calls finish() itself, after its runner finished. *)
StopOnReturn(t) ==
  /\ IF Finished(t) THEN Goto(t, "check", "idle") ELSE Goto(t, "check", "lock")
  /\ stopFlag' = (stopFlag \/ (Finished(t) /\ Acq[t]))
  /\ UNCHANGED <<callVars, lockVars, runnerVars, asyncPending, opAt, foreign, signalVars>>

(* while (!runner.Finished()), and sync_wait returns when it is. *)
CheckFinished(t) ==
  /\ IF Finished(t) THEN Goto(t, "check", "idle") ELSE Goto(t, "check", "lock")
  /\ UNCHANGED <<callVars, lockVars, runnerVars, uvVars, foreign, signalVars>>

(* Bug: a finished runner takes the loop as well. *)
AcquireAlways(t) == TRUE

(***************************************************************************)
(* Under the mutex: the loop is free and the thread takes it (RunLocked    *)
(* sets Running and unlocks).  AcquireIfNotFinished sets Acq only for an   *)
(* unfinished runner, but returns whatever Acq is.                         *)
(***************************************************************************)
AcquireIfNotFinished(t) ==
  mode[t] = "sync_wait" => ~Finished(t) \/ Acq[t]

(* Bug: the thread does not look at Running. *)
TakeRunningLoop(t) ==
  /\ RunMtx = NULL
  /\ AcquireIfNotFinished(t)
  /\ Acq' = [Acq EXCEPT ![t] = @ \/ mode[t] = "sync_wait"]
  /\ Running' = TRUE
  /\ Goto(t, "lock", "uv_enter")
  /\ UNCHANGED <<callVars, RunMtx, Runners, target, Awakenings, wakeups, uvVars, foreign, signalVars>>

TakeLoop(t) ==
  /\ RunMtx = NULL
  /\ ~Running
  /\ AcquireIfNotFinished(t)
  /\ Acq' = [Acq EXCEPT ![t] = @ \/ mode[t] = "sync_wait"]
  /\ Running' = TRUE
  /\ Goto(t, "lock", "uv_enter")
  /\ UNCHANGED <<callVars, RunMtx, Runners, target, Awakenings, wakeups, uvVars, foreign, signalVars>>

(* The runner finished while it waited for the mutex: pass the loop on. *)
LeaveLoop(t) ==
  /\ RunMtx = NULL
  /\ ~Running
  /\ ~AcquireIfNotFinished(t)
  /\ RunMtx' = t
  /\ Goto(t, "lock", "wakenext")
  /\ UNCHANGED <<callVars, Running, Runners, target, runnerVars, uvVars, foreign, signalVars>>

(* The loop is taken: queue up, unlock and wait. *)
AddRunner(t) ==
  /\ RunMtx = NULL
  /\ Running
  /\ Runners' = <<t>> \o Runners
  /\ Goto(t, "lock", "wait")
  /\ UNCHANGED <<callVars, RunMtx, Running, target, runnerVars, uvVars, foreign, signalVars>>

(* TRunner::Wait: the first load, after the mutex was released, ... *)
LoadWakeups(t) ==
  /\ wakeups' = [wakeups EXCEPT ![t] = Awakenings[t]]
  /\ Goto(t, "wait", "blocked")
  /\ UNCHANGED <<callVars, lockVars, Awakenings, Acq, uvVars, foreign, signalVars>>

(* Bug: the thread waits for a Wakeup and overlooks Finish. *)
AwakeOnWakeup(t) ==
  /\ Awakenings[t] > wakeups[t]
  /\ wakeups' = [wakeups EXCEPT ![t] = 0]
  /\ Goto(t, "blocked", "erase")
  /\ UNCHANGED <<callVars, lockVars, Awakenings, Acq, uvVars, foreign, signalVars>>

(* ... and the wait for another value. *)
Awake(t) ==
  /\ wakeups[t] = 0 \/ Awakenings[t] # wakeups[t]
  /\ wakeups' = [wakeups EXCEPT ![t] = 0]
  /\ Goto(t, "blocked", "erase")
  /\ UNCHANGED <<callVars, lockVars, Awakenings, Acq, uvVars, foreign, signalVars>>

(* Bug: the runner stays in the list. *)
LeaveLinked(t) ==
  /\ RunMtx = NULL
  /\ Goto(t, "erase", IF mode[t] = "sync_wait" THEN "check" ELSE "lock")
  /\ UNCHANGED <<callVars, lockVars, runnerVars, uvVars, foreign, signalVars>>

(* Bug: a woken sync_wait returns without asking whether it is finished. *)
EraseAndReturn(t) ==
  /\ RunMtx = NULL
  /\ Runners' = SelectSeq(Runners, LAMBDA u : u # t)
  /\ Goto(t, "erase", IF mode[t] = "sync_wait" THEN "idle" ELSE "lock")
  /\ UNCHANGED <<callVars, RunMtx, Running, target, runnerVars, uvVars, foreign, signalVars>>

(* Erase does nothing to a runner that is no longer linked. *)
EraseRunner(t) ==
  /\ RunMtx = NULL
  /\ IF Contains(Runners, t)
     THEN \E i \in DOMAIN Runners :
            /\ Runners[i] = t
            /\ Runners' = RemoveAt(Runners, i)
     ELSE UNCHANGED Runners
  /\ Goto(t, "erase", IF mode[t] = "sync_wait" THEN "check" ELSE "lock")
  /\ UNCHANGED <<callVars, RunMtx, Running, target, runnerVars, uvVars, foreign, signalVars>>

-----------------------------------------------------------------------------
(* uv_run, as the thread t that is inside it executes it.                  *)

FireTimers == [u \in Threads |-> IF opAt[u] = "due" THEN "closing" ELSE opAt[u]]

(* UV_RUN_DEFAULT runs the due timers first. *)
UvEnter(t) ==
  /\ Goto(t, "uv_enter", "turn")
  /\ opAt' = IF mode[t] \in {"sync_wait", "run"} /\ ~stopFlag
             THEN FireTimers ELSE opAt
  /\ UNCHANGED <<callVars, lockVars, runnerVars, stopFlag, asyncPending, foreign, signalVars>>

(* The head of the loop in uv_run; on its way out it clears stop_flag. *)
Turn(t) ==
  /\ IF stopFlag THEN Goto(t, "turn", "relock") ELSE Goto(t, "turn", "poll")
  /\ stopFlag' = FALSE
  /\ UNCHANGED <<callVars, lockVars, runnerVars, asyncPending, opAt, foreign, signalVars>>

(* The Async handle is ready: ApplyOperations grabs what is scheduled. *)
PollAsync(t) ==
  /\ asyncPending
  /\ asyncPending' = FALSE
  /\ opAt' = [u \in Threads |-> IF opAt[u] = "scheduled" THEN "batch" ELSE opAt[u]]
  /\ Goto(t, "poll", "apply")
  /\ UNCHANGED <<callVars, lockVars, runnerVars, stopFlag, foreign, signalVars>>

(* A timer is due, a handle is closing, or the call must not block. *)
PollTimeout(t) ==
  /\ mode[t] = "drain" \/ \E u \in Threads : opAt[u] \in {"due", "closing"}
  /\ Goto(t, "poll", "closing")
  /\ UNCHANGED <<callVars, lockVars, runnerVars, uvVars, foreign, signalVars>>

(* The loop thread is inside no receiver. *)
CallbackReturned == signal = "none"

(***************************************************************************)
(* set_value of the receiver of u's sync_wait: the result is stored, in    *)
(* the frame of the call that u is in.  If storing it throws, set_error    *)
(* stores the exception and signals first, and set_value signals again.    *)
(***************************************************************************)
SetValue(u, stop) ==
  /\ CallbackReturned
  /\ stopFlag' = (stopFlag \/ stop)
  /\ opAt' = [opAt EXCEPT ![u] = "none"]
  /\ dest' = [dest EXCEPT ![u] = TRUE]
  /\ receiver' = u /\ frame' = calls[u]
  /\ signal' = IF kind[u] = "throw" THEN "error_signal" ELSE "signal"
  /\ UNCHANGED undefined

(* The call that the receiver belongs to has not returned. *)
FrameAlive == pc[receiver] # "idle" /\ calls[receiver] = frame

AfterSignal == IF signal = "error_signal" THEN "error_notify" ELSE "notify"

(***************************************************************************)
(* The wakeup of sync_wait: finish() if its runner has acquired the loop,  *)
(* then the store of TRunner::Finish, from where on u may return.          *)
(***************************************************************************)
Signal(t) ==
  /\ InUvRun(t)
  /\ signal \in {"signal", "error_signal", "signal_again"} /\ FrameAlive
  /\ stopFlag' = (stopFlag \/ Acq[receiver])
  /\ Awakenings' = [Awakenings EXCEPT ![receiver] = 0]
  /\ signal' = AfterSignal
  /\ UNCHANGED <<pc, callVars, lockVars, Acq, wakeups, asyncPending, opAt, foreign>>
  /\ UNCHANGED <<dest, receiver, frame, undefined>>

(***************************************************************************)
(* The same on a frame that is gone, which is undefined: what is read as   *)
(* Acq may be either, and the store hits nothing or the runner of a later  *)
(* call of the same thread.                                                *)
(***************************************************************************)
SignalLate(t, stop, hit) ==
  /\ InUvRun(t)
  /\ signal \in {"signal", "error_signal", "signal_again"} /\ ~FrameAlive
  /\ stopFlag' = (stopFlag \/ stop)
  /\ Awakenings' = IF hit THEN [Awakenings EXCEPT ![receiver] = 0] ELSE Awakenings
  /\ signal' = AfterSignal
  /\ undefined' = TRUE
  /\ UNCHANGED <<pc, callVars, lockVars, Acq, wakeups, asyncPending, opAt, foreign>>
  /\ UNCHANGED <<dest, receiver, frame>>

(***************************************************************************)
(* notify_one of TRunner::Finish, without the mutex.  It uses the address  *)
(* of Awakenings only: it wakes u, which can also have seen the new value  *)
(* by itself, and does nothing if u has returned.                          *)
(***************************************************************************)
Notify(t) ==
  /\ InUvRun(t)
  /\ \/ signal = "notify" /\ signal' = "none" /\ receiver' = NULL /\ frame' = 0
     \/ signal = "error_notify" /\ signal' = "signal_again" /\ UNCHANGED <<receiver, frame>>
  /\ UNCHANGED <<pc, callVars, lockVars, runnerVars, uvVars, foreign, dest, undefined>>

(* Apply of one grabbed operation. *)
ApplySchedule(t, u) ==
  /\ pc[t] = "apply"
  /\ opAt[u] = "batch"
  /\ kind[u] # "timer"
  /\ SetValue(u, kind[u] = "finish")
  /\ UNCHANGED <<pc, callVars, lockVars, runnerVars, asyncPending, foreign>>

ApplyTimer(t, u) ==
  /\ pc[t] = "apply" /\ CallbackReturned
  /\ opAt[u] = "batch"
  /\ kind[u] = "timer"
  /\ opAt' = [opAt EXCEPT ![u] = "armed"]
  /\ UNCHANGED <<pc, callVars, lockVars, runnerVars, stopFlag, asyncPending, foreign, signalVars>>

ApplyDone(t) ==
  /\ CallbackReturned
  /\ \A u \in Threads : opAt[u] # "batch"
  /\ Goto(t, "apply", "closing")
  /\ UNCHANGED <<callVars, lockVars, runnerVars, uvVars, foreign, signalVars>>

(* The close callback of a timer completes its operation. *)
CloseCallback(t, u) ==
  /\ pc[t] = "closing"
  /\ opAt[u] = "closing"
  /\ SetValue(u, FALSE)
  /\ UNCHANGED <<pc, callVars, lockVars, runnerVars, asyncPending, foreign>>

ClosingDone(t) ==
  /\ CallbackReturned
  /\ \A u \in Threads : opAt[u] # "closing"
  /\ Goto(t, "closing", "timers")
  /\ UNCHANGED <<callVars, lockVars, runnerVars, uvVars, foreign, signalVars>>

(* Only UV_RUN_DEFAULT goes round again. *)
RunTimers(t) ==
  /\ opAt' = FireTimers
  /\ IF mode[t] \in {"sync_wait", "run"}
     THEN Goto(t, "timers", "turn") /\ UNCHANGED stopFlag
     ELSE Goto(t, "timers", "relock") /\ stopFlag' = FALSE
  /\ UNCHANGED <<callVars, lockVars, runnerVars, asyncPending, foreign, signalVars>>

(* Time passes: an armed timer becomes due. *)
Elapse(u) ==
  /\ opAt[u] = "armed"
  /\ opAt' = [opAt EXCEPT ![u] = "due"]
  /\ UNCHANGED <<pc, callVars, lockVars, runnerVars, stopFlag, asyncPending, foreign, signalVars>>

-----------------------------------------------------------------------------
(* The end of RunLocked, and WakeupNext, under the mutex.                  *)

RelockAfterRun(t) ==
  /\ RunMtx = NULL
  /\ RunMtx' = t
  /\ Running' = FALSE
  /\ Goto(t, "relock", "wakenext")
  /\ UNCHANGED <<callVars, Runners, target, runnerVars, uvVars, foreign, signalVars>>

(* Back to the loop of RunnerSteal; the other calls return. *)
AfterRun(t) == IF mode[t] = "sync_wait" THEN "check" ELSE "idle"

WakeupNextNobody(t) ==
  /\ Runners = <<>>
  /\ RunMtx' = NULL
  /\ Goto(t, "wakenext", AfterRun(t))
  /\ UNCHANGED <<callVars, Running, Runners, target, runnerVars, uvVars, foreign, signalVars>>

(* Bug: the popped runner is woken even if it is finished. *)
WakeupAnyNext(t) ==
  /\ Runners # <<>>
  /\ Runners' = Tail(Runners)
  /\ target' = Head(Runners)
  /\ Goto(t, "wakenext", "wakeup")
  /\ UNCHANGED <<callVars, RunMtx, Running, runnerVars, uvVars, foreign, signalVars>>

(* Pop; a finished runner is dropped and the next one is tried. *)
WakeupNextPop(t) ==
  /\ Runners # <<>>
  /\ Runners' = Tail(Runners)
  /\ IF Finished(Head(Runners))
     THEN Goto(t, "wakenext", "wakenext") /\ UNCHANGED target
     ELSE Goto(t, "wakenext", "wakeup") /\ target' = Head(Runners)
  /\ UNCHANGED <<callVars, RunMtx, Running, runnerVars, uvVars, foreign, signalVars>>

(* TRunner::Wakeup *)
Wakeup(t) ==
  /\ Goto(t, "wakeup", AfterRun(t))
  /\ Awakenings' = [Awakenings EXCEPT ![target] = @ + 1]
  /\ target' = NULL
  /\ RunMtx' = NULL
  /\ UNCHANGED <<callVars, Running, Runners, Acq, wakeups, uvVars, foreign, signalVars>>

-----------------------------------------------------------------------------
Calls(t) ==
  \/ "sync_wait" \in Modes /\ \E k \in Kinds : SyncWait(t, k)
  \/ "sync_wait" \in Modes /\ "transfer" \in Kinds /\ SyncWaitTransfer(t)
  \/ \E m \in Modes : Run(t, m)

Steps(t) ==
  \/ PushBack(t) \/ Fire(t) \/ CheckFinished(t)
  \/ TakeLoop(t) \/ LeaveLoop(t) \/ AddRunner(t)
  \/ LoadWakeups(t) \/ Awake(t) \/ EraseRunner(t)
  \/ RelockAfterRun(t)
  \/ WakeupNextNobody(t) \/ WakeupNextPop(t) \/ Wakeup(t)

UvRun(t) ==
  \/ UvEnter(t) \/ Turn(t) \/ PollAsync(t) \/ PollTimeout(t)
  \/ ApplyDone(t) \/ ClosingDone(t) \/ RunTimers(t)
  \/ Signal(t) \/ Notify(t) \/ \E stop, hit \in BOOLEAN : SignalLate(t, stop, hit)
  \/ \E u \in Threads : ApplySchedule(t, u) \/ ApplyTimer(t, u) \/ CloseCallback(t, u)

Environment(t) == ForeignPushBack(t) \/ ForeignFire(t) \/ Elapse(t)

Next == \E t \in Threads : Calls(t) \/ Steps(t) \/ UvRun(t) \/ Environment(t)

Spec == Init /\ [][Next]_vars

(***************************************************************************)
(* Every thread that can move does, the mutex is released when it is held  *)
(* and calls are finitely many, so that weak fairness is enough.           *)
(***************************************************************************)
Fairness ==
  \A t \in Threads :
    WF_vars(Steps(t)) /\ WF_vars(UvRun(t)) /\ WF_vars(Environment(t))

FairSpec == Spec /\ Fairness

-----------------------------------------------------------------------------
(* Between taking the loop and clearing Running. *)
HasLoop(t) == InUvRun(t) \/ pc[t] = "relock"

InSyncWait(t) == mode[t] = "sync_wait" /\ pc[t] # "idle"

(***************************************************************************)
(* libuv's loop is not thread safe: no two threads are ever inside uv_run  *)
(* at once, although the mutex is released before uv_run is entered, and   *)
(* Running tells exactly whether there is such a thread.                   *)
(***************************************************************************)
OneLoopThread ==
  /\ \A t, u \in Threads : HasLoop(t) /\ HasLoop(u) => t = u
  /\ Running <=> \E t \in Threads : HasLoop(t)

(* The receiver of t has its result and is about to signal for the first time. *)
Signalling(t) == receiver = t /\ signal \in {"signal", "error_signal"}

(***************************************************************************)
(* The operation, its receiver, the result and the runner of a sync_wait   *)
(* live on its stack.  The loop, and another thread that transfers to it,  *)
(* use them only while the sync_wait waits, up to the store that finishes  *)
(* its runner: it returns with its result, never while the operation is    *)
(* anywhere on its way, and it never waits for an operation that is lost.  *)
(* What may come late is the notify_one after that store, and the second   *)
(* signal of a result that threw; once that has hit a frame that is gone   *)
(* nothing is claimed.                                                     *)
(***************************************************************************)
FrameOutlivesUse ==
  ~undefined =>
    \A t \in Threads :
      /\ opAt[t] # "none" \/ Signalling(t) <=> InSyncWait(t) /\ ~Finished(t)
      /\ Signalling(t) => FrameAlive
      /\ InSyncWait(t) /\ Finished(t) => dest[t]

(***************************************************************************)
(* TRunner is an intrusive node on a stack: every runner in Runners, and   *)
(* the one that WakeupNext has popped and is about to wake, belongs to a   *)
(* thread that is still waiting and will erase it under the mutex.  No     *)
(* runner is linked twice.  This is about references that are used under   *)
(* the mutex; FrameOutlivesUse is about those of a completion.             *)
(***************************************************************************)
RunnersAlive ==
  /\ \A i \in DOMAIN Runners : pc[Runners[i]] \in WaitPc
  /\ \A i, j \in DOMAIN Runners : Runners[i] = Runners[j] => i = j
  /\ target # NULL => pc[target] \in WaitPc

(***************************************************************************)
(* Wakeup tests Finished and then increments the same counter that Finish  *)
(* sets to 0.  The two never cross: a finished runner stays finished, so   *)
(* that a completed sync_wait cannot go back to waiting.                   *)
(***************************************************************************)
FinishedIsSticky ==
  [][\A t \in Threads : pc[t] # "idle" /\ Finished(t) => Finished(t)']_vars

(***************************************************************************)
(* uv_stop is meant for the uv_run that is executing: no stop request is   *)
(* left over for a later uv_run, which would return without running.       *)
(***************************************************************************)
NoStaleStop == stopFlag => \E t \in Threads : InUvRun(t)

(***************************************************************************)
(* A completion that calls finish() stops the uv_run of its own sync_wait, *)
(* never the run() of another thread, and a finished sync_wait does not go *)
(* into uv_run, where nothing would stop it any more.  Acq is what decides *)
(* both.                                                                   *)
(***************************************************************************)
AcquiredMeansRunning ==
  \A t \in Threads :
    /\ InSyncWait(t) /\ ~Finished(t) /\ Acq[t] => InUvRun(t)
    /\ InSyncWait(t) /\ InUvRun(t) /\ Finished(t) => stopFlag

-----------------------------------------------------------------------------
(***************************************************************************)
(* Every sync_wait returns.                                                *)
(***************************************************************************)
SyncWaitReturns == \A t \in Threads : InSyncWait(t) ~> ~InSyncWait(t)

(***************************************************************************)
(* A sync_wait whose sender has completed returns.                         *)
(***************************************************************************)
CompletedSyncWaitReturns ==
  \A t \in Threads : InSyncWait(t) /\ Finished(t) ~> ~InSyncWait(t)

(***************************************************************************)
(* Every sync_wait returns as long as some thread stays in run(), however  *)
(* the two threads raced for the loop before.                              *)
(***************************************************************************)
Driven == \E t \in Threads : mode[t] = "run" /\ InUvRun(t)

SyncWaitReturnsWhenDriven == <>[]Driven => SyncWaitReturns
=============================================================================
