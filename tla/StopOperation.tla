--------------------------- MODULE StopOperation ---------------------------
(***************************************************************************)
(* TLoop::TStopOperation as the timer and signal operations use it         *)
(* (schedule_after, schedule_at, after, at, upon_signal): an operation     *)
(* that waits for one event of a libuv handle on the loop thread, while    *)
(* another thread, or the completion of a sibling operation on the loop    *)
(* thread itself, may request stop.  The Used flag decides which of the    *)
(* two ends it; the handle is closed either way and the close callback     *)
(* completes the receiver.  Completion destroys the operation state.       *)
(*                                                                         *)
(* All operations share one stop source, whose request_stop runs the       *)
(* registered callbacks one after the other.  Destroying a callback waits  *)
(* until it is not executing in another thread.                            *)
(***************************************************************************)
EXTENDS Naturals

CONSTANTS
  Ops,       \* the operations
  NULL,      \* no operation
  Adaptors,  \* those that follow another sender (after, at, upon_signal)
  Faulty     \* those whose libuv calls may fail

ASSUME NullIsNoOp == NULL \notin Ops
ASSUME SomeOps == Adaptors \subseteq Ops /\ Faulty \subseteq Ops

VARIABLES
  stage,        \* "new", "queued" in the loop, waiting for its "upstream", "applied"
  handle,       \* the uv_timer_t or uv_signal_t of the operation
  fired,        \* its event has happened
  Used,         \* TStopOperation::Used
  StopCallback, \* TStopOperation::StopCallback is engaged
  registered,   \* ... and is in the list of the stop source
  stopQueued,   \* the TStopOperation is in the loop's list
  result,       \* how the operation completed, or "none"
  completions,  \* how many times
  lpc,          \* what the loop thread does next ...
  cur,          \* ... and for which operation
  requested,    \* the stop source has been asked to stop
  rpc,          \* where request_stop is
  executing,    \* the operation whose stop callback it is running
  byLoop        \* request_stop runs on the loop thread

opVars == <<stage, handle, fired>>
flagVars == <<Used, StopCallback>>
doneVars == <<result, completions>>
loopVars == <<lpc, cur>>
stopVars == <<requested, rpc, executing, byLoop>>
vars == <<opVars, flagVars, registered, stopQueued, doneVars, loopVars, stopVars>>

Alive(o) == result[o] = "none"

(***************************************************************************)
(* The type invariant.  The stop source lists only live callback objects,  *)
(* and a stop callback always has the operation it was made for.           *)
(***************************************************************************)
TypeOK ==
  /\ stage \in [Ops -> {"new", "queued", "upstream", "applied"}]
  /\ handle \in [Ops -> {"none", "init", "active", "inactive", "closing", "closed"}]
  /\ fired \in [Ops -> BOOLEAN]
  /\ Used \in [Ops -> BOOLEAN]
  /\ StopCallback \in [Ops -> BOOLEAN]
  /\ registered \in [Ops -> BOOLEAN]
  /\ stopQueued \in [Ops -> BOOLEAN]
  /\ result \in [Ops -> {"none", "value", "stopped", "error", "passed"}]
  /\ completions \in [Ops -> Nat]
  /\ lpc \in {"idle", "start", "setup", "reset", "close", "resetUnsafe", "stopping"}
  /\ cur \in Ops \cup {NULL}
  /\ requested \in BOOLEAN
  /\ rpc \in {"idle", "next", "test", "push", "fire"}
  /\ executing \in Ops \cup {NULL}
  /\ byLoop \in BOOLEAN
  /\ \A o \in Ops : registered[o] => StopCallback[o]
  /\ rpc \in {"test", "push", "fire"} <=> executing # NULL

Init ==
  /\ stage = [o \in Ops |-> "new"]
  /\ handle = [o \in Ops |-> "none"]
  /\ fired = [o \in Ops |-> FALSE]
  /\ Used = [o \in Ops |-> FALSE]
  /\ StopCallback = [o \in Ops |-> FALSE]
  /\ registered = [o \in Ops |-> FALSE]
  /\ stopQueued = [o \in Ops |-> FALSE]
  /\ result = [o \in Ops |-> "none"]
  /\ completions = [o \in Ops |-> 0]
  /\ lpc = "idle"
  /\ cur = NULL
  /\ requested = FALSE
  /\ rpc = "idle"
  /\ executing = NULL
  /\ byLoop = FALSE

LoopGoto(from, o, to) ==
  /\ lpc = from
  /\ from # "idle" => cur = o
  /\ lpc' = to
  /\ cur' = IF to \in {"idle", "stopping"} THEN NULL ELSE o

(***************************************************************************)
(* set_value, set_stopped or set_error.  What follows the completion may   *)
(* call request_stop on the spot, on the loop thread (one sibling ends the *)
(* others).                                                                *)
(***************************************************************************)
Completes(o, how) ==
  /\ result' = [result EXCEPT ![o] = how]
  /\ completions' = [completions EXCEPT ![o] = @ + 1]

CompleteFrom(from, o, how) ==
  /\ Completes(o, how)
  /\ \/ LoopGoto(from, o, "idle") /\ UNCHANGED stopVars
     \/ /\ ~requested
        /\ LoopGoto(from, o, "stopping")
        /\ requested' = TRUE /\ byLoop' = TRUE /\ rpc' = "next"
        /\ UNCHANGED executing

-----------------------------------------------------------------------------
(* Start, and Apply on the loop thread.                                    *)

(* Schedules the operation, or starts the sender an adaptor follows. *)
Start(o) ==
  /\ stage[o] = "new"
  /\ stage' = [stage EXCEPT ![o] = IF o \in Adaptors THEN "upstream" ELSE "queued"]
  /\ UNCHANGED <<handle, fired, flagVars, registered, stopQueued, doneVars, loopVars, stopVars>>

InitHandle(o) ==
  /\ stage' = [stage EXCEPT ![o] = "applied"]
  /\ handle' = [handle EXCEPT ![o] = "init"]
  /\ LoopGoto("idle", o, "start")
  /\ UNCHANGED <<fired, flagVars, registered, stopQueued, doneVars, stopVars>>

ApplyInit(o) == stage[o] = "queued" /\ InitHandle(o)

(* An adaptor does the same in set_value, on the loop thread. *)
SetValue(o) == stage[o] = "upstream" /\ InitHandle(o)

(* The receiver adaptor hands errors and stops of its upstream through. *)
UpstreamEnds(o) ==
  /\ stage[o] = "upstream"
  /\ stage' = [stage EXCEPT ![o] = "applied"]
  /\ CompleteFrom("idle", o, "passed")
  /\ UNCHANGED <<handle, fired, flagVars, registered, stopQueued>>

(***************************************************************************)
(* The error is reported, and Apply goes on with a handle that was not     *)
(* initialised.  Whatever the start makes of it, success or failure, is    *)
(* possible.                                                               *)
(***************************************************************************)
ApplyInitFails(o) ==
  /\ o \in Faulty
  /\ stage[o] \in {"queued", "upstream"}
  /\ stage' = [stage EXCEPT ![o] = "applied"]
  /\ Completes(o, "error")
  /\ LoopGoto("idle", o, "start")
  /\ UNCHANGED <<handle, fired, flagVars, registered, stopQueued, stopVars>>

StartHandle(o) ==
  /\ handle' = [handle EXCEPT ![o] = "active"]
  /\ LoopGoto("start", o, "setup")
  /\ UNCHANGED <<stage, fired, flagVars, registered, stopQueued, doneVars, stopVars>>

StartHandleFails(o) ==
  /\ o \in Faulty
  /\ CompleteFrom("start", o, "error")
  /\ UNCHANGED <<opVars, flagVars, registered, stopQueued>>

(* Setup: a stop that was requested before runs the callback right here. *)
Setup(o) ==
  /\ StopCallback' = [StopCallback EXCEPT ![o] = TRUE]
  /\ IF requested
     THEN /\ Used' = [Used EXCEPT ![o] = TRUE]
          /\ stopQueued' = [stopQueued EXCEPT ![o] = @ \/ ~Used[o]]
          /\ UNCHANGED registered
     ELSE /\ registered' = [registered EXCEPT ![o] = TRUE]
          /\ UNCHANGED <<Used, stopQueued>>
  /\ LoopGoto("setup", o, "idle")
  /\ UNCHANGED <<opVars, doneVars, stopVars>>

-----------------------------------------------------------------------------
(* The callbacks of the handle, and the stop operation.                    *)

(* Bug: the event closes the handle whoever won. *)
CloseOnEvent(o) ==
  /\ handle[o] = "active"
  /\ handle' = [handle EXCEPT ![o] = "inactive"]
  /\ fired' = [fired EXCEPT ![o] = TRUE]
  /\ Used' = [Used EXCEPT ![o] = TRUE]
  /\ LoopGoto("idle", o, "reset")
  /\ UNCHANGED <<stage, StopCallback, registered, stopQueued, doneVars, stopVars>>

(* AfterCallback, SignalCallback: Reset, first the flag, ... *)
EventCallback(o) ==
  /\ handle[o] = "active"
  /\ handle' = [handle EXCEPT ![o] = "inactive"]
  /\ fired' = [fired EXCEPT ![o] = TRUE]
  /\ Used' = [Used EXCEPT ![o] = TRUE]
  /\ LoopGoto("idle", o, IF Used[o] THEN "idle" ELSE "reset")
  /\ UNCHANGED <<stage, StopCallback, registered, stopQueued, doneVars, stopVars>>

(* StopCallback.reset() waits for the callback that is executing. *)
DestroyCallback(o) ==
  /\ executing # o
  /\ StopCallback' = [StopCallback EXCEPT ![o] = FALSE]
  /\ registered' = [registered EXCEPT ![o] = FALSE]

(* Bug: Reset drops the stop callback without taking it off the stop source. *)
DropCallback(o) ==
  /\ StopCallback' = [StopCallback EXCEPT ![o] = FALSE]
  /\ LoopGoto("reset", o, "close")
  /\ UNCHANGED <<opVars, Used, registered, stopQueued, doneVars, stopVars>>

(* ... then the callback object. *)
Reset(o) ==
  /\ DestroyCallback(o)
  /\ LoopGoto("reset", o, "close")
  /\ UNCHANGED <<opVars, Used, stopQueued, doneVars, stopVars>>

Close(o) ==
  /\ handle' = [handle EXCEPT ![o] = "closing"]
  /\ LoopGoto("close", o, "idle")
  /\ UNCHANGED <<stage, fired, flagVars, registered, stopQueued, doneVars, stopVars>>

(* The stop operation is applied: stop the handle and close it. *)
ApplyStop(o) ==
  /\ lpc = "idle"
  /\ stopQueued[o]
  /\ stopQueued' = [stopQueued EXCEPT ![o] = FALSE]
  /\ handle' = [handle EXCEPT ![o] = "closing"]
  /\ UNCHANGED <<stage, fired, flagVars, registered, doneVars, loopVars, stopVars>>

(* CloseCallback: the event won if Reset has destroyed the callback, ... *)
CloseCallbackValue(o) ==
  /\ handle[o] = "closing"
  /\ handle' = [handle EXCEPT ![o] = "closed"]
  /\ ~StopCallback[o]
  /\ CompleteFrom("idle", o, "value")
  /\ UNCHANGED <<stage, fired, flagVars, registered, stopQueued>>

(* ... and the stop won if ResetUnsafe has to destroy it. *)
CloseCallbackStopped(o) ==
  /\ handle[o] = "closing"
  /\ handle' = [handle EXCEPT ![o] = "closed"]
  /\ StopCallback[o]
  /\ LoopGoto("idle", o, "resetUnsafe")
  /\ UNCHANGED <<stage, fired, flagVars, registered, stopQueued, doneVars, stopVars>>

(* Bug: the stopped operation completes without destroying its callback. *)
CompleteWithCallback(o) ==
  /\ CompleteFrom("resetUnsafe", o, "stopped")
  /\ UNCHANGED <<opVars, flagVars, registered, stopQueued>>

(* Bug: the answer of ResetUnsafe is taken the wrong way round. *)
ValueWhenStopped(o) ==
  /\ DestroyCallback(o)
  /\ CompleteFrom("resetUnsafe", o, "value")
  /\ UNCHANGED <<opVars, Used, stopQueued>>

ResetUnsafe(o) ==
  /\ DestroyCallback(o)
  /\ CompleteFrom("resetUnsafe", o, "stopped")
  /\ UNCHANGED <<opVars, Used, stopQueued>>

-----------------------------------------------------------------------------
(* request_stop and TStopCallback::operator().                             *)

RequestStop ==
  /\ ~requested
  /\ requested' = TRUE
  /\ rpc' = "next"
  /\ UNCHANGED <<opVars, flagVars, registered, stopQueued, doneVars, loopVars, executing, byLoop>>

NextCallback(o) ==
  /\ rpc = "next"
  /\ registered[o]
  /\ registered' = [registered EXCEPT ![o] = FALSE]
  /\ executing' = o
  /\ rpc' = "test"
  /\ UNCHANGED <<opVars, flagVars, stopQueued, doneVars, loopVars, requested, byLoop>>

NoMoreCallbacks ==
  /\ rpc = "next"
  /\ \A o \in Ops : ~registered[o]
  /\ rpc' = "idle"
  /\ byLoop' = FALSE
  /\ lpc' = IF byLoop THEN "idle" ELSE lpc
  /\ UNCHANGED <<opVars, flagVars, registered, stopQueued, doneVars, cur, requested, executing>>

(* Bug: the callback schedules the stop operation whoever won. *)
StopAlways ==
  /\ rpc = "test"
  /\ Used' = [Used EXCEPT ![executing] = TRUE]
  /\ rpc' = "push"
  /\ UNCHANGED <<opVars, StopCallback, registered, stopQueued, doneVars, loopVars, requested, executing, byLoop>>

(* Bug: the callback takes the flag and schedules nothing. *)
StopWithoutSchedule ==
  /\ rpc = "test"
  /\ Used' = [Used EXCEPT ![executing] = TRUE]
  /\ rpc' = "next" /\ executing' = NULL
  /\ UNCHANGED <<opVars, StopCallback, registered, stopQueued, doneVars, loopVars, requested, byLoop>>

StopTestAndSet ==
  /\ rpc = "test"
  /\ Used' = [Used EXCEPT ![executing] = TRUE]
  /\ IF Used[executing]
     THEN rpc' = "next" /\ executing' = NULL
     ELSE rpc' = "push" /\ UNCHANGED executing
  /\ UNCHANGED <<opVars, StopCallback, registered, stopQueued, doneVars, loopVars, requested, byLoop>>

(* Schedule: PushBack, after which the loop may apply the operation, ... *)
StopPushBack ==
  /\ rpc = "push"
  /\ stopQueued' = [stopQueued EXCEPT ![executing] = TRUE]
  /\ rpc' = "fire"
  /\ UNCHANGED <<opVars, flagVars, registered, doneVars, loopVars, requested, executing, byLoop>>

(* ... and Fire. *)
StopFire ==
  /\ rpc = "fire"
  /\ rpc' = "next"
  /\ executing' = NULL
  /\ UNCHANGED <<opVars, flagVars, registered, stopQueued, doneVars, loopVars, requested, byLoop>>

-----------------------------------------------------------------------------
Handler(o) ==
  \/ ApplyInit(o) \/ SetValue(o) \/ UpstreamEnds(o) \/ ApplyInitFails(o)
  \/ StartHandle(o) \/ StartHandleFails(o) \/ Setup(o)
  \/ Reset(o) \/ Close(o) \/ ApplyStop(o)
  \/ CloseCallbackValue(o) \/ CloseCallbackStopped(o) \/ ResetUnsafe(o)

Stopping ==
  \/ NoMoreCallbacks \/ StopTestAndSet \/ StopPushBack \/ StopFire
  \/ \E o \in Ops : NextCallback(o)

Next ==
  \/ RequestStop \/ Stopping
  \/ \E o \in Ops : Start(o) \/ EventCallback(o) \/ Handler(o)

Spec == Init /\ [][Next]_vars

(***************************************************************************)
(* The loop thread and a thread inside request_stop keep running, and the  *)
(* sender an adaptor follows completes.  Whether the event happens, and    *)
(* whether anybody requests stop, is left open.                            *)
(***************************************************************************)
FairSpec == Spec /\ WF_vars(Stopping) /\ \A o \in Ops : WF_vars(Handler(o))

-----------------------------------------------------------------------------
(***************************************************************************)
(* The operation state is gone once the receiver is completed: from then   *)
(* on the loop's list, libuv, the stop source and a thread inside the stop *)
(* callback hold no pointer to it, and the loop thread is not in one of    *)
(* its functions.  (For operations whose libuv calls do not fail.)         *)
(***************************************************************************)
NoUseAfterCompletion ==
  \A o \in Ops \ Faulty : ~Alive(o) =>
    /\ stage[o] \notin {"queued", "upstream"} /\ ~stopQueued[o]
    /\ handle[o] \in {"none", "closed"}
    /\ ~registered[o] /\ executing # o
    /\ cur # o

CompletedOnce(o) == completions[o] = IF Alive(o) THEN 0 ELSE 1

(***************************************************************************)
(* Exactly one completion: event and stop never both complete the          *)
(* receiver, whatever happens to other operations of the stop source.      *)
(***************************************************************************)
CompletesOnce == \A o \in Ops \ Faulty : CompletedOnce(o)

(***************************************************************************)
(* What the receiver contract asks of the error paths of Apply and         *)
(* set_value, too: an operation that reports an error has ended.           *)
(***************************************************************************)
ErrorCompletesOnce == \A o \in Faulty : CompletedOnce(o)

(***************************************************************************)
(* uv_close aborts on a handle that is closing already: whoever is about   *)
(* to close a handle finds it open.                                        *)
(***************************************************************************)
ClosesOnce ==
  \A o \in Ops :
    /\ stopQueued[o] \/ (executing = o /\ rpc = "push") =>
         handle[o] \in {"active", "inactive"}
    /\ cur = o /\ lpc \in {"reset", "close"} =>
         handle[o] = "inactive" /\ ~stopQueued[o]

(***************************************************************************)
(* set_value only after the event, set_stopped only after a stop request.  *)
(***************************************************************************)
HonestResult ==
  \A o \in Ops \ Faulty :
    /\ result[o] = "value" => fired[o]
    /\ result[o] = "stopped" => requested

(* Who has won: the stop, if its callback is engaged and Reset is not about to destroy it. *)
RacePhase(o) ==
  IF ~Alive(o) THEN result[o]
  ELSE IF ~Used[o] THEN IF stage[o] = "applied" THEN "waiting" ELSE "fresh"
  ELSE IF StopCallback[o] /\ ~(cur = o /\ lpc = "reset") THEN "stop" ELSE "event"

(***************************************************************************)
(* The handshake between the loop thread and the thread inside             *)
(* request_stop implements StopRace: event and stop are one step each, the *)
(* first of them wins for good, the loser changes nothing, and the         *)
(* completion is the winner's.  (For operations whose libuv calls do not   *)
(* fail.)                                                                  *)
(***************************************************************************)
Race ==
  INSTANCE StopRace WITH
    Ops <- Ops \ Faulty,
    phase <- [o \in Ops \ Faulty |-> RacePhase(o)],
    fired <- [o \in Ops \ Faulty |-> fired[o]]

ImplementsStopRace == Race!Spec

(***************************************************************************)
(* A stop request ends every started operation, even one whose event never *)
(* happens, and the event ends it, even while a stop request is under way. *)
(***************************************************************************)
StopOrEventCompletes ==
  \A o \in Ops : stage[o] # "new" /\ (requested \/ fired[o]) ~> ~Alive(o)
=============================================================================
