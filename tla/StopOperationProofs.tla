------------------------ MODULE StopOperationProofs ------------------------
(***************************************************************************)
(* The safety of StopOperation for any number of operations under one stop *)
(* source, beside others whose libuv calls may fail.  The inductive        *)
(* invariant says that every operation that does not fail is in exactly    *)
(* one of the phases below; each phase names who may still refer to the    *)
(* operation and who will close its handle.  From the phases follows that  *)
(* the operations implement StopRace.                                      *)
(***************************************************************************)
EXTENDS StopOperation, TLAPS

(* Nothing but the flag Used and the handle tells these phases apart. *)
Untouched(o) == ~fired[o] /\ ~Used[o]

(* The stop source has no pointer to the operation. *)
Unlisted(o) == ~registered[o] /\ executing # o

(* Not applied yet. *)
Fresh(o) ==
  /\ stage[o] \in {"new", "queued", "upstream"}
  /\ handle[o] = "none"
  /\ Alive(o) /\ cur # o
  /\ Untouched(o) /\ ~StopCallback[o] /\ Unlisted(o) /\ ~stopQueued[o]

(* Inside Apply. *)
Starting(o) ==
  /\ stage[o] = "applied"
  /\ cur = o
  /\ \/ lpc = "start" /\ handle[o] = "init"
     \/ lpc = "setup" /\ handle[o] = "active"
  /\ Alive(o)
  /\ Untouched(o) /\ ~StopCallback[o] /\ Unlisted(o) /\ ~stopQueued[o]

(* Waiting for the event or for a stop request, neither of which has won. *)
Waiting(o) ==
  /\ stage[o] = "applied"
  /\ handle[o] = "active"
  /\ Alive(o) /\ cur # o
  /\ Untouched(o) /\ StopCallback[o] /\ ~stopQueued[o]
  /\ executing = o => rpc = "test" /\ ~registered[o]

(* The stop has won: its callback schedules, or has scheduled, the stop. *)
StopWon(o) ==
  /\ stage[o] = "applied"
  /\ handle[o] \in {"active", "inactive"}
  /\ Alive(o) /\ cur # o
  /\ Used[o] /\ StopCallback[o] /\ ~registered[o] /\ requested
  /\ IF stopQueued[o] THEN executing = o => rpc = "fire"
                      ELSE executing = o /\ rpc = "push"

(* The event has won and its callback is running. *)
EventWon(o) ==
  /\ stage[o] = "applied"
  /\ handle[o] = "inactive"
  /\ Alive(o) /\ cur = o
  /\ Used[o] /\ fired[o] /\ ~stopQueued[o]
  /\ \/ lpc = "reset" /\ StopCallback[o]
        /\ (executing = o => rpc = "test" /\ ~registered[o])
     \/ lpc = "close" /\ ~StopCallback[o] /\ Unlisted(o)

(* The handle is being closed after the event. *)
EventClosing(o) ==
  /\ stage[o] = "applied"
  /\ handle[o] = "closing"
  /\ Alive(o) /\ cur # o
  /\ Used[o] /\ fired[o] /\ ~StopCallback[o] /\ Unlisted(o) /\ ~stopQueued[o]

(* ... or after a stop, whose callback may not have returned yet. *)
StopClosing(o) ==
  /\ stage[o] = "applied"
  /\ \/ handle[o] = "closing" /\ cur # o
     \/ handle[o] = "closed" /\ cur = o /\ lpc = "resetUnsafe"
  /\ Alive(o)
  /\ Used[o] /\ StopCallback[o] /\ ~registered[o] /\ ~stopQueued[o] /\ requested
  /\ executing = o => rpc = "fire"

(* Completed: nobody knows the operation any more. *)
Done(o) ==
  /\ stage[o] = "applied"
  /\ handle[o] = "closed"
  /\ cur # o
  /\ Used[o] /\ ~StopCallback[o] /\ Unlisted(o) /\ ~stopQueued[o]
  /\ \/ result[o] = "value" /\ fired[o]
     \/ result[o] = "stopped" /\ requested

(* Completed by what came from its upstream, before it did anything. *)
Passed(o) ==
  /\ stage[o] = "applied"
  /\ handle[o] = "none"
  /\ cur # o
  /\ Untouched(o) /\ ~StopCallback[o] /\ Unlisted(o) /\ ~stopQueued[o]
  /\ result[o] = "passed"

Phase(o) ==
  \/ Fresh(o) \/ Starting(o) \/ Waiting(o) \/ StopWon(o)
  \/ EventWon(o) \/ EventClosing(o) \/ StopClosing(o) \/ Done(o)
  \/ Passed(o)

(***************************************************************************)
(* Where the two threads are: the loop thread is inside a function of cur, *)
(* or inside request_stop (byLoop), or back in uv_run.                     *)
(***************************************************************************)
Control ==
  /\ lpc \in {"idle", "stopping"} <=> cur = NULL
  /\ byLoop <=> lpc = "stopping"
  /\ rpc # "idle" => requested

StopInv ==
  /\ TypeOK
  /\ Control
  /\ CompletesOnce
  /\ \A o \in Ops \ Faulty : Phase(o)

USE DEF Alive, CompletedOnce, InitHandle, LoopGoto, Completes, CompleteFrom, DestroyCallback,
        opVars, flagVars, doneVars, loopVars, stopVars

-----------------------------------------------------------------------------
(* At the start every operation is fresh. *)
LEMMA StopInit == Init => StopInv
<1> SUFFICES ASSUME Init PROVE StopInv
  OBVIOUS
<1>1. TypeOK
  BY NullIsNoOp DEF Init, TypeOK
<1>2. Control
  BY DEF Init, Control
<1>3. CompletesOnce
  BY DEF Init, CompletesOnce
<1>4. ASSUME NEW o \in Ops \ Faulty PROVE Fresh(o)
  BY NullIsNoOp DEF Init, Fresh, Untouched, Unlisted
<1> QED BY <1>1, <1>2, <1>3, <1>4 DEF StopInv, Phase

-----------------------------------------------------------------------------
(* Every step keeps the types and the positions of the two threads. *)
LEMMA TypeStep == TypeOK /\ Control /\ [Next]_vars => TypeOK' /\ Control'
<1> SUFFICES ASSUME TypeOK, Control, [Next]_vars
             PROVE  TypeOK' /\ Control'
  OBVIOUS
<1> USE NullIsNoOp DEF TypeOK, Control
<1>1. CASE RequestStop  BY <1>1 DEF RequestStop
<1>2. CASE NoMoreCallbacks  BY <1>2 DEF NoMoreCallbacks
<1>3. CASE StopTestAndSet  BY <1>3 DEF StopTestAndSet
<1>4. CASE StopPushBack  BY <1>4 DEF StopPushBack
<1>5. CASE StopFire  BY <1>5 DEF StopFire
<1>6. ASSUME NEW o \in Ops, Start(o) PROVE TypeOK' /\ Control'
  BY <1>6 DEF Start
<1>7. ASSUME NEW o \in Ops, EventCallback(o) PROVE TypeOK' /\ Control'
  BY <1>7 DEF EventCallback
<1>8. ASSUME NEW o \in Ops, ApplyInit(o) PROVE TypeOK' /\ Control'
  BY <1>8 DEF ApplyInit
<1>9. ASSUME NEW o \in Ops, ApplyInitFails(o) PROVE TypeOK' /\ Control'
  BY <1>9 DEF ApplyInitFails
<1>10. ASSUME NEW o \in Ops, StartHandle(o) PROVE TypeOK' /\ Control'
  BY <1>10 DEF StartHandle
<1>11. ASSUME NEW o \in Ops, StartHandleFails(o) PROVE TypeOK' /\ Control'
  <2>1. CASE LoopGoto("start", o, "idle") /\ UNCHANGED stopVars
    BY <1>11, <2>1 DEF StartHandleFails
  <2>2. CASE /\ ~requested
             /\ LoopGoto("start", o, "stopping")
             /\ requested' = TRUE /\ byLoop' = TRUE /\ rpc' = "next"
             /\ UNCHANGED executing
    BY <1>11, <2>2 DEF StartHandleFails
  <2> QED BY <1>11, <2>1, <2>2 DEF StartHandleFails
<1>12. ASSUME NEW o \in Ops, Setup(o) PROVE TypeOK' /\ Control'
  BY <1>12 DEF Setup
<1>13. ASSUME NEW o \in Ops, Reset(o) PROVE TypeOK' /\ Control'
  BY <1>13 DEF Reset
<1>14. ASSUME NEW o \in Ops, Close(o) PROVE TypeOK' /\ Control'
  BY <1>14 DEF Close
<1>15. ASSUME NEW o \in Ops, ApplyStop(o) PROVE TypeOK' /\ Control'
  BY <1>15 DEF ApplyStop
<1>16. ASSUME NEW o \in Ops, CloseCallbackValue(o) PROVE TypeOK' /\ Control'
  <2>1. CASE LoopGoto("idle", o, "idle") /\ UNCHANGED stopVars
    BY <1>16, <2>1 DEF CloseCallbackValue
  <2>2. CASE /\ ~requested
             /\ LoopGoto("idle", o, "stopping")
             /\ requested' = TRUE /\ byLoop' = TRUE /\ rpc' = "next"
             /\ UNCHANGED executing
    BY <1>16, <2>2 DEF CloseCallbackValue
  <2> QED BY <1>16, <2>1, <2>2 DEF CloseCallbackValue
<1>17. ASSUME NEW o \in Ops, CloseCallbackStopped(o) PROVE TypeOK' /\ Control'
  BY <1>17 DEF CloseCallbackStopped
<1>18. ASSUME NEW o \in Ops, ResetUnsafe(o) PROVE TypeOK' /\ Control'
  <2>1. CASE LoopGoto("resetUnsafe", o, "idle") /\ UNCHANGED stopVars
    BY <1>18, <2>1 DEF ResetUnsafe
  <2>2. CASE /\ ~requested
             /\ LoopGoto("resetUnsafe", o, "stopping")
             /\ requested' = TRUE /\ byLoop' = TRUE /\ rpc' = "next"
             /\ UNCHANGED executing
    BY <1>18, <2>2 DEF ResetUnsafe
  <2> QED BY <1>18, <2>1, <2>2 DEF ResetUnsafe
<1>19. ASSUME NEW o \in Ops, NextCallback(o) PROVE TypeOK' /\ Control'
  BY <1>19 DEF NextCallback
<1>20. ASSUME NEW o \in Ops, SetValue(o) PROVE TypeOK' /\ Control'
  BY <1>20 DEF SetValue
<1>21. ASSUME NEW o \in Ops, UpstreamEnds(o) PROVE TypeOK' /\ Control'
  <2>1. CASE LoopGoto("idle", o, "idle") /\ UNCHANGED stopVars
    BY <1>21, <2>1 DEF UpstreamEnds
  <2>2. CASE /\ ~requested
             /\ LoopGoto("idle", o, "stopping")
             /\ requested' = TRUE /\ byLoop' = TRUE /\ rpc' = "next"
             /\ UNCHANGED executing
    BY <1>21, <2>2 DEF UpstreamEnds
  <2> QED BY <1>21, <2>1, <2>2 DEF UpstreamEnds
<1>22. CASE UNCHANGED vars  BY <1>22 DEF vars
<1> QED BY <1>1, <1>2, <1>3, <1>4, <1>5, <1>6, <1>7, <1>8, <1>9, <1>10, <1>11, <1>12,
       <1>13, <1>14, <1>15, <1>16, <1>17, <1>18, <1>19, <1>20, <1>21, <1>22
    DEF Next, Stopping, Handler

-----------------------------------------------------------------------------
(***************************************************************************)
(* A step that leaves the operation's own state alone, and moves neither   *)
(* thread into, out of or inside one of its functions.                     *)
(***************************************************************************)
Frame(p) ==
  /\ stage'[p] = stage[p] /\ handle'[p] = handle[p] /\ fired'[p] = fired[p]
  /\ Used'[p] = Used[p] /\ StopCallback'[p] = StopCallback[p]
  /\ registered'[p] = registered[p] /\ stopQueued'[p] = stopQueued[p]
  /\ result'[p] = result[p] /\ completions'[p] = completions[p]
  /\ cur' = p <=> cur = p
  /\ cur = p => lpc' = lpc
  /\ executing' = p <=> executing = p
  /\ executing = p => rpc' = rpc
  /\ requested => requested'

(* The part of the invariant that is about one operation. *)
OpInv(p) == Phase(p) /\ completions[p] = IF Alive(p) THEN 0 ELSE 1

(* What does not concern an operation keeps its phase. *)
LEMMA FrameKeepsPhase ==
  ASSUME NEW p \in Ops, OpInv(p), Frame(p)
  PROVE  OpInv(p)'
<1> USE DEF Frame, Untouched, Unlisted
<1>1. CASE Fresh(p)  BY <1>1 DEF Fresh, Phase, OpInv
<1>2. CASE Starting(p)  BY <1>2 DEF Starting, Phase, OpInv
<1>3. CASE Waiting(p)  BY <1>3 DEF Waiting, Phase, OpInv
<1>4. CASE StopWon(p)  BY <1>4 DEF StopWon, Phase, OpInv
<1>5. CASE EventWon(p)  BY <1>5 DEF EventWon, Phase, OpInv
<1>6. CASE EventClosing(p)  BY <1>6 DEF EventClosing, Phase, OpInv
<1>7. CASE StopClosing(p)  BY <1>7 DEF StopClosing, Phase, OpInv
<1>8. CASE Done(p)  BY <1>8 DEF Done, Phase, OpInv
<1>9. CASE Passed(p)  BY <1>9 DEF Passed, Phase, OpInv
<1> QED BY <1>1, <1>2, <1>3, <1>4, <1>5, <1>6, <1>7, <1>8, <1>9 DEF Phase, OpInv

(* The steps of one operation, of either thread. *)
StepOf(o) ==
  \/ Start(o) \/ EventCallback(o) \/ Handler(o) \/ NextCallback(o)
  \/ executing = o /\ (StopTestAndSet \/ StopPushBack \/ StopFire)

(* A step of one operation is nothing to the others. *)
LEMMA OthersAlone ==
  ASSUME TypeOK, Control, NEW o \in Ops, StepOf(o), NEW p \in Ops, p # o
  PROVE  Frame(p)
<1> USE NullIsNoOp DEF TypeOK, Control, Frame
<1>1. CASE Start(o)  BY <1>1 DEF Start
<1>2. CASE EventCallback(o)  BY <1>2 DEF EventCallback
<1>3. CASE ApplyInit(o)  BY <1>3 DEF ApplyInit
<1>4. CASE SetValue(o)  BY <1>4 DEF SetValue
<1>5. CASE UpstreamEnds(o)  BY <1>5 DEF UpstreamEnds
<1>6. CASE ApplyInitFails(o)  BY <1>6 DEF ApplyInitFails
<1>7. CASE StartHandle(o)  BY <1>7 DEF StartHandle
<1>8. CASE StartHandleFails(o)  BY <1>8 DEF StartHandleFails
<1>9. CASE Setup(o)  BY <1>9 DEF Setup
<1>10. CASE Reset(o)  BY <1>10 DEF Reset
<1>11. CASE Close(o)  BY <1>11 DEF Close
<1>12. CASE ApplyStop(o)  BY <1>12 DEF ApplyStop
<1>13. CASE CloseCallbackValue(o)  BY <1>13 DEF CloseCallbackValue
<1>14. CASE CloseCallbackStopped(o)  BY <1>14 DEF CloseCallbackStopped
<1>15. CASE ResetUnsafe(o)  BY <1>15 DEF ResetUnsafe
<1>16. CASE NextCallback(o)  BY <1>16 DEF NextCallback
<1>17. CASE executing = o /\ StopTestAndSet  BY <1>17 DEF StopTestAndSet
<1>18. CASE executing = o /\ StopPushBack  BY <1>18 DEF StopPushBack
<1>19. CASE executing = o /\ StopFire  BY <1>19 DEF StopFire
<1> QED BY <1>1, <1>2, <1>3, <1>4, <1>5, <1>6, <1>7, <1>8, <1>9, <1>10, <1>11, <1>12, <1>13, <1>14, <1>15, <1>16, <1>17, <1>18, <1>19
    DEF StepOf, Handler

(* Every step leaves each operation in one of the phases. *)
LEMMA PhaseStep ==
  ASSUME StopInv, Next, NEW p \in Ops \ Faulty
  PROVE  OpInv(p)'
<1> USE NullIsNoOp DEF TypeOK, Control
<1>0. /\ TypeOK /\ Control
      /\ OpInv(p)
  BY DEF StopInv, OpInv, CompletesOnce
<1>1. CASE RequestStop
  <2>1. Frame(p)  BY <1>0, <1>1 DEF RequestStop, Frame
  <2> QED BY <1>0, <2>1, FrameKeepsPhase
<1>2. CASE NoMoreCallbacks
  <2>1. Frame(p)  BY <1>0, <1>2 DEF NoMoreCallbacks, Frame
  <2> QED BY <1>0, <2>1, FrameKeepsPhase
<1>3. CASE StopTestAndSet
  <2>1. CASE p # executing
    <3>1. executing \in Ops  BY <1>0, <1>3 DEF StopTestAndSet
    <3> QED BY <1>0, <1>3, <2>1, <3>1, OthersAlone, FrameKeepsPhase DEF StepOf
  <2>2. CASE p = executing
    BY <1>0, <1>3, <2>2 DEF StopTestAndSet, OpInv, Phase, Fresh, Starting, Waiting,
       StopWon, EventWon, EventClosing, StopClosing, Done, Passed, Untouched, Unlisted
  <2> QED BY <2>1, <2>2
<1>4. CASE StopPushBack
  <2>1. CASE p # executing
    <3>1. executing \in Ops  BY <1>0, <1>4 DEF StopPushBack
    <3> QED BY <1>0, <1>4, <2>1, <3>1, OthersAlone, FrameKeepsPhase DEF StepOf
  <2>2. CASE p = executing
    BY <1>0, <1>4, <2>2 DEF StopPushBack, OpInv, Phase, Fresh, Starting, Waiting,
       StopWon, EventWon, EventClosing, StopClosing, Done, Passed, Untouched, Unlisted
  <2> QED BY <2>1, <2>2
<1>5. CASE StopFire
  <2>1. CASE p # executing
    <3>1. executing \in Ops  BY <1>0, <1>5 DEF StopFire
    <3> QED BY <1>0, <1>5, <2>1, <3>1, OthersAlone, FrameKeepsPhase DEF StepOf
  <2>2. CASE p = executing
    BY <1>0, <1>5, <2>2 DEF StopFire, OpInv, Phase, Fresh, Starting, Waiting, StopWon,
       EventWon, EventClosing, StopClosing, Done, Passed, Untouched, Unlisted
  <2> QED BY <2>1, <2>2
<1>6. ASSUME NEW o \in Ops, Start(o) PROVE OpInv(p)'
  <2>1. CASE p # o
    BY <1>0, <1>6, <2>1, OthersAlone, FrameKeepsPhase DEF StepOf, Handler
  <2>2. CASE p = o
    BY <1>0, <1>6, <2>2 DEF Start, OpInv, Phase, Fresh, Starting, Waiting, StopWon,
       EventWon, EventClosing, StopClosing, Done, Passed, Untouched, Unlisted
  <2> QED BY <2>1, <2>2
<1>7. ASSUME NEW o \in Ops, EventCallback(o) PROVE OpInv(p)'
  <2>1. CASE p # o
    BY <1>0, <1>7, <2>1, OthersAlone, FrameKeepsPhase DEF StepOf, Handler
  <2>2. CASE p = o
    BY <1>0, <1>7, <2>2 DEF EventCallback, OpInv, Phase, Fresh, Starting, Waiting,
       StopWon, EventWon, EventClosing, StopClosing, Done, Passed, Untouched, Unlisted
  <2> QED BY <2>1, <2>2
<1>8. ASSUME NEW o \in Ops, ApplyInit(o) PROVE OpInv(p)'
  <2>1. CASE p # o
    BY <1>0, <1>8, <2>1, OthersAlone, FrameKeepsPhase DEF StepOf, Handler
  <2>2. CASE p = o
    BY <1>0, <1>8, <2>2 DEF ApplyInit, OpInv, Phase, Fresh, Starting, Waiting,
       StopWon, EventWon, EventClosing, StopClosing, Done, Passed, Untouched, Unlisted
  <2> QED BY <2>1, <2>2
<1>9. ASSUME NEW o \in Ops, ApplyInitFails(o) PROVE OpInv(p)'
  <2>1. Frame(p)  BY <1>0, <1>9 DEF ApplyInitFails, Frame
  <2> QED BY <1>0, <2>1, FrameKeepsPhase
<1>10. ASSUME NEW o \in Ops, StartHandle(o) PROVE OpInv(p)'
  <2>1. CASE p # o
    BY <1>0, <1>10, <2>1, OthersAlone, FrameKeepsPhase DEF StepOf, Handler
  <2>2. CASE p = o
    BY <1>0, <1>10, <2>2 DEF StartHandle, OpInv, Phase, Fresh, Starting, Waiting,
       StopWon, EventWon, EventClosing, StopClosing, Done, Passed, Untouched, Unlisted
  <2> QED BY <2>1, <2>2
<1>11. ASSUME NEW o \in Ops, StartHandleFails(o) PROVE OpInv(p)'
  <2>1. Frame(p)  BY <1>0, <1>11 DEF StartHandleFails, Frame
  <2> QED BY <1>0, <2>1, FrameKeepsPhase
<1>12. ASSUME NEW o \in Ops, Setup(o) PROVE OpInv(p)'
  <2>1. CASE p # o
    BY <1>0, <1>12, <2>1, OthersAlone, FrameKeepsPhase DEF StepOf, Handler
  <2>2. CASE p = o
    BY <1>0, <1>12, <2>2 DEF Setup, OpInv, Phase, Fresh, Starting, Waiting, StopWon,
       EventWon, EventClosing, StopClosing, Done, Passed, Untouched, Unlisted
  <2> QED BY <2>1, <2>2
<1>13. ASSUME NEW o \in Ops, Reset(o) PROVE OpInv(p)'
  <2>1. CASE p # o
    BY <1>0, <1>13, <2>1, OthersAlone, FrameKeepsPhase DEF StepOf, Handler
  <2>2. CASE p = o
    BY <1>0, <1>13, <2>2 DEF Reset, OpInv, Phase, Fresh, Starting, Waiting, StopWon,
       EventWon, EventClosing, StopClosing, Done, Passed, Untouched, Unlisted
  <2> QED BY <2>1, <2>2
<1>14. ASSUME NEW o \in Ops, Close(o) PROVE OpInv(p)'
  <2>1. CASE p # o
    BY <1>0, <1>14, <2>1, OthersAlone, FrameKeepsPhase DEF StepOf, Handler
  <2>2. CASE p = o
    BY <1>0, <1>14, <2>2 DEF Close, OpInv, Phase, Fresh, Starting, Waiting, StopWon,
       EventWon, EventClosing, StopClosing, Done, Passed, Untouched, Unlisted
  <2> QED BY <2>1, <2>2
<1>15. ASSUME NEW o \in Ops, ApplyStop(o) PROVE OpInv(p)'
  <2>1. CASE p # o
    BY <1>0, <1>15, <2>1, OthersAlone, FrameKeepsPhase DEF StepOf, Handler
  <2>2. CASE p = o
    BY <1>0, <1>15, <2>2 DEF ApplyStop, OpInv, Phase, Fresh, Starting, Waiting,
       StopWon, EventWon, EventClosing, StopClosing, Done, Passed, Untouched, Unlisted
  <2> QED BY <2>1, <2>2
<1>16. ASSUME NEW o \in Ops, CloseCallbackValue(o) PROVE OpInv(p)'
  <2>1. CASE p # o
    BY <1>0, <1>16, <2>1, OthersAlone, FrameKeepsPhase DEF StepOf, Handler
  <2>2. CASE p = o
    BY <1>0, <1>16, <2>2 DEF CloseCallbackValue, OpInv, Phase, Fresh, Starting,
       Waiting, StopWon, EventWon, EventClosing, StopClosing, Done, Passed, Untouched,
       Unlisted
  <2> QED BY <2>1, <2>2
<1>17. ASSUME NEW o \in Ops, CloseCallbackStopped(o) PROVE OpInv(p)'
  <2>1. CASE p # o
    BY <1>0, <1>17, <2>1, OthersAlone, FrameKeepsPhase DEF StepOf, Handler
  <2>2. CASE p = o
    BY <1>0, <1>17, <2>2 DEF CloseCallbackStopped, OpInv, Phase, Fresh, Starting,
       Waiting, StopWon, EventWon, EventClosing, StopClosing, Done, Passed, Untouched,
       Unlisted
  <2> QED BY <2>1, <2>2
<1>18. ASSUME NEW o \in Ops, ResetUnsafe(o) PROVE OpInv(p)'
  <2>1. CASE p # o
    BY <1>0, <1>18, <2>1, OthersAlone, FrameKeepsPhase DEF StepOf, Handler
  <2>2. CASE p = o
    BY <1>0, <1>18, <2>2 DEF ResetUnsafe, OpInv, Phase, Fresh, Starting, Waiting,
       StopWon, EventWon, EventClosing, StopClosing, Done, Passed, Untouched, Unlisted
  <2> QED BY <2>1, <2>2
<1>19. ASSUME NEW o \in Ops, NextCallback(o) PROVE OpInv(p)'
  <2>1. CASE p # o
    BY <1>0, <1>19, <2>1, OthersAlone, FrameKeepsPhase DEF StepOf, Handler
  <2>2. CASE p = o
    BY <1>0, <1>19, <2>2 DEF NextCallback, OpInv, Phase, Fresh, Starting, Waiting,
       StopWon, EventWon, EventClosing, StopClosing, Done, Passed, Untouched, Unlisted
  <2> QED BY <2>1, <2>2
<1>20. ASSUME NEW o \in Ops, SetValue(o) PROVE OpInv(p)'
  <2>1. CASE p # o
    BY <1>0, <1>20, <2>1, OthersAlone, FrameKeepsPhase DEF StepOf, Handler
  <2>2. CASE p = o
    BY <1>0, <1>20, <2>2 DEF SetValue, OpInv, Phase, Fresh, Starting, Waiting, StopWon,
       EventWon, EventClosing, StopClosing, Done, Passed, Untouched, Unlisted
  <2> QED BY <2>1, <2>2
<1>21. ASSUME NEW o \in Ops, UpstreamEnds(o) PROVE OpInv(p)'
  <2>1. CASE p # o
    BY <1>0, <1>21, <2>1, OthersAlone, FrameKeepsPhase DEF StepOf, Handler
  <2>2. CASE p = o
    BY <1>0, <1>21, <2>2 DEF UpstreamEnds, OpInv, Phase, Fresh, Starting, Waiting, StopWon,
       EventWon, EventClosing, StopClosing, Done, Passed, Untouched, Unlisted
  <2> QED BY <2>1, <2>2
<1> QED BY <1>1, <1>2, <1>3, <1>4, <1>5, <1>6, <1>7, <1>8, <1>9, <1>10, <1>11, <1>12,
       <1>13, <1>14, <1>15, <1>16, <1>17, <1>18, <1>19, <1>20, <1>21
    DEF Next, Stopping, Handler

(* The phases, the types and the count of completions together are inductive. *)
LEMMA StopInvStep == StopInv /\ [Next]_vars => StopInv'
<1> SUFFICES ASSUME StopInv, [Next]_vars
             PROVE  StopInv'
  OBVIOUS
<1>1. TypeOK' /\ Control'
  BY TypeStep DEF StopInv
<1>2. CASE Next
  <2>1. \A p \in Ops \ Faulty : OpInv(p)'
    BY <1>2, PhaseStep
  <2> QED BY <1>1, <2>1 DEF StopInv, OpInv, CompletesOnce
<1>3. CASE UNCHANGED vars
  BY <1>3 DEF vars, StopInv, TypeOK, Control, CompletesOnce, Phase, Fresh, Starting,
     Waiting, StopWon, EventWon, EventClosing, StopClosing, Done, Passed, Untouched, Unlisted
<1> QED BY <1>2, <1>3

(* The invariant holds in every reachable state. *)
LEMMA StopInvariant == Spec => []StopInv
BY StopInit, StopInvStep, PTL DEF Spec

-----------------------------------------------------------------------------
(***************************************************************************)
(* The state stays well typed, also when libuv calls fail: the stop source *)
(* lists only live callbacks (TStopOperation::Setup and Reset).            *)
(***************************************************************************)
THEOREM TypeCorrect == Spec => []TypeOK
<1>1. Init => TypeOK /\ Control
  BY StopInit DEF StopInv
<1> QED BY <1>1, TypeStep, PTL DEF Spec

(***************************************************************************)
(* Nobody refers to a timer or signal operation that meets no error        *)
(* once its receiver is completed: not the loop, libuv, the stop source,   *)
(* nor a thread still inside the stop callback (loop.hpp, TStopCallback).  *)
(***************************************************************************)
THEOREM CompletionIsTheEnd == Spec => []NoUseAfterCompletion
<1>1. StopInv => NoUseAfterCompletion
  BY DEF StopInv, NoUseAfterCompletion, Phase, Fresh, Starting, Waiting, StopWon,
     EventWon, EventClosing, StopClosing, Done, Passed, Unlisted
<1> QED BY <1>1, StopInvariant, PTL

(***************************************************************************)
(* The event and a racing stop request never both complete the receiver    *)
(* (AfterCallback, SignalCallback, CloseCallback), even when operations    *)
(* beside it fail.                                                         *)
(***************************************************************************)
THEOREM OneCompletion == Spec => []CompletesOnce
<1>1. StopInv => CompletesOnce
  BY DEF StopInv
<1> QED BY <1>1, StopInvariant, PTL

(***************************************************************************)
(* If no libuv call fails, uv_close is never called on a handle that is    *)
(* closing already, by whichever of StopCallback and AfterCallback.        *)
(***************************************************************************)
THEOREM OneClose ==
  ASSUME Faulty = {}
  PROVE  Spec => []ClosesOnce
<1>1. StopInv => ClosesOnce
  BY NullIsNoOp DEF StopInv, TypeOK, Control, ClosesOnce, Phase, Fresh, Starting,
     Waiting, StopWon,
     EventWon, EventClosing, StopClosing, Done, Passed, Unlisted
<1> QED BY <1>1, StopInvariant, PTL

(***************************************************************************)
(* Without an error CloseCallback tells the event from the stop:           *)
(* set_value is called only after the event, set_stopped only after a stop *)
(* request.                                                                *)
(***************************************************************************)
THEOREM ResultIsHonest == Spec => []HonestResult
<1>1. StopInv => HonestResult
  BY DEF StopInv, HonestResult, Phase, Fresh, Starting, Waiting, StopWon,
     EventWon, EventClosing, StopClosing, Done, Passed
<1> QED BY <1>1, StopInvariant, PTL

-----------------------------------------------------------------------------
(* What StopRace sees of an operation, and what it sees a step do to it. *)
Keeps(p) == RacePhase(p)' = RacePhase(p) /\ fired'[p] = fired[p]

Turns(p, from, to) == RacePhase(p) = from /\ RacePhase(p)' = to

RaceStep(p) ==
  \/ Keeps(p)
  \/ Turns(p, "fresh", "waiting") /\ fired'[p] = fired[p] /\ requested' = requested
  \/ Turns(p, "waiting", "event") /\ fired'[p] = TRUE /\ requested' = requested
  \/ Turns(p, "stop", "stop") /\ fired'[p] = TRUE /\ requested' = requested
  \/ requested /\ Turns(p, "waiting", "stop") /\ fired'[p] = fired[p] /\ requested' = requested
  \/ /\ Turns(p, "event", "value") \/ Turns(p, "stop", "stopped") \/ Turns(p, "fresh", "passed")
     /\ fired'[p] = fired[p]

(* What does not concern an operation does not change who has won it. *)
LEMMA FrameKeepsRace ==
  ASSUME NEW p \in Ops, Frame(p)
  PROVE  Keeps(p)
BY DEF Frame, Keeps, RacePhase

(* Each step of an operation is one of StopRace's, or is not seen there. *)
LEMMA StepRaces ==
  ASSUME StopInv, NEW p \in Ops \ Faulty, StepOf(p)
  PROVE  RaceStep(p) /\ requested' \in {requested, TRUE}
<1> USE NullIsNoOp DEF TypeOK, Control, RaceStep, Keeps, Turns, RacePhase
<1>0. TypeOK /\ Control /\ OpInv(p)
  BY DEF StopInv, OpInv, CompletesOnce
<1>1. CASE EventCallback(p)
  BY <1>0, <1>1 DEF EventCallback, OpInv, Phase, Fresh, Starting, Waiting, StopWon,
       EventWon, EventClosing, StopClosing, Done, Passed, Untouched, Unlisted
<1>2. CASE ApplyInit(p)
  BY <1>0, <1>2 DEF ApplyInit, OpInv, Phase, Fresh, Starting, Waiting, StopWon,
       EventWon, EventClosing, StopClosing, Done, Passed, Untouched, Unlisted
<1>3. CASE SetValue(p)
  BY <1>0, <1>3 DEF SetValue, OpInv, Phase, Fresh, Starting, Waiting, StopWon,
       EventWon, EventClosing, StopClosing, Done, Passed, Untouched, Unlisted
<1>4. CASE UpstreamEnds(p)
  BY <1>0, <1>4 DEF UpstreamEnds, OpInv, Phase, Fresh, Starting, Waiting, StopWon,
       EventWon, EventClosing, StopClosing, Done, Passed, Untouched, Unlisted
<1>5. CASE StartHandle(p)
  BY <1>0, <1>5 DEF StartHandle, OpInv, Phase, Fresh, Starting, Waiting, StopWon,
       EventWon, EventClosing, StopClosing, Done, Passed, Untouched, Unlisted
<1>6. CASE Setup(p)
  BY <1>0, <1>6 DEF Setup, OpInv, Phase, Fresh, Starting, Waiting, StopWon,
       EventWon, EventClosing, StopClosing, Done, Passed, Untouched, Unlisted
<1>7. CASE Reset(p)
  BY <1>0, <1>7 DEF Reset, OpInv, Phase, Fresh, Starting, Waiting, StopWon,
       EventWon, EventClosing, StopClosing, Done, Passed, Untouched, Unlisted
<1>8. CASE Close(p)
  BY <1>0, <1>8 DEF Close, OpInv, Phase, Fresh, Starting, Waiting, StopWon,
       EventWon, EventClosing, StopClosing, Done, Passed, Untouched, Unlisted
<1>9. CASE ApplyStop(p)
  BY <1>0, <1>9 DEF ApplyStop, OpInv, Phase, Fresh, Starting, Waiting, StopWon,
       EventWon, EventClosing, StopClosing, Done, Passed, Untouched, Unlisted
<1>10. CASE CloseCallbackValue(p)
  BY <1>0, <1>10 DEF CloseCallbackValue, OpInv, Phase, Fresh, Starting, Waiting, StopWon,
       EventWon, EventClosing, StopClosing, Done, Passed, Untouched, Unlisted
<1>11. CASE CloseCallbackStopped(p)
  BY <1>0, <1>11 DEF CloseCallbackStopped, OpInv, Phase, Fresh, Starting, Waiting, StopWon,
       EventWon, EventClosing, StopClosing, Done, Passed, Untouched, Unlisted
<1>12. CASE ResetUnsafe(p)
  BY <1>0, <1>12 DEF ResetUnsafe, OpInv, Phase, Fresh, Starting, Waiting, StopWon,
       EventWon, EventClosing, StopClosing, Done, Passed, Untouched, Unlisted
<1>13. CASE NextCallback(p)
  BY <1>0, <1>13 DEF NextCallback, OpInv, Phase, Fresh, Starting, Waiting, StopWon,
       EventWon, EventClosing, StopClosing, Done, Passed, Untouched, Unlisted
<1>14. CASE Start(p)
  BY <1>0, <1>14 DEF Start, OpInv, Phase, Fresh, Starting, Waiting, StopWon,
       EventWon, EventClosing, StopClosing, Done, Passed, Untouched, Unlisted
<1>15. CASE executing = p /\ StopTestAndSet
  BY <1>0, <1>15 DEF StopTestAndSet, OpInv, Phase, Fresh, Starting, Waiting, StopWon,
       EventWon, EventClosing, StopClosing, Done, Passed, Untouched, Unlisted
<1>16. CASE executing = p /\ StopPushBack
  BY <1>0, <1>16 DEF StopPushBack, OpInv, Phase, Fresh, Starting, Waiting, StopWon,
       EventWon, EventClosing, StopClosing, Done, Passed, Untouched, Unlisted
<1>17. CASE executing = p /\ StopFire
  BY <1>0, <1>17 DEF StopFire, OpInv, Phase, Fresh, Starting, Waiting, StopWon,
       EventWon, EventClosing, StopClosing, Done, Passed, Untouched, Unlisted
<1> QED BY <1>1, <1>2, <1>3, <1>4, <1>5, <1>6, <1>7, <1>8, <1>9, <1>10, <1>11, <1>12, <1>13, <1>14, <1>15, <1>16, <1>17
    DEF StepOf, Handler, ApplyInitFails, StartHandleFails

(* What StopRace sees of all operations. *)
racePhase == [o \in Ops \ Faulty |-> RacePhase(o)]
raceFired == [o \in Ops \ Faulty |-> fired[o]]

(* A step that one operation sees, and the others do not, is a step of StopRace. *)
LEMMA RaceStepImplements ==
  ASSUME NEW o \in Ops \ Faulty, RaceStep(o), requested' \in {requested, TRUE},
         \A p \in Ops \ Faulty : p # o => Keeps(p)
  PROVE  [Race!Next]_(Race!vars)
<1> USE DEF Race!Next, Race!Move, racePhase, raceFired
<1>1. CASE Keeps(o)
  <2>1. racePhase' = racePhase /\ raceFired' = raceFired
    BY <1>1 DEF Keeps
  <2>2. QED
    BY <2>1 DEF Race!vars, Race!RequestStop
<1>2. CASE ~Keeps(o)
  <2>1. /\ racePhase' = [racePhase EXCEPT ![o] = RacePhase(o)']
        /\ raceFired' = [raceFired EXCEPT ![o] = fired'[o]]
        /\ racePhase[o] = RacePhase(o) /\ raceFired[o] = fired[o]
    BY DEF Keeps
  <2>2. fired'[o] = fired[o] => raceFired' = raceFired
    BY DEF Keeps
  <2>3. RacePhase(o)' = RacePhase(o) => racePhase' = racePhase
    BY DEF Keeps
  <2>4. CASE Turns(o, "fresh", "waiting") /\ fired'[o] = fired[o] /\ requested' = requested
    BY <2>1, <2>2, <2>4 DEF Turns, Race!Wait
  <2>5. CASE Turns(o, "waiting", "event") /\ fired'[o] = TRUE /\ requested' = requested
    BY <2>1, <2>5 DEF Turns, Race!EventWins
  <2>6. CASE Turns(o, "stop", "stop") /\ fired'[o] = TRUE /\ requested' = requested
    BY <2>1, <2>3, <2>6 DEF Turns, Race!EventLoses
  <2>7. CASE requested /\ Turns(o, "waiting", "stop") /\ fired'[o] = fired[o] /\ requested' = requested
    BY <2>1, <2>2, <2>7 DEF Turns, Race!StopWins
  <2>8. CASE /\ Turns(o, "event", "value") \/ Turns(o, "stop", "stopped") \/ Turns(o, "fresh", "passed")
             /\ fired'[o] = fired[o]
    BY <2>1, <2>2, <2>8 DEF Turns, Race!Complete
  <2>9. QED
    BY <1>2, <2>4, <2>5, <2>6, <2>7, <2>8 DEF RaceStep
<1>3. QED
  BY <1>1, <1>2

(* A step that no operation sees. *)
LEMMA UnseenStepImplements ==
  ASSUME \A p \in Ops \ Faulty : Keeps(p), requested' \in {requested, TRUE}
  PROVE  [Race!Next]_(Race!vars)
<1>1. racePhase' = racePhase /\ raceFired' = raceFired
  BY DEF Keeps, racePhase, raceFired
<1>2. QED
  BY <1>1 DEF racePhase, raceFired, Race!vars, Race!Next, Race!RequestStop

(***************************************************************************)
(* TStopOperation, with its flag, its callback object and its queued       *)
(* operation spread over two threads, keeps the promise of StopRace to any *)
(* number of operations: one winner, chosen in one step, whose completion  *)
(* is the operation's.                                                     *)
(***************************************************************************)
THEOREM StopIsARace == Spec => ImplementsStopRace
<1>1. Init => Race!Init
  BY DEF Init, Race!Init, RacePhase
<1>2. StopInv /\ [Next]_vars => [Race!Next]_(Race!vars)
  <2> SUFFICES ASSUME StopInv, [Next]_vars PROVE [Race!Next]_(Race!vars)
    OBVIOUS
  <2>0. TypeOK /\ Control
    BY DEF StopInv
  <2>1. ASSUME NEW o \in Ops, StepOf(o) PROVE [Race!Next]_(Race!vars)
    <3>1. \A p \in Ops \ Faulty : p # o => Keeps(p)
      BY <2>0, <2>1, OthersAlone, FrameKeepsRace
    <3>2. CASE o \in Faulty
      <4>1. requested' \in {requested, TRUE}
        BY <2>1 DEF StepOf, Start, EventCallback, Handler, ApplyInit, SetValue, UpstreamEnds, ApplyInitFails,
           StartHandle, StartHandleFails, Setup, Reset, Close, ApplyStop, CloseCallbackValue,
           CloseCallbackStopped, ResetUnsafe, NextCallback, StopTestAndSet, StopPushBack, StopFire
      <4>2. QED
        BY <3>1, <3>2, <4>1, UnseenStepImplements
    <3>3. CASE o \notin Faulty
      BY <2>1, <3>1, <3>3, StepRaces, RaceStepImplements
    <3>4. QED
      BY <3>2, <3>3
  <2>2. CASE RequestStop \/ NoMoreCallbacks
    <3>1. \A p \in Ops \ Faulty : Frame(p)
      BY <2>0, <2>2, NullIsNoOp DEF RequestStop, NoMoreCallbacks, Frame, TypeOK, Control
    <3>2. requested' \in {requested, TRUE}
      BY <2>2 DEF RequestStop, NoMoreCallbacks
    <3>3. QED
      BY <3>1, <3>2, FrameKeepsRace, UnseenStepImplements
  <2>3. CASE StopTestAndSet \/ StopPushBack \/ StopFire
    <3>1. executing \in Ops
      BY <2>0, <2>3 DEF TypeOK, StopTestAndSet, StopPushBack, StopFire
    <3>2. QED
      BY <2>1, <2>3, <3>1 DEF StepOf
  <2>4. CASE UNCHANGED vars
    <3>1. \A p \in Ops \ Faulty : Keeps(p)
      BY <2>4 DEF vars, Keeps, RacePhase
    <3>2. QED
      BY <2>4, <3>1, UnseenStepImplements DEF vars
  <2>5. QED
    BY <2>1, <2>2, <2>3, <2>4 DEF Next, Stopping, StepOf
<1>3. QED
  BY <1>1, <1>2, StopInvariant, PTL DEF Spec, ImplementsStopRace, Race!Spec
=============================================================================
