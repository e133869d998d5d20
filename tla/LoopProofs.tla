----------------------------- MODULE LoopProofs -----------------------------
(***************************************************************************)
(* Proofs about Loop, for any number of threads and of calls.              *)
(***************************************************************************)
EXTENDS Loop, TLAPS

(* What RemoveAt leaves of a sequence. *)
LEMMA RemoveAtProperties ==
  ASSUME NEW S, NEW s \in Seq(S), NEW i \in DOMAIN s
  PROVE  /\ RemoveAt(s, i) \in Seq(S)
         /\ Len(RemoveAt(s, i)) = Len(s) - 1
         /\ \A j \in 1 .. Len(s) - 1 :
              RemoveAt(s, i)[j] = IF j < i THEN s[j] ELSE s[j + 1]
<1> DEFINE a == SubSeq(s, 1, i - 1)
           b == SubSeq(s, i + 1, Len(s))
<1>1. i \in 1 .. Len(s) /\ Len(s) \in Nat
  OBVIOUS
<1>2. a \in Seq(S) /\ Len(a) = i - 1 /\ \A j \in 1 .. i - 1 : a[j] = s[j]
  BY <1>1
<1>3. /\ b \in Seq(S)
      /\ Len(b) = Len(s) - i
      /\ \A j \in 1 .. Len(s) - i : b[j] = s[j + i]
  BY <1>1
<1> HIDE DEF a, b
<1>4. a \o b \in Seq(S) /\ Len(a \o b) = Len(s) - 1
  BY <1>1, <1>2, <1>3
<1>5. ASSUME NEW j \in 1 .. Len(s) - 1
      PROVE  (a \o b)[j] = IF j < i THEN s[j] ELSE s[j + 1]
  <2>1. CASE j < i
    BY <1>1, <1>2, <1>3, <2>1
  <2>2. CASE ~(j < i)
    <3>1. (a \o b)[j] = b[j - (i - 1)]
      BY <1>1, <1>2, <1>3, <2>2
    <3>2. j - (i - 1) \in 1 .. Len(s) - i
      BY <1>1, <2>2
    <3>3. b[j - (i - 1)] = s[(j - (i - 1)) + i]
      BY <1>3, <3>2
    <3>4. (j - (i - 1)) + i = j + 1
      BY <1>1
    <3> QED BY <2>2, <3>1, <3>3, <3>4
  <2> QED BY <2>1, <2>2
<1> QED BY <1>4, <1>5 DEF a, b, RemoveAt

(* What Add, Erase and Pop do to a list of distinct runners. *)
LEMMA AddElements ==
  ASSUME NEW S, NEW s \in Seq(S), NEW x \in S,
         \A i \in DOMAIN s : s[i] # x,
         \A i, j \in DOMAIN s : s[i] = s[j] => i = j
  PROVE  /\ \A i \in DOMAIN (<<x>> \o s) :
              \/ (<<x>> \o s)[i] = x
              \/ \E k \in DOMAIN s : (<<x>> \o s)[i] = s[k]
         /\ \A i, j \in DOMAIN (<<x>> \o s) :
              (<<x>> \o s)[i] = (<<x>> \o s)[j] => i = j
<1> DEFINE r == <<x>> \o s
<1>1. /\ DOMAIN r = 1 .. Len(s) + 1 /\ DOMAIN s = 1 .. Len(s) /\ Len(s) \in Nat
      /\ r[1] = x
      /\ \A i \in 2 .. Len(s) + 1 : r[i] = s[i - 1]
  OBVIOUS
<1> HIDE DEF r
<1>2. \A i \in DOMAIN r : i = 1 \/ (i - 1 \in DOMAIN s /\ r[i] = s[i - 1])
  BY <1>1
<1>3. \A i, j \in DOMAIN r : r[i] = r[j] => i = j
  BY <1>1, <1>2
<1> QED BY <1>1, <1>2, <1>3 DEF r

(* What Erase of a runner leaves in Runners. *)
LEMMA EraseElements ==
  ASSUME NEW S, NEW s \in Seq(S), NEW i \in DOMAIN s,
         \A j, k \in DOMAIN s : s[j] = s[k] => j = k
  PROVE  /\ \A j \in DOMAIN RemoveAt(s, i) :
              /\ RemoveAt(s, i)[j] # s[i]
              /\ \E k \in DOMAIN s : RemoveAt(s, i)[j] = s[k]
         /\ \A j, k \in DOMAIN RemoveAt(s, i) :
              RemoveAt(s, i)[j] = RemoveAt(s, i)[k] => j = k
<1> DEFINE r == RemoveAt(s, i)
           at(j) == IF j < i THEN j ELSE j + 1
<1>1. DOMAIN s = 1 .. Len(s) /\ Len(s) \in Nat /\ i \in 1 .. Len(s)
  OBVIOUS
<1>2. r \in Seq(S) /\ DOMAIN r = 1 .. Len(s) - 1
  BY RemoveAtProperties
<1>3. \A j \in 1 .. Len(s) - 1 : r[j] = IF j < i THEN s[j] ELSE s[j + 1]
  BY RemoveAtProperties
<1> HIDE DEF r
<1>4. \A j \in DOMAIN r : at(j) \in DOMAIN s /\ at(j) # i /\ r[j] = s[at(j)]
  BY <1>1, <1>2, <1>3
<1>5. \A j, k \in DOMAIN r : at(j) = at(k) => j = k
  BY <1>1, <1>2
<1> HIDE DEF at
<1>6. \A j \in DOMAIN r : r[j] # s[i]
  BY <1>4
<1>7. \A j, k \in DOMAIN r : r[j] = r[k] => j = k
  BY <1>4, <1>5
<1> QED BY <1>4, <1>6, <1>7 DEF r

(* What Pop leaves in Runners. *)
LEMMA PopElements ==
  ASSUME NEW S, NEW s \in Seq(S), s # <<>>,
         \A j, k \in DOMAIN s : s[j] = s[k] => j = k
  PROVE  /\ Head(s) \in S
         /\ \E k \in DOMAIN s : Head(s) = s[k]
         /\ \A j \in DOMAIN Tail(s) : \E k \in DOMAIN s : Tail(s)[j] = s[k]
         /\ \A j, k \in DOMAIN Tail(s) : Tail(s)[j] = Tail(s)[k] => j = k
<1> DEFINE r == Tail(s)
<1>1. /\ DOMAIN s = 1 .. Len(s) /\ Len(s) \in Nat /\ 1 \in DOMAIN s
      /\ Head(s) = s[1] /\ Head(s) \in S
  OBVIOUS
<1>2. /\ DOMAIN r = 1 .. Len(s) - 1
      /\ \A j \in 1 .. Len(s) - 1 : r[j] = s[j + 1]
  BY <1>1
<1> HIDE DEF r
<1>3. \A j \in DOMAIN r : j \in Nat /\ j + 1 \in DOMAIN s /\ r[j] = s[j + 1]
  BY <1>1, <1>2
<1>4. \A j, k \in DOMAIN r : r[j] = r[k] => j + 1 = k + 1
  BY <1>3
<1>5. \A j, k \in DOMAIN r : j + 1 = k + 1 => j = k
  BY <1>3
<1> QED BY <1>1, <1>3, <1>4, <1>5 DEF r

-----------------------------------------------------------------------------
(***************************************************************************)
(* Every call of sync_wait, run, run_once and drain keeps the state of the *)
(* loop, its runners and its queue in its types.                           *)
(***************************************************************************)
THEOREM TypeCorrect == Spec => []TypeOK
<1> USE NullIsNoThread, ModesAndKinds, MaxCallsNat
<1>1. Init => TypeOK
  <2> SUFFICES ASSUME Init PROVE TypeOK
    OBVIOUS
  <2>1. Runners \in Seq(Threads)
    BY DEF Init
  <2>2. /\ pc \in [Threads -> PcSet]
        /\ mode \in [Threads -> AllModes]
        /\ kind \in [Threads -> AllKinds]
        /\ opAt \in [Threads -> OpPlaces]
        /\ foreign \in [Threads -> {"none", "push", "fire"}]
    BY DEF Init, PcSet, UvRunPc, WaitPc, AllModes, AllKinds, OpPlaces
  <2>3. /\ Awakenings \in [Threads -> Nat]
        /\ Acq \in [Threads -> BOOLEAN]
        /\ wakeups \in [Threads -> Nat]
        /\ calls \in [Threads -> Nat]
    BY DEF Init
  <2>4. /\ dest \in [Threads -> BOOLEAN]
        /\ receiver \in Threads \cup {NULL} /\ signal \in Signals
        /\ frame \in Nat /\ undefined \in BOOLEAN
    BY DEF Init, Signals
  <2> QED BY <2>1, <2>2, <2>3, <2>4 DEF Init, TypeOK
<1>2. TypeOK /\ [Next]_vars => TypeOK'
  <2> SUFFICES ASSUME TypeOK, [Next]_vars PROVE TypeOK'
    OBVIOUS
  <2> USE DEF TypeOK, PcSet, UvRunPc, WaitPc, AllModes, AllKinds, OpPlaces, Signals,
              Goto, runnerVars, lockVars, uvVars, callVars, signalVars
  <2>1. CASE UNCHANGED vars
    BY <2>1 DEF vars
  <2>2. SUFFICES ASSUME NEW t \in Threads,
                           Calls(t) \/ Steps(t) \/ UvRun(t) \/ Environment(t)
                    PROVE  TypeOK'
    BY <2>1 DEF Next
  <2>3. ASSUME NEW k \in Kinds, SyncWait(t, k) PROVE TypeOK'
    <3>1. k \in AllKinds
      BY ModesAndKinds
    <3> QED BY <2>3, <3>1 DEF SyncWait, NewRunner
  <2>4. CASE SyncWaitTransfer(t)  BY <2>4 DEF SyncWaitTransfer, NewRunner
  <2>5. ASSUME NEW m \in Modes, Run(t, m) PROVE TypeOK'
    BY <2>5 DEF Run, NewRunner
  <2>6. CASE PushBack(t)  BY <2>6 DEF PushBack
  <2>7. CASE Fire(t)  BY <2>7 DEF Fire
  <2>8. CASE CheckFinished(t)  BY <2>8 DEF CheckFinished
  <2>9. CASE TakeLoop(t)  BY <2>9 DEF TakeLoop
  <2>10. CASE LeaveLoop(t)  BY <2>10 DEF LeaveLoop
  <2>11. CASE AddRunner(t)  BY <2>11 DEF AddRunner
  <2>12. CASE LoadWakeups(t)  BY <2>12 DEF LoadWakeups
  <2>13. CASE Awake(t)  BY <2>13 DEF Awake
  <2>14. CASE EraseRunner(t)
    <3>1. Runners' \in Seq(Threads)
      BY <2>14, RemoveAtProperties DEF EraseRunner
    <3>2. UNCHANGED <<callVars, RunMtx, Running, target, runnerVars, uvVars, foreign, signalVars>>
      BY <2>14 DEF EraseRunner
    <3>3. pc' \in [Threads -> PcSet]
      BY <2>14 DEF EraseRunner
    <3> QED BY <3>1, <3>2, <3>3
  <2>15. CASE RelockAfterRun(t)  BY <2>15 DEF RelockAfterRun
  <2>16. CASE WakeupNextNobody(t)
    <3>1. UNCHANGED <<callVars, Running, Runners, target, runnerVars, uvVars, foreign, signalVars>>
      BY <2>16 DEF WakeupNextNobody
    <3>2. pc' \in [Threads -> PcSet] /\ RunMtx' = NULL
      BY <2>16 DEF WakeupNextNobody, AfterRun
    <3> QED BY <3>1, <3>2
  <2>17. CASE WakeupNextPop(t)
    <3>1. Runners' \in Seq(Threads) /\ Head(Runners) \in Threads
      BY <2>17 DEF WakeupNextPop
    <3>2. UNCHANGED <<callVars, RunMtx, Running, runnerVars, uvVars, foreign, signalVars>>
      BY <2>17 DEF WakeupNextPop
    <3>3. pc' \in [Threads -> PcSet] /\ target' \in Threads \cup {NULL}
      BY <2>17, <3>1 DEF WakeupNextPop
    <3> QED BY <3>1, <3>2, <3>3
  <2>18. CASE Wakeup(t)
    <3>1. Awakenings' \in [Threads -> Nat]
      <4>1. CASE target \in Threads
        BY <2>18, <4>1 DEF Wakeup
      <4>2. CASE target \notin Threads
        BY <2>18, <4>2 DEF Wakeup
      <4> QED BY <4>1, <4>2
    <3>2. UNCHANGED <<callVars, Running, Runners, Acq, wakeups, uvVars, foreign, signalVars>>
      BY <2>18 DEF Wakeup
    <3>3. pc' \in [Threads -> PcSet] /\ target' = NULL /\ RunMtx' = NULL
      BY <2>18 DEF Wakeup, AfterRun
    <3> QED BY <3>1, <3>2, <3>3
  <2>19. CASE UvEnter(t)  BY <2>19 DEF UvEnter, FireTimers
  <2>20. CASE Turn(t)  BY <2>20 DEF Turn
  <2>21. CASE PollAsync(t)  BY <2>21 DEF PollAsync
  <2>22. CASE PollTimeout(t)  BY <2>22 DEF PollTimeout
  <2>23. CASE ApplyDone(t)  BY <2>23 DEF ApplyDone
  <2>24. CASE ClosingDone(t)  BY <2>24 DEF ClosingDone
  <2>25. CASE RunTimers(t)  BY <2>25 DEF RunTimers, FireTimers
  <2>26. CASE ForeignPushBack(t)  BY <2>26 DEF ForeignPushBack
  <2>27. CASE ForeignFire(t)  BY <2>27 DEF ForeignFire
  <2>28. CASE Elapse(t)  BY <2>28 DEF Elapse
  <2>29. ASSUME NEW u \in Threads, ApplySchedule(t, u) PROVE TypeOK'
    BY <2>29 DEF ApplySchedule, SetValue, CallbackReturned
  <2>30. ASSUME NEW u \in Threads, ApplyTimer(t, u) PROVE TypeOK'
    BY <2>30 DEF ApplyTimer
  <2>31. ASSUME NEW u \in Threads, CloseCallback(t, u) PROVE TypeOK'
    BY <2>31 DEF CloseCallback, SetValue, CallbackReturned
  <2>32. CASE Signal(t)  BY <2>32 DEF Signal, AfterSignal
  <2>33. ASSUME NEW stop \in BOOLEAN, NEW hit \in BOOLEAN, SignalLate(t, stop, hit)
        PROVE  TypeOK'
    BY <2>33 DEF SignalLate, AfterSignal
  <2>34. CASE Notify(t)
    <3>1. UNCHANGED <<pc, callVars, lockVars, runnerVars, uvVars, foreign, dest, undefined>>
      BY <2>34 DEF Notify
    <3>2. signal' \in Signals /\ receiver' \in Threads \cup {NULL} /\ frame' \in Nat
      BY <2>34 DEF Notify
    <3> QED BY <3>1, <3>2
  <2> QED
    BY <2>3, <2>4, <2>5, <2>6, <2>7, <2>8, <2>9, <2>10, <2>11, <2>12,
       <2>13, <2>14, <2>15, <2>16, <2>17, <2>18, <2>19, <2>20, <2>21,
       <2>22, <2>23, <2>24, <2>25, <2>26, <2>27, <2>28, <2>29, <2>30,
       <2>31, <2>32, <2>33, <2>34, <2>2
    DEF Calls, Steps, UvRun, Environment
<1> QED BY <1>1, <1>2, PTL DEF Spec

-----------------------------------------------------------------------------
(***************************************************************************)
(* The mutex is held exactly while WakeupNext runs (its other sections are *)
(* one step), and no thread has the loop while it is held.                 *)
(***************************************************************************)
MutexInv ==
  /\ \A t \in Threads : pc[t] \in {"wakenext", "wakeup"} <=> RunMtx = t
  /\ target # NULL <=> \E t \in Threads : pc[t] = "wakeup"
  /\ RunMtx # NULL => ~Running

LockInv == MutexInv /\ OneLoopThread

(* At the start nobody holds the mutex. *)
LEMMA LockInit == Init => LockInv
  BY NullIsNoThread DEF Init, LockInv, MutexInv, OneLoopThread, HasLoop, InUvRun, UvRunPc

(* Every step keeps the mutex and Running exact. *)
LEMMA LockStep == TypeOK /\ LockInv /\ [Next]_vars => LockInv'
<1> SUFFICES ASSUME TypeOK, LockInv, [Next]_vars PROVE LockInv'
  OBVIOUS
<1> USE NullIsNoThread
    DEF TypeOK, LockInv, MutexInv, OneLoopThread, HasLoop, InUvRun, UvRunPc,
        Goto, runnerVars, lockVars, uvVars, callVars, signalVars
<1>1. CASE UNCHANGED vars
  BY <1>1 DEF vars
<1>2. SUFFICES ASSUME NEW t \in Threads,
                         Calls(t) \/ Steps(t) \/ UvRun(t) \/ Environment(t)
                  PROVE  LockInv'
  BY <1>1 DEF Next
<1>3. ASSUME NEW k \in Kinds, SyncWait(t, k) PROVE LockInv'
  BY <1>3 DEF SyncWait, NewRunner
<1>4. CASE SyncWaitTransfer(t)  BY <1>4 DEF SyncWaitTransfer, NewRunner
<1>5. ASSUME NEW m \in Modes, Run(t, m) PROVE LockInv'
  BY <1>5 DEF Run, NewRunner
<1>6. CASE PushBack(t)  BY <1>6 DEF PushBack
<1>7. CASE Fire(t)  BY <1>7 DEF Fire
<1>8. CASE CheckFinished(t)
  <2>1. pc[t] = "check" /\ UNCHANGED <<lockVars>>
    BY <1>8 DEF CheckFinished
  <2>2. PICK v \in {"idle", "lock"} : pc' = [pc EXCEPT ![t] = v]
    BY <1>8 DEF CheckFinished
  <2> QED BY <2>1, <2>2
<1>9. CASE TakeLoop(t)  BY <1>9 DEF TakeLoop
<1>10. CASE LeaveLoop(t)  BY <1>10 DEF LeaveLoop
<1>11. CASE AddRunner(t)  BY <1>11 DEF AddRunner
<1>12. CASE LoadWakeups(t)  BY <1>12 DEF LoadWakeups
<1>13. CASE Awake(t)  BY <1>13 DEF Awake
<1>14. CASE EraseRunner(t)  BY <1>14 DEF EraseRunner
<1>15. CASE RelockAfterRun(t)  BY <1>15 DEF RelockAfterRun
<1>16. CASE WakeupNextNobody(t)  BY <1>16 DEF WakeupNextNobody, AfterRun
<1>17. CASE WakeupNextPop(t)
  <2>1. pc[t] = "wakenext" /\ UNCHANGED <<RunMtx, Running>>
    BY <1>17 DEF WakeupNextPop
  <2>2. CASE Finished(Head(Runners))
    <3>1. pc' = [pc EXCEPT ![t] = "wakenext"] /\ target' = target
      BY <1>17, <2>2 DEF WakeupNextPop
    <3> QED BY <2>1, <3>1
  <2>3. CASE ~Finished(Head(Runners))
    <3>1. pc' = [pc EXCEPT ![t] = "wakeup"] /\ target' = Head(Runners)
      BY <1>17, <2>3 DEF WakeupNextPop
    <3>2. Head(Runners) \in Threads
      BY <1>17 DEF WakeupNextPop
    <3> QED BY <2>1, <3>1, <3>2
  <2> QED BY <2>2, <2>3
<1>18. CASE Wakeup(t)  BY <1>18 DEF Wakeup, AfterRun
<1>19. CASE UvEnter(t)  BY <1>19 DEF UvEnter, FireTimers
<1>20. CASE Turn(t)
  <2>1. pc[t] = "turn" /\ UNCHANGED <<lockVars>>
    BY <1>20 DEF Turn
  <2>2. PICK v \in {"relock", "poll"} : pc' = [pc EXCEPT ![t] = v]
    BY <1>20 DEF Turn
  <2> QED BY <2>1, <2>2
<1>21. CASE PollAsync(t)  BY <1>21 DEF PollAsync
<1>22. CASE PollTimeout(t)  BY <1>22 DEF PollTimeout
<1>23. CASE ApplyDone(t)  BY <1>23 DEF ApplyDone
<1>24. CASE ClosingDone(t)  BY <1>24 DEF ClosingDone
<1>25. CASE RunTimers(t)
  <2>1. pc[t] = "timers" /\ UNCHANGED <<lockVars>>
    BY <1>25 DEF RunTimers
  <2>2. PICK v \in {"turn", "relock"} : pc' = [pc EXCEPT ![t] = v]
    BY <1>25 DEF RunTimers
  <2> QED BY <2>1, <2>2
<1>26. CASE ForeignPushBack(t)  BY <1>26 DEF ForeignPushBack
<1>27. CASE ForeignFire(t)  BY <1>27 DEF ForeignFire
<1>28. CASE Elapse(t)  BY <1>28 DEF Elapse
<1>29. ASSUME NEW u \in Threads, ApplySchedule(t, u) PROVE LockInv'
  BY <1>29 DEF ApplySchedule, SetValue, CallbackReturned
<1>30. ASSUME NEW u \in Threads, ApplyTimer(t, u) PROVE LockInv'
  BY <1>30 DEF ApplyTimer
<1>31. ASSUME NEW u \in Threads, CloseCallback(t, u) PROVE LockInv'
  BY <1>31 DEF CloseCallback, SetValue, CallbackReturned
<1>32. CASE Signal(t)  BY <1>32 DEF Signal, AfterSignal
<1>33. ASSUME NEW stop \in BOOLEAN, NEW hit \in BOOLEAN, SignalLate(t, stop, hit)
      PROVE  LockInv'
  BY <1>33 DEF SignalLate, AfterSignal
<1>34. CASE Notify(t)  BY <1>34 DEF Notify
<1> QED
  BY <1>3, <1>4, <1>5, <1>6, <1>7, <1>8, <1>9, <1>10, <1>11, <1>12, <1>13,
     <1>14, <1>15, <1>16, <1>17, <1>18, <1>19, <1>20, <1>21, <1>22, <1>23,
     <1>24, <1>25, <1>26, <1>27, <1>28, <1>29, <1>30, <1>31, <1>32,
     <1>33, <1>34, <1>2
  DEF Calls, Steps, UvRun, Environment

-----------------------------------------------------------------------------
(***************************************************************************)
(* A runner leaves Wait only through Erase, for which it needs the mutex.  *)
(***************************************************************************)
LEMMA RunnersInit == Init => RunnersAlive
  BY DEF Init, RunnersAlive

(* Every step leaves only runners of waiting threads linked. *)
LEMMA RunnersStep ==
  TypeOK /\ LockInv /\ RunnersAlive /\ [Next]_vars => RunnersAlive'
<1> SUFFICES ASSUME TypeOK, LockInv, RunnersAlive, [Next]_vars
             PROVE  RunnersAlive'
  OBVIOUS
<1> USE NullIsNoThread
    DEF TypeOK, LockInv, MutexInv, RunnersAlive, WaitPc,
        Goto, runnerVars, lockVars, uvVars, callVars, signalVars
<1>1. CASE UNCHANGED vars
  BY <1>1 DEF vars
<1>2. SUFFICES ASSUME NEW t \in Threads,
                         Calls(t) \/ Steps(t) \/ UvRun(t) \/ Environment(t)
                  PROVE  RunnersAlive'
  BY <1>1 DEF Next
<1>3. ASSUME NEW k \in Kinds, SyncWait(t, k) PROVE RunnersAlive'
  BY <1>3 DEF SyncWait, NewRunner
<1>4. CASE SyncWaitTransfer(t)  BY <1>4 DEF SyncWaitTransfer, NewRunner
<1>5. ASSUME NEW m \in Modes, Run(t, m) PROVE RunnersAlive'
  BY <1>5 DEF Run, NewRunner
<1>6. CASE PushBack(t)  BY <1>6 DEF PushBack
<1>7. CASE Fire(t)  BY <1>7 DEF Fire
<1>8. CASE CheckFinished(t)
  <2>1. pc[t] = "check" /\ UNCHANGED <<lockVars>>
    BY <1>8 DEF CheckFinished
  <2>2. PICK v \in {"idle", "lock"} : pc' = [pc EXCEPT ![t] = v]
    BY <1>8 DEF CheckFinished
  <2> QED BY <2>1, <2>2
<1>9. CASE TakeLoop(t)  BY <1>9 DEF TakeLoop
<1>10. CASE LeaveLoop(t)  BY <1>10 DEF LeaveLoop
<1>11. CASE AddRunner(t)
  <2>1. /\ pc[t] = "lock" /\ target' = target
        /\ pc' = [pc EXCEPT ![t] = "wait"]
        /\ Runners' = <<t>> \o Runners
    BY <1>11 DEF AddRunner
  <2>2. \A i \in DOMAIN Runners : Runners[i] # t
    BY <2>1
  <2>3. /\ Runners \in Seq(Threads)
        /\ \A i \in DOMAIN Runners : Runners[i] \in Threads /\ pc[Runners[i]] \in WaitPc
        /\ \A i, j \in DOMAIN Runners : Runners[i] = Runners[j] => i = j
    OBVIOUS
  <2>4. /\ \A i \in DOMAIN (<<t>> \o Runners) :
             \/ (<<t>> \o Runners)[i] = t
             \/ \E k \in DOMAIN Runners : (<<t>> \o Runners)[i] = Runners[k]
        /\ \A i, j \in DOMAIN (<<t>> \o Runners) :
             (<<t>> \o Runners)[i] = (<<t>> \o Runners)[j] => i = j
    BY ONLY t \in Threads, <2>2, <2>3, AddElements
  <2>5. \A u \in Threads : u = t \/ pc[u] \in WaitPc => pc'[u] \in WaitPc
    BY <2>1
  <2>6. \A i \in DOMAIN Runners' : pc'[Runners'[i]] \in WaitPc
    <3>1. \A i \in DOMAIN Runners' :
            Runners'[i] = t \/ \E k \in DOMAIN Runners : Runners'[i] = Runners[k]
      BY ONLY <2>1, <2>4
    <3> QED BY ONLY t \in Threads, <2>3, <2>5, <3>1
  <2> QED BY <2>1, <2>4, <2>6
<1>12. CASE LoadWakeups(t)  BY <1>12 DEF LoadWakeups
<1>13. CASE Awake(t)  BY <1>13 DEF Awake
<1>14. CASE EraseRunner(t)
  <2>1. /\ pc[t] = "erase" /\ RunMtx = NULL /\ target' = target
        /\ \A u \in Threads : u # t => pc'[u] = pc[u]
    BY <1>14 DEF EraseRunner
  <2>2. target = NULL
    BY <2>1
  <2>3. /\ Runners \in Seq(Threads) /\ DOMAIN Runners = 1 .. Len(Runners)
        /\ \A i \in DOMAIN Runners : Runners[i] \in Threads /\ pc[Runners[i]] \in WaitPc
        /\ \A i, j \in DOMAIN Runners : Runners[i] = Runners[j] => i = j
    OBVIOUS
  <2>4. CASE Contains(Runners, t)
    <3>1. PICK i \in DOMAIN Runners :
            Runners[i] = t /\ Runners' = RemoveAt(Runners, i)
      BY <1>14, <2>4 DEF EraseRunner
    <3>2. /\ \A j \in DOMAIN RemoveAt(Runners, i) :
               /\ RemoveAt(Runners, i)[j] # Runners[i]
               /\ \E k \in DOMAIN Runners : RemoveAt(Runners, i)[j] = Runners[k]
          /\ \A j, k \in DOMAIN RemoveAt(Runners, i) :
               RemoveAt(Runners, i)[j] = RemoveAt(Runners, i)[k] => j = k
      BY ONLY i \in DOMAIN Runners, <2>3, EraseElements
    <3>3. \A j \in DOMAIN Runners' : pc'[Runners'[j]] \in WaitPc
      BY <2>1, <2>3, <3>1, <3>2
    <3> QED BY <2>1, <2>2, <3>1, <3>2, <3>3
  <2>5. CASE ~Contains(Runners, t)
    <3>1. Runners' = Runners
      BY <1>14, <2>5 DEF EraseRunner
    <3>2. \A i \in DOMAIN Runners : Runners[i] # t
      BY <2>3, <2>5 DEF Contains
    <3> QED BY <2>1, <2>2, <2>3, <3>1, <3>2
  <2> QED BY <2>4, <2>5
<1>15. CASE RelockAfterRun(t)  BY <1>15 DEF RelockAfterRun
<1>16. CASE WakeupNextNobody(t)  BY <1>16 DEF WakeupNextNobody, AfterRun
<1>17. CASE WakeupNextPop(t)
  <2>1. /\ Runners # <<>> /\ Runners' = Tail(Runners)
        /\ target' \in {target, Head(Runners)}
    BY <1>17 DEF WakeupNextPop
  <2>2. \A u \in Threads : pc[u] \in WaitPc => pc'[u] \in WaitPc
    BY <1>17 DEF WakeupNextPop
  <2>3. /\ Runners \in Seq(Threads)
        /\ \A i \in DOMAIN Runners : Runners[i] \in Threads /\ pc[Runners[i]] \in WaitPc
        /\ \A i, j \in DOMAIN Runners : Runners[i] = Runners[j] => i = j
    OBVIOUS
  <2>4. /\ Head(Runners) \in Threads
        /\ \E k \in DOMAIN Runners : Head(Runners) = Runners[k]
        /\ \A j \in DOMAIN Tail(Runners) :
             \E k \in DOMAIN Runners : Tail(Runners)[j] = Runners[k]
        /\ \A j, k \in DOMAIN Tail(Runners) :
             Tail(Runners)[j] = Tail(Runners)[k] => j = k
    BY ONLY <2>1, <2>3, PopElements
  <2>5. \A i \in DOMAIN Runners' : pc'[Runners'[i]] \in WaitPc
    <3>1. \A i \in DOMAIN Runners' :
            \E k \in DOMAIN Runners : Runners'[i] = Runners[k]
      BY ONLY <2>1, <2>4
    <3> QED BY ONLY <2>2, <2>3, <3>1
  <2>6. target' # NULL => pc'[target'] \in WaitPc
    BY <2>1, <2>2, <2>4, <2>3
  <2> QED BY <2>1, <2>4, <2>5, <2>6
<1>18. CASE Wakeup(t)  BY <1>18 DEF Wakeup, AfterRun
<1>19. CASE UvEnter(t)  BY <1>19 DEF UvEnter, FireTimers
<1>20. CASE Turn(t)
  <2>1. pc[t] = "turn" /\ UNCHANGED <<lockVars>>
    BY <1>20 DEF Turn
  <2>2. PICK v \in {"relock", "poll"} : pc' = [pc EXCEPT ![t] = v]
    BY <1>20 DEF Turn
  <2> QED BY <2>1, <2>2
<1>21. CASE PollAsync(t)  BY <1>21 DEF PollAsync
<1>22. CASE PollTimeout(t)  BY <1>22 DEF PollTimeout
<1>23. CASE ApplyDone(t)  BY <1>23 DEF ApplyDone
<1>24. CASE ClosingDone(t)  BY <1>24 DEF ClosingDone
<1>25. CASE RunTimers(t)
  <2>1. pc[t] = "timers" /\ UNCHANGED <<lockVars>>
    BY <1>25 DEF RunTimers
  <2>2. PICK v \in {"turn", "relock"} : pc' = [pc EXCEPT ![t] = v]
    BY <1>25 DEF RunTimers
  <2> QED BY <2>1, <2>2
<1>26. CASE ForeignPushBack(t)  BY <1>26 DEF ForeignPushBack
<1>27. CASE ForeignFire(t)  BY <1>27 DEF ForeignFire
<1>28. CASE Elapse(t)  BY <1>28 DEF Elapse
<1>29. ASSUME NEW u \in Threads, ApplySchedule(t, u) PROVE RunnersAlive'
  BY <1>29 DEF ApplySchedule, SetValue, CallbackReturned
<1>30. ASSUME NEW u \in Threads, ApplyTimer(t, u) PROVE RunnersAlive'
  BY <1>30 DEF ApplyTimer
<1>31. ASSUME NEW u \in Threads, CloseCallback(t, u) PROVE RunnersAlive'
  BY <1>31 DEF CloseCallback, SetValue, CallbackReturned
<1>32. CASE Signal(t)  BY <1>32 DEF Signal, AfterSignal
<1>33. ASSUME NEW stop \in BOOLEAN, NEW hit \in BOOLEAN, SignalLate(t, stop, hit)
      PROVE  RunnersAlive'
  BY <1>33 DEF SignalLate, AfterSignal
<1>34. CASE Notify(t)  BY <1>34 DEF Notify
<1> QED
  BY <1>3, <1>4, <1>5, <1>6, <1>7, <1>8, <1>9, <1>10, <1>11, <1>12, <1>13,
     <1>14, <1>15, <1>16, <1>17, <1>18, <1>19, <1>20, <1>21, <1>22, <1>23,
     <1>24, <1>25, <1>26, <1>27, <1>28, <1>29, <1>30, <1>31, <1>32,
     <1>33, <1>34, <1>2
  DEF Calls, Steps, UvRun, Environment

-----------------------------------------------------------------------------
(***************************************************************************)
(* What keeps Wakeup from reviving a finished runner: WakeupNext holds the *)
(* mutex with no thread in uv_run, so that nobody finishes its target.     *)
(***************************************************************************)
TargetInv == target # NULL => ~Finished(target)

(***************************************************************************)
(* Where operations are, and what the loop thread does in a receiver.  The *)
(* runner of a call whose result threw stays finished until the call ends, *)
(* so that the second signal changes nothing while its frame exists.       *)
(***************************************************************************)
FrameInv ==
  ~undefined =>
    /\ FrameOutlivesUse
    /\ \A t \in Threads : pc[t] = "push" => opAt[t] = "start"
    /\ \A t \in Threads : foreign[t] = "push" => opAt[t] = "foreign"
    /\ \A t \in Threads : Signalling(t) => opAt[t] = "none" /\ dest[t]
    /\ signal # "none" => receiver \in Threads /\ frame <= calls[receiver]
    /\ signal \in {"error_notify", "signal_again"} /\ FrameAlive
         => InSyncWait(receiver) /\ Finished(receiver)

OpsInv == TargetInv /\ FrameInv

(* At the start the loop has no operation. *)
LEMMA OpsInit == Init => OpsInv
  BY NullIsNoThread DEF Init, OpsInv, TargetInv, FrameInv, FrameOutlivesUse, Signalling,
     InSyncWait, Finished

(* Nobody finishes the runner that is about to be woken. *)
LEMMA TargetStep ==
  TypeOK /\ LockInv /\ RunnersAlive /\ TargetInv /\ [Next]_vars => TargetInv'
<1> SUFFICES ASSUME TypeOK, LockInv, RunnersAlive, TargetInv, [Next]_vars
             PROVE  TargetInv'
  OBVIOUS
<1> USE NullIsNoThread
    DEF TypeOK, LockInv, MutexInv, RunnersAlive, WaitPc, TargetInv, Finished,
        Goto, runnerVars, lockVars, uvVars, callVars, signalVars
<1>1. CASE UNCHANGED vars
  BY <1>1 DEF vars
<1>2. SUFFICES ASSUME NEW t \in Threads,
                         Calls(t) \/ Steps(t) \/ UvRun(t) \/ Environment(t)
                  PROVE  TargetInv'
  BY <1>1 DEF Next
<1>3. ASSUME NEW k \in Kinds, SyncWait(t, k) PROVE TargetInv'
  <2>1. pc[t] = "idle" /\ UNCHANGED target /\ \A v \in Threads : v # t => Awakenings'[v] = Awakenings[v]
    BY <1>3 DEF SyncWait, NewRunner
  <2> QED BY <2>1
<1>4. CASE SyncWaitTransfer(t)  BY <1>4 DEF SyncWaitTransfer, NewRunner
<1>5. ASSUME NEW m \in Modes, Run(t, m) PROVE TargetInv'
  BY <1>5 DEF Run, NewRunner
<1>6. CASE PushBack(t)  BY <1>6 DEF PushBack
<1>7. CASE Fire(t)  BY <1>7 DEF Fire
<1>8. CASE CheckFinished(t)  BY <1>8 DEF CheckFinished
<1>9. CASE TakeLoop(t)  BY <1>9 DEF TakeLoop
<1>10. CASE LeaveLoop(t)  BY <1>10 DEF LeaveLoop
<1>11. CASE AddRunner(t)  BY <1>11 DEF AddRunner
<1>12. CASE LoadWakeups(t)  BY <1>12 DEF LoadWakeups
<1>13. CASE Awake(t)  BY <1>13 DEF Awake
<1>14. CASE EraseRunner(t)  BY <1>14 DEF EraseRunner
<1>15. CASE RelockAfterRun(t)  BY <1>15 DEF RelockAfterRun
<1>16. CASE WakeupNextNobody(t)  BY <1>16 DEF WakeupNextNobody, AfterRun
<1>17. CASE WakeupNextPop(t)
  <2>1. target' = target \/ (target' = Head(Runners) /\ ~Finished(Head(Runners)))
    BY <1>17 DEF WakeupNextPop
  <2> QED BY <1>17, <2>1 DEF WakeupNextPop
<1>18. CASE Wakeup(t)  BY <1>18 DEF Wakeup, AfterRun
<1>19. CASE UvEnter(t)  BY <1>19 DEF UvEnter, FireTimers
<1>20. CASE Turn(t)  BY <1>20 DEF Turn
<1>21. CASE PollAsync(t)  BY <1>21 DEF PollAsync
<1>22. CASE PollTimeout(t)  BY <1>22 DEF PollTimeout
<1>23. CASE ApplyDone(t)  BY <1>23 DEF ApplyDone
<1>24. CASE ClosingDone(t)  BY <1>24 DEF ClosingDone
<1>25. CASE RunTimers(t)  BY <1>25 DEF RunTimers, FireTimers
<1>26. CASE ForeignPushBack(t)  BY <1>26 DEF ForeignPushBack
<1>27. CASE ForeignFire(t)  BY <1>27 DEF ForeignFire
<1>28. CASE Elapse(t)  BY <1>28 DEF Elapse
<1>29. ASSUME NEW u \in Threads, ApplySchedule(t, u) PROVE TargetInv'
  BY <1>29 DEF ApplySchedule, SetValue, CallbackReturned
<1>30. ASSUME NEW u \in Threads, ApplyTimer(t, u) PROVE TargetInv'
  BY <1>30 DEF ApplyTimer
<1>31. ASSUME NEW u \in Threads, CloseCallback(t, u) PROVE TargetInv'
  BY <1>31 DEF CloseCallback, SetValue, CallbackReturned
<1>32. CASE Signal(t)
  <2>1. target = NULL /\ target' = target
    BY <1>32 DEF Signal, HasLoop, OneLoopThread
  <2> QED BY <2>1
<1>33. ASSUME NEW stop \in BOOLEAN, NEW hit \in BOOLEAN, SignalLate(t, stop, hit)
      PROVE  TargetInv'
  <2>1. target = NULL /\ target' = target
    BY <1>33 DEF SignalLate, HasLoop, OneLoopThread
  <2> QED BY <2>1
<1>34. CASE Notify(t)  BY <1>34 DEF Notify
<1> QED
  BY <1>3, <1>4, <1>5, <1>6, <1>7, <1>8, <1>9, <1>10, <1>11, <1>12, <1>13,
     <1>14, <1>15, <1>16, <1>17, <1>18, <1>19, <1>20, <1>21, <1>22, <1>23,
     <1>24, <1>25, <1>26, <1>27, <1>28, <1>29, <1>30, <1>31, <1>32,
     <1>33, <1>34, <1>2
  DEF Calls, Steps, UvRun, Environment

(* Every step keeps the frame of a sync_wait until the last use but the notification. *)
LEMMA FrameStep ==
  TypeOK /\ LockInv /\ TargetInv /\ FrameInv /\ [Next]_vars => FrameInv'
<1> SUFFICES ASSUME TypeOK, LockInv, TargetInv, FrameInv, [Next]_vars
             PROVE  FrameInv'
  OBVIOUS
<1> USE NullIsNoThread
    DEF TypeOK, LockInv, MutexInv, FrameInv, FrameOutlivesUse, Signalling, FrameAlive,
        InSyncWait, Finished, Signals,
        Goto, runnerVars, lockVars, uvVars, callVars, signalVars
<1>1. CASE UNCHANGED vars
  BY <1>1 DEF vars
<1>2. SUFFICES ASSUME NEW t \in Threads,
                         Calls(t) \/ Steps(t) \/ UvRun(t) \/ Environment(t)
                  PROVE  FrameInv'
  BY <1>1 DEF Next
<1>3. ASSUME NEW k \in Kinds, SyncWait(t, k) PROVE FrameInv'
  BY <1>3 DEF SyncWait, NewRunner
<1>4. CASE SyncWaitTransfer(t)  BY <1>4 DEF SyncWaitTransfer, NewRunner
<1>5. ASSUME NEW m \in Modes, Run(t, m) PROVE FrameInv'
  BY <1>5 DEF Run, NewRunner
<1>6. CASE PushBack(t)  BY <1>6 DEF PushBack
<1>7. CASE Fire(t)  BY <1>7 DEF Fire
<1>8. CASE CheckFinished(t)  BY <1>8 DEF CheckFinished
<1>9. CASE TakeLoop(t)  BY <1>9 DEF TakeLoop
<1>10. CASE LeaveLoop(t)  BY <1>10 DEF LeaveLoop
<1>11. CASE AddRunner(t)  BY <1>11 DEF AddRunner
<1>12. CASE LoadWakeups(t)  BY <1>12 DEF LoadWakeups
<1>13. CASE Awake(t)  BY <1>13 DEF Awake
<1>14. CASE EraseRunner(t)  BY <1>14 DEF EraseRunner
<1>15. CASE RelockAfterRun(t)  BY <1>15 DEF RelockAfterRun
<1>16. CASE WakeupNextNobody(t)
  <2>1. /\ pc[t] = "wakenext" /\ pc' = [pc EXCEPT ![t] = AfterRun(t)]
        /\ UNCHANGED <<runnerVars, callVars, opAt, foreign, signalVars>>
    BY <1>16 DEF WakeupNextNobody
  <2>2. \A v \in Threads : mode'[v] = "sync_wait" /\ pc'[v] # "idle"
                       <=> mode[v] = "sync_wait" /\ pc[v] # "idle"
    BY <2>1 DEF AfterRun
  <2>3. \A v \in Threads : pc'[v] = "push" => pc[v] = "push"
    BY <2>1 DEF AfterRun
  <2>4. \A v \in Threads : pc'[v] # "idle" => pc[v] # "idle"
    BY <2>1
  <2> QED BY <2>1, <2>2, <2>3, <2>4
<1>17. CASE WakeupNextPop(t)
  <2>1. pc[t] = "wakenext" /\ UNCHANGED <<runnerVars, callVars, opAt, foreign, signalVars>>
    BY <1>17 DEF WakeupNextPop
  <2>2. PICK v \in {"wakenext", "wakeup"} : pc' = [pc EXCEPT ![t] = v]
    BY <1>17 DEF WakeupNextPop
  <2> QED BY <2>1, <2>2
<1>18. CASE Wakeup(t)
  <2>1. /\ pc[t] = "wakeup" /\ pc' = [pc EXCEPT ![t] = AfterRun(t)]
        /\ UNCHANGED <<callVars, opAt, foreign, signalVars>>
        /\ Awakenings' = [Awakenings EXCEPT ![target] = @ + 1]
    BY <1>18 DEF Wakeup
  <2>2. target \in Threads /\ Awakenings[target] # 0
    BY <2>1 DEF TargetInv
  <2>3. \A v \in Threads : Awakenings'[v] = 0 <=> Awakenings[v] = 0
    BY <2>1, <2>2
  <2>4. \A v \in Threads : mode'[v] = "sync_wait" /\ pc'[v] # "idle"
                       <=> mode[v] = "sync_wait" /\ pc[v] # "idle"
    BY <2>1 DEF AfterRun
  <2>5. \A v \in Threads : pc'[v] = "push" => pc[v] = "push"
    BY <2>1 DEF AfterRun
  <2>6. \A v \in Threads : pc'[v] # "idle" => pc[v] # "idle"
    BY <2>1
  <2> QED BY <2>1, <2>3, <2>4, <2>5, <2>6
<1>19. CASE UvEnter(t)
  <2>1. /\ pc[t] = "uv_enter" /\ pc' = [pc EXCEPT ![t] = "turn"]
        /\ opAt' = FireTimers \/ opAt' = opAt
        /\ UNCHANGED <<lockVars, callVars, runnerVars, foreign, signalVars>>
    BY <1>19 DEF UvEnter
  <2> QED BY <2>1 DEF FireTimers
<1>20. CASE Turn(t)
  <2>1. pc[t] = "turn" /\ UNCHANGED <<lockVars, callVars, runnerVars, opAt, foreign, signalVars>>
    BY <1>20 DEF Turn
  <2>2. PICK v \in {"relock", "poll"} : pc' = [pc EXCEPT ![t] = v]
    BY <1>20 DEF Turn
  <2> QED BY <2>1, <2>2
<1>21. CASE PollAsync(t)  BY <1>21 DEF PollAsync
<1>22. CASE PollTimeout(t)  BY <1>22 DEF PollTimeout
<1>23. CASE ApplyDone(t)  BY <1>23 DEF ApplyDone
<1>24. CASE ClosingDone(t)  BY <1>24 DEF ClosingDone
<1>25. CASE RunTimers(t)
  <2>1. /\ pc[t] = "timers" /\ opAt' = FireTimers
        /\ UNCHANGED <<lockVars, callVars, runnerVars, foreign, signalVars>>
    BY <1>25 DEF RunTimers
  <2>2. PICK v \in {"turn", "relock"} : pc' = [pc EXCEPT ![t] = v]
    BY <1>25 DEF RunTimers
  <2> QED BY <2>1, <2>2 DEF FireTimers
<1>26. CASE ForeignPushBack(t)  BY <1>26 DEF ForeignPushBack
<1>27. CASE ForeignFire(t)  BY <1>27 DEF ForeignFire
<1>28. CASE Elapse(t)  BY <1>28 DEF Elapse
<1>29. ASSUME NEW u \in Threads, ApplySchedule(t, u) PROVE FrameInv'
  BY <1>29 DEF ApplySchedule, SetValue, CallbackReturned
<1>30. ASSUME NEW u \in Threads, ApplyTimer(t, u) PROVE FrameInv'
  <2>1. /\ opAt[u] = "batch" /\ signal = "none" /\ opAt' = [opAt EXCEPT ![u] = "armed"]
        /\ UNCHANGED <<pc, callVars, runnerVars, foreign, signalVars>>
    BY <1>30 DEF ApplyTimer, CallbackReturned
  <2>2. \A v \in Threads : opAt'[v] = "none" <=> opAt[v] = "none"
    BY <2>1
  <2>3. \A v \in Threads : opAt[v] \in {"start", "foreign"} => opAt'[v] = opAt[v]
    BY <2>1
  <2> QED BY <2>1, <2>2, <2>3
<1>31. ASSUME NEW u \in Threads, CloseCallback(t, u) PROVE FrameInv'
  BY <1>31 DEF CloseCallback, SetValue, CallbackReturned
<1>32. CASE Signal(t)  BY <1>32 DEF Signal, AfterSignal
<1>33. ASSUME NEW stop \in BOOLEAN, NEW hit \in BOOLEAN, SignalLate(t, stop, hit)
      PROVE  FrameInv'
  BY <1>33 DEF SignalLate, AfterSignal
<1>34. CASE Notify(t)  BY <1>34 DEF Notify
<1> QED
  BY <1>3, <1>4, <1>5, <1>6, <1>7, <1>8, <1>9, <1>10, <1>11, <1>12, <1>13,
     <1>14, <1>15, <1>16, <1>17, <1>18, <1>19, <1>20, <1>21, <1>22, <1>23,
     <1>24, <1>25, <1>26, <1>27, <1>28, <1>29, <1>30, <1>31, <1>32,
     <1>33, <1>34, <1>2
  DEF Calls, Steps, UvRun, Environment

(* Every step keeps the place of each operation known. *)
LEMMA OpsStep ==
  TypeOK /\ LockInv /\ RunnersAlive /\ OpsInv /\ [Next]_vars => OpsInv'
  BY TargetStep, FrameStep DEF OpsInv

-----------------------------------------------------------------------------
(* Only a thread in uv_run stops the loop, and uv_run clears the request.  *)
LEMMA StopInit == Init => NoStaleStop
  BY DEF Init, NoStaleStop

(* Every step keeps libuv's stop flag inside a uv_run. *)
LEMMA StopStep == TypeOK /\ NoStaleStop /\ [Next]_vars => NoStaleStop'
<1> SUFFICES ASSUME TypeOK, NoStaleStop, [Next]_vars PROVE NoStaleStop'
  OBVIOUS
<1> USE DEF TypeOK, NoStaleStop, InUvRun, UvRunPc,
            Goto, runnerVars, lockVars, uvVars, callVars, signalVars
<1>1. CASE UNCHANGED vars
  BY <1>1 DEF vars
<1>2. SUFFICES ASSUME NEW t \in Threads,
                         Calls(t) \/ Steps(t) \/ UvRun(t) \/ Environment(t)
                  PROVE  NoStaleStop'
  BY <1>1 DEF Next
<1>3. ASSUME NEW k \in Kinds, SyncWait(t, k) PROVE NoStaleStop'
  BY <1>3 DEF SyncWait, NewRunner
<1>4. CASE SyncWaitTransfer(t)  BY <1>4 DEF SyncWaitTransfer, NewRunner
<1>5. ASSUME NEW m \in Modes, Run(t, m) PROVE NoStaleStop'
  BY <1>5 DEF Run, NewRunner
<1>6. CASE PushBack(t)  BY <1>6 DEF PushBack
<1>7. CASE Fire(t)  BY <1>7 DEF Fire
<1>8. CASE CheckFinished(t)
  <2>1. pc[t] = "check" /\ UNCHANGED stopFlag
    BY <1>8 DEF CheckFinished
  <2>2. \A v \in Threads : v # t => pc'[v] = pc[v]
    BY <1>8 DEF CheckFinished
  <2> QED BY <2>1, <2>2
<1>9. CASE TakeLoop(t)  BY <1>9 DEF TakeLoop
<1>10. CASE LeaveLoop(t)  BY <1>10 DEF LeaveLoop
<1>11. CASE AddRunner(t)  BY <1>11 DEF AddRunner
<1>12. CASE LoadWakeups(t)  BY <1>12 DEF LoadWakeups
<1>13. CASE Awake(t)  BY <1>13 DEF Awake
<1>14. CASE EraseRunner(t)  BY <1>14 DEF EraseRunner
<1>15. CASE RelockAfterRun(t)  BY <1>15 DEF RelockAfterRun
<1>16. CASE WakeupNextNobody(t)  BY <1>16 DEF WakeupNextNobody, AfterRun
<1>17. CASE WakeupNextPop(t)
  <2>1. pc[t] = "wakenext" /\ UNCHANGED stopFlag
    BY <1>17 DEF WakeupNextPop
  <2>2. \A v \in Threads : v # t => pc'[v] = pc[v]
    BY <1>17 DEF WakeupNextPop
  <2> QED BY <2>1, <2>2
<1>18. CASE Wakeup(t)  BY <1>18 DEF Wakeup, AfterRun
<1>19. CASE UvEnter(t)  BY <1>19 DEF UvEnter, FireTimers
<1>20. CASE Turn(t)
  <2>1. stopFlag' = FALSE
    BY <1>20 DEF Turn
  <2> QED BY <2>1
<1>21. CASE PollAsync(t)  BY <1>21 DEF PollAsync
<1>22. CASE PollTimeout(t)  BY <1>22 DEF PollTimeout
<1>23. CASE ApplyDone(t)  BY <1>23 DEF ApplyDone
<1>24. CASE ClosingDone(t)  BY <1>24 DEF ClosingDone
<1>25. CASE RunTimers(t)
  <2>1. CASE mode[t] \in {"sync_wait", "run"}
    <3>1. pc[t] = "timers" /\ pc' = [pc EXCEPT ![t] = "turn"]
      BY <1>25, <2>1 DEF RunTimers
    <3> QED BY <3>1
  <2>2. CASE mode[t] \notin {"sync_wait", "run"}
    <3>1. stopFlag' = FALSE
      BY <1>25, <2>2 DEF RunTimers
    <3> QED BY <3>1
  <2> QED BY <2>1, <2>2
<1>26. CASE ForeignPushBack(t)  BY <1>26 DEF ForeignPushBack
<1>27. CASE ForeignFire(t)  BY <1>27 DEF ForeignFire
<1>28. CASE Elapse(t)  BY <1>28 DEF Elapse
<1>29. ASSUME NEW u \in Threads, ApplySchedule(t, u) PROVE NoStaleStop'
  BY <1>29 DEF ApplySchedule, SetValue, CallbackReturned
<1>30. ASSUME NEW u \in Threads, ApplyTimer(t, u) PROVE NoStaleStop'
  BY <1>30 DEF ApplyTimer
<1>31. ASSUME NEW u \in Threads, CloseCallback(t, u) PROVE NoStaleStop'
  BY <1>31 DEF CloseCallback, SetValue, CallbackReturned
<1>32. CASE Signal(t)  BY <1>32 DEF Signal, AfterSignal
<1>33. ASSUME NEW stop \in BOOLEAN, NEW hit \in BOOLEAN, SignalLate(t, stop, hit)
      PROVE  NoStaleStop'
  BY <1>33 DEF SignalLate, AfterSignal
<1>34. CASE Notify(t)  BY <1>34 DEF Notify
<1> QED
  BY <1>3, <1>4, <1>5, <1>6, <1>7, <1>8, <1>9, <1>10, <1>11, <1>12, <1>13,
     <1>14, <1>15, <1>16, <1>17, <1>18, <1>19, <1>20, <1>21, <1>22, <1>23,
     <1>24, <1>25, <1>26, <1>27, <1>28, <1>29, <1>30, <1>31, <1>32,
     <1>33, <1>34, <1>2
  DEF Calls, Steps, UvRun, Environment

-----------------------------------------------------------------------------
(***************************************************************************)
(* Acq when nobody calls finish() by hand and no result throws: a runner   *)
(* that has acquired the loop is in uv_run or finished and on its way out, *)
(* and the loop is being stopped exactly when the sync_wait that runs it   *)
(* is finished.                                                            *)
(***************************************************************************)
AcqInv ==
  /\ \A t \in Threads : kind[t] \notin {"finish", "throw"}
  /\ ~undefined /\ signal \in {"none", "signal", "notify"}
  /\ \A t \in Threads : InSyncWait(t) /\ Acq[t] =>
       \/ InUvRun(t)
       \/ Finished(t) /\ pc[t] \in {"relock", "wakenext", "wakeup", "check"}
  /\ \A t \in Threads : InUvRun(t) =>
       (stopFlag <=> mode[t] = "sync_wait" /\ Finished(t))
  /\ \A t \in Threads : InSyncWait(t) /\ InUvRun(t) => Acq[t]

(* At the start no runner has acquired the loop. *)
LEMMA AcqInit == Init => AcqInv
  BY DEF Init, AcqInv, InSyncWait, InUvRun, UvRunPc

(* Every step keeps Acq exact, when no operation calls finish() and no result throws. *)
LEMMA AcqStep ==
  ASSUME Kinds \cap {"finish", "throw"} = {}
  PROVE  TypeOK /\ LockInv /\ OpsInv /\ NoStaleStop /\ AcqInv /\ [Next]_vars => AcqInv'
<1> SUFFICES ASSUME TypeOK, LockInv, OpsInv, NoStaleStop, AcqInv, [Next]_vars
             PROVE  AcqInv'
  OBVIOUS
<1> USE NullIsNoThread
    DEF TypeOK, AcqInv, InSyncWait, Finished, InUvRun, UvRunPc,
        Goto, runnerVars, lockVars, uvVars, callVars, signalVars
<1>1. CASE UNCHANGED vars
  BY <1>1 DEF vars
<1>2. SUFFICES ASSUME NEW t \in Threads,
                         Calls(t) \/ Steps(t) \/ UvRun(t) \/ Environment(t)
                  PROVE  AcqInv'
  BY <1>1 DEF Next
<1>3. ASSUME NEW k \in Kinds, SyncWait(t, k) PROVE AcqInv'
  <2>1. k \notin {"finish", "throw"}
    BY Kinds \cap {"finish", "throw"} = {}
  <2> QED BY <1>3, <2>1 DEF SyncWait, NewRunner
<1>4. CASE SyncWaitTransfer(t)  BY <1>4 DEF SyncWaitTransfer, NewRunner
<1>5. ASSUME NEW m \in Modes, Run(t, m) PROVE AcqInv'
  BY <1>5 DEF Run, NewRunner
<1>6. CASE PushBack(t)  BY <1>6 DEF PushBack
<1>7. CASE Fire(t)  BY <1>7 DEF Fire
<1>8. CASE CheckFinished(t)
  <2>1. /\ pc[t] = "check" /\ UNCHANGED <<callVars, runnerVars, stopFlag, signalVars>>
        /\ \A v \in Threads : v # t => pc'[v] = pc[v]
        /\ pc'[t] = IF Finished(t) THEN "idle" ELSE "lock"
    BY <1>8 DEF CheckFinished
  <2> QED BY <2>1
<1>9. CASE TakeLoop(t)
  <2>1. /\ pc[t] = "lock" /\ pc' = [pc EXCEPT ![t] = "uv_enter"]
        /\ ~Running /\ AcquireIfNotFinished(t)
        /\ Acq' = [Acq EXCEPT ![t] = @ \/ mode[t] = "sync_wait"]
        /\ UNCHANGED <<callVars, Awakenings, stopFlag, signalVars>>
    BY <1>9 DEF TakeLoop
  <2>2. stopFlag = FALSE /\ \A v \in Threads : ~InUvRun(v)
    BY <2>1 DEF LockInv, OneLoopThread, HasLoop, NoStaleStop
  <2>3. mode[t] = "sync_wait" => ~Acq[t] /\ ~Finished(t)
    BY <2>1 DEF AcquireIfNotFinished
  <2>4. \A v \in Threads : InUvRun(v)' <=> v = t
    BY <2>1, <2>2
  <2>5. (mode[t] = "sync_wait" => Acq'[t]) /\ \A v \in Threads : v # t => Acq'[v] = Acq[v]
    BY <2>1, <2>3
  <2>6. \A v \in Threads : v # t => pc'[v] = pc[v]
    BY <2>1
  <2> QED BY <2>1, <2>2, <2>3, <2>4, <2>5, <2>6
<1>10. CASE LeaveLoop(t)  BY <1>10 DEF LeaveLoop, AcquireIfNotFinished
<1>11. CASE AddRunner(t)  BY <1>11 DEF AddRunner
<1>12. CASE LoadWakeups(t)  BY <1>12 DEF LoadWakeups
<1>13. CASE Awake(t)  BY <1>13 DEF Awake
<1>14. CASE EraseRunner(t)  BY <1>14 DEF EraseRunner
<1>15. CASE RelockAfterRun(t)  BY <1>15 DEF RelockAfterRun
<1>16. CASE WakeupNextNobody(t)  BY <1>16 DEF WakeupNextNobody, AfterRun
<1>17. CASE WakeupNextPop(t)
  <2>1. /\ pc[t] = "wakenext" /\ UNCHANGED <<callVars, runnerVars, stopFlag, signalVars>>
        /\ \A v \in Threads : v # t => pc'[v] = pc[v]
        /\ pc'[t] \in {"wakenext", "wakeup"}
    BY <1>17 DEF WakeupNextPop
  <2> QED BY <2>1
<1>18. CASE Wakeup(t)
  <2>1. /\ pc[t] = "wakeup" /\ UNCHANGED <<callVars, Acq, stopFlag, signalVars>>
        /\ \A v \in Threads : v # t => pc'[v] = pc[v]
        /\ pc'[t] = AfterRun(t)
        /\ Awakenings' = [Awakenings EXCEPT ![target] = @ + 1]
    BY <1>18 DEF Wakeup
  <2>2. target \in Threads /\ Awakenings[target] # 0
    BY <2>1 DEF LockInv, MutexInv, OpsInv, TargetInv
  <2>3. \A v \in Threads : Awakenings'[v] = 0 <=> Awakenings[v] = 0
    BY <2>1, <2>2
  <2>4. (pc'[t] = "idle" /\ mode[t] # "sync_wait") \/ pc'[t] = "check"
    BY <2>1 DEF AfterRun
  <2> QED BY <2>1, <2>3, <2>4
<1>19. CASE UvEnter(t)  BY <1>19 DEF UvEnter, FireTimers
<1>20. CASE Turn(t)
  <2>1. /\ pc[t] = "turn" /\ UNCHANGED <<callVars, runnerVars, signalVars>> /\ stopFlag' = FALSE
        /\ pc'[t] = IF stopFlag THEN "relock" ELSE "poll"
        /\ \A v \in Threads : v # t => pc'[v] = pc[v]
    BY <1>20 DEF Turn
  <2>2. InUvRun(t) /\ \A v \in Threads : InUvRun(v) => v = t
    BY <2>1 DEF LockInv, OneLoopThread, HasLoop
  <2>3. CASE stopFlag
    BY <2>1, <2>2, <2>3
  <2>4. CASE ~stopFlag
    BY <2>1, <2>2, <2>4
  <2> QED BY <2>3, <2>4
<1>21. CASE PollAsync(t)  BY <1>21 DEF PollAsync
<1>22. CASE PollTimeout(t)  BY <1>22 DEF PollTimeout
<1>23. CASE ApplyDone(t)  BY <1>23 DEF ApplyDone
<1>24. CASE ClosingDone(t)  BY <1>24 DEF ClosingDone
<1>25. CASE RunTimers(t)
  <2>1. /\ pc[t] = "timers" /\ UNCHANGED <<callVars, runnerVars, signalVars>>
        /\ \A v \in Threads : v # t => pc'[v] = pc[v]
    BY <1>25 DEF RunTimers
  <2>2. InUvRun(t) /\ \A v \in Threads : InUvRun(v) => v = t
    BY <2>1 DEF LockInv, OneLoopThread, HasLoop
  <2>3. CASE mode[t] \in {"sync_wait", "run"}
    <3>1. pc'[t] = "turn" /\ stopFlag' = stopFlag
      BY <1>25, <2>3 DEF RunTimers
    <3> QED BY <2>1, <2>2, <3>1
  <2>4. CASE mode[t] \notin {"sync_wait", "run"}
    <3>1. pc'[t] = "relock" /\ stopFlag' = FALSE
      BY <1>25, <2>4 DEF RunTimers
    <3> QED BY <2>1, <2>2, <2>4, <3>1
  <2> QED BY <2>3, <2>4
<1>26. CASE ForeignPushBack(t)  BY <1>26 DEF ForeignPushBack
<1>27. CASE ForeignFire(t)  BY <1>27 DEF ForeignFire
<1>28. CASE Elapse(t)  BY <1>28 DEF Elapse
<1>29. ASSUME NEW u \in Threads, ApplySchedule(t, u) PROVE AcqInv'
  <2>1. /\ kind[u] \notin {"finish", "throw"} /\ stopFlag' = stopFlag
        /\ signal' = "signal" /\ UNCHANGED <<pc, callVars, runnerVars, undefined>>
    BY <1>29 DEF ApplySchedule, SetValue
  <2> QED BY <2>1
<1>30. ASSUME NEW u \in Threads, ApplyTimer(t, u) PROVE AcqInv'
  BY <1>30 DEF ApplyTimer
<1>31. ASSUME NEW u \in Threads, CloseCallback(t, u) PROVE AcqInv'
  <2>1. /\ kind[u] \notin {"finish", "throw"} /\ stopFlag' = stopFlag
        /\ signal' = "signal" /\ UNCHANGED <<pc, callVars, runnerVars, undefined>>
    BY <1>31 DEF CloseCallback, SetValue
  <2> QED BY <2>1
<1>32. CASE Signal(t)
  <2>1. /\ InUvRun(t) /\ signal = "signal" /\ signal' = "notify"
        /\ Awakenings' = [Awakenings EXCEPT ![receiver] = 0]
        /\ stopFlag' = (stopFlag \/ Acq[receiver])
        /\ UNCHANGED <<pc, callVars, Acq, undefined>>
    BY <1>32 DEF Signal, AfterSignal
  <2>2. \A v \in Threads : InUvRun(v) => v = t
    BY <2>1 DEF LockInv, OneLoopThread, HasLoop
  <2>3. receiver \in Threads /\ InSyncWait(receiver) /\ ~Finished(receiver)
    BY <2>1 DEF OpsInv, FrameInv, FrameOutlivesUse, Signalling
  <2>4. Acq[receiver] <=> receiver = t
    BY <2>1, <2>2, <2>3
  <2>5. CASE receiver = t
    BY <2>1, <2>2, <2>3, <2>4, <2>5
  <2>6. CASE receiver # t
    BY <2>1, <2>2, <2>3, <2>4, <2>6
  <2> QED BY <2>5, <2>6
<1>33. ASSUME NEW stop \in BOOLEAN, NEW hit \in BOOLEAN, SignalLate(t, stop, hit)
      PROVE  AcqInv'
  <2>1. signal = "signal" /\ ~FrameAlive
    BY <1>33 DEF SignalLate
  <2>2. receiver \in Threads /\ FrameAlive
    BY <2>1 DEF OpsInv, FrameInv, FrameOutlivesUse, Signalling
  <2> QED BY <2>1, <2>2
<1>34. CASE Notify(t)  BY <1>34 DEF Notify
<1> QED
  BY <1>3, <1>4, <1>5, <1>6, <1>7, <1>8, <1>9, <1>10, <1>11, <1>12, <1>13,
     <1>14, <1>15, <1>16, <1>17, <1>18, <1>19, <1>20, <1>21, <1>22, <1>23,
     <1>24, <1>25, <1>26, <1>27, <1>28, <1>29, <1>30, <1>31, <1>32,
     <1>33, <1>34, <1>2
  DEF Calls, Steps, UvRun, Environment

-----------------------------------------------------------------------------
(* The theorems.                                                           *)

LoopInv == TypeOK /\ LockInv /\ RunnersAlive /\ OpsInv /\ NoStaleStop

(* The parts of the invariant together are inductive. *)
LEMMA LoopInvariant == Spec => []LoopInv
<1>1. Init => LockInv /\ RunnersAlive /\ OpsInv /\ NoStaleStop
  BY LockInit, RunnersInit, OpsInit, StopInit
<1>2. /\ TypeOK /\ LockInv /\ RunnersAlive /\ OpsInv /\ NoStaleStop
      /\ [Next]_vars
      => (LockInv /\ RunnersAlive /\ OpsInv /\ NoStaleStop)'
  BY LockStep, RunnersStep, OpsStep, StopStep
<1> QED BY <1>1, <1>2, TypeCorrect, PTL DEF Spec, LoopInv

(***************************************************************************)
(* At most one thread is ever inside uv_run, for any number of threads     *)
(* that call sync_wait, run, run_once and drain.                           *)
(***************************************************************************)
THEOREM LoopIsExclusive == Spec => []OneLoopThread
<1>1. LoopInv => OneLoopThread
  BY DEF LoopInv, LockInv
<1> QED BY <1>1, LoopInvariant, PTL

(***************************************************************************)
(* RunnerSteal and WakeupNext touch only runners that still exist.         *)
(***************************************************************************)
THEOREM RunnersStayAlive == Spec => []RunnersAlive
<1>1. LoopInv => RunnersAlive
  BY DEF LoopInv
<1> QED BY <1>1, LoopInvariant, PTL

(***************************************************************************)
(* Up to the first late signal of a result that threw: the loop uses the   *)
(* frame of a sync_wait only while it waits, but for the notify_one after  *)
(* its runner was finished; the sync_wait returns with its result, and its *)
(* operation is never lost.                                                *)
(***************************************************************************)
THEOREM FramesStayAlive == Spec => []FrameOutlivesUse
<1>1. LoopInv => FrameOutlivesUse
  BY DEF LoopInv, OpsInv, FrameInv, FrameOutlivesUse
<1> QED BY <1>1, LoopInvariant, PTL

(***************************************************************************)
(* If no result throws, no receiver is ever signalled after its sync_wait  *)
(* has returned.                                                           *)
(***************************************************************************)
THEOREM NoLateSignal ==
  ASSUME "throw" \notin Kinds
  PROVE  Spec => []~undefined
<1> DEFINE Inv == ~undefined /\ signal \in {"none", "signal", "notify"}
                 /\ \A t \in Threads : kind[t] # "throw"
<1>1. Init => Inv
  BY DEF Init
<1>2. LoopInv /\ Inv /\ [Next]_vars => Inv'
  <2> SUFFICES ASSUME LoopInv, Inv, [Next]_vars PROVE Inv'
    OBVIOUS
  <2> USE DEF TypeOK, LoopInv, Goto, callVars, signalVars
  <2>1. ASSUME NEW t \in Threads, NEW stop \in BOOLEAN, NEW hit \in BOOLEAN,
               SignalLate(t, stop, hit)
        PROVE  FALSE
    <3>1. signal = "signal" /\ ~FrameAlive
      BY <2>1 DEF SignalLate
    <3>2. receiver \in Threads /\ FrameAlive
      BY <3>1 DEF OpsInv, FrameInv, FrameOutlivesUse, Signalling
    <3> QED BY <3>1, <3>2
  <2>2. ASSUME NEW t \in Threads, Calls(t) PROVE Inv'
    <3>1. ASSUME NEW k \in Kinds, SyncWait(t, k) PROVE Inv'
      BY <3>1, "throw" \notin Kinds DEF SyncWait
    <3>2. CASE SyncWaitTransfer(t)  BY <3>2 DEF SyncWaitTransfer
    <3>3. ASSUME NEW m \in Modes, Run(t, m) PROVE Inv'
      BY <3>3 DEF Run
    <3> QED BY <2>2, <3>1, <3>2, <3>3 DEF Calls
  <2>3. ASSUME NEW t \in Threads, Steps(t) \/ Environment(t) PROVE Inv'
    BY <2>3 DEF Steps, Environment, PushBack, Fire, CheckFinished, TakeLoop, LeaveLoop,
       AddRunner, LoadWakeups, Awake, EraseRunner, RelockAfterRun, WakeupNextNobody,
       WakeupNextPop, Wakeup, ForeignPushBack, ForeignFire, Elapse
  <2>4. ASSUME NEW t \in Threads, UvRun(t) PROVE Inv'
    <3>1. ASSUME NEW u \in Threads, ApplySchedule(t, u) \/ CloseCallback(t, u) PROVE Inv'
      BY <3>1 DEF ApplySchedule, CloseCallback, SetValue
    <3>2. CASE Signal(t)  BY <3>2 DEF Signal, AfterSignal
    <3>3. CASE Notify(t)  BY <3>3 DEF Notify
    <3> QED
      BY <2>1, <2>4, <3>1, <3>2, <3>3
      DEF UvRun, UvEnter, Turn, PollAsync, PollTimeout, ApplyDone, ClosingDone, RunTimers,
          ApplyTimer
  <2>5. CASE UNCHANGED vars
    BY <2>5 DEF vars
  <2> QED BY <2>2, <2>3, <2>4, <2>5 DEF Next
<1>3. Inv => ~undefined
  OBVIOUS
<1> QED BY <1>1, <1>2, <1>3, LoopInvariant, PTL DEF Spec

(***************************************************************************)
(* A stop request never outlives the uv_run it was made in.                *)
(***************************************************************************)
THEOREM StopIsConsumed == Spec => []NoStaleStop
<1>1. LoopInv => NoStaleStop
  BY DEF LoopInv
<1> QED BY <1>1, LoopInvariant, PTL

(***************************************************************************)
(* Wakeup's test and increment never cross Finish: what sync_wait polls    *)
(* stays 0 once it is 0.                                                   *)
(***************************************************************************)
THEOREM FinishIsFinal == Spec => FinishedIsSticky
<1> DEFINE Sticky == \A t \in Threads : pc[t] # "idle" /\ Finished(t) => Finished(t)'
<1>1. LoopInv /\ [Next]_vars => [Sticky]_vars
  <2> SUFFICES ASSUME LoopInv, [Next]_vars PROVE Sticky
    OBVIOUS
  <2> USE DEF LoopInv, TypeOK, Finished, Goto, runnerVars, lockVars, uvVars, callVars, signalVars
  <2>1. CASE UNCHANGED vars
    BY <2>1 DEF vars
  <2>2. SUFFICES ASSUME NEW t \in Threads,
                           Calls(t) \/ Steps(t) \/ UvRun(t) \/ Environment(t)
                    PROVE  Sticky
    BY <2>1 DEF Next
  <2>3. ASSUME NEW k \in Kinds, SyncWait(t, k) PROVE Sticky
    BY <2>3 DEF SyncWait, NewRunner
  <2>4. CASE SyncWaitTransfer(t)  BY <2>4 DEF SyncWaitTransfer, NewRunner
  <2>5. ASSUME NEW m \in Modes, Run(t, m) PROVE Sticky
    BY <2>5 DEF Run, NewRunner
  <2>6. CASE PushBack(t)  BY <2>6 DEF PushBack
  <2>7. CASE Fire(t)  BY <2>7 DEF Fire
  <2>8. CASE CheckFinished(t)  BY <2>8 DEF CheckFinished
  <2>9. CASE TakeLoop(t)  BY <2>9 DEF TakeLoop
  <2>10. CASE LeaveLoop(t)  BY <2>10 DEF LeaveLoop
  <2>11. CASE AddRunner(t)  BY <2>11 DEF AddRunner
  <2>12. CASE LoadWakeups(t)  BY <2>12 DEF LoadWakeups
  <2>13. CASE Awake(t)  BY <2>13 DEF Awake
  <2>14. CASE EraseRunner(t)  BY <2>14 DEF EraseRunner
  <2>15. CASE RelockAfterRun(t)  BY <2>15 DEF RelockAfterRun
  <2>16. CASE WakeupNextNobody(t)  BY <2>16 DEF WakeupNextNobody, AfterRun
  <2>17. CASE WakeupNextPop(t)  BY <2>17 DEF WakeupNextPop
  <2>18. CASE Wakeup(t)
    <3>1. pc[t] = "wakeup" /\ Awakenings' = [Awakenings EXCEPT ![target] = @ + 1]
      BY <2>18 DEF Wakeup
    <3>2. target \in Threads /\ Awakenings[target] # 0
      BY <3>1, NullIsNoThread DEF LockInv, MutexInv, OpsInv, TargetInv
    <3> QED BY <3>1, <3>2
  <2>19. CASE UvEnter(t)  BY <2>19 DEF UvEnter, FireTimers
  <2>20. CASE Turn(t)  BY <2>20 DEF Turn
  <2>21. CASE PollAsync(t)  BY <2>21 DEF PollAsync
  <2>22. CASE PollTimeout(t)  BY <2>22 DEF PollTimeout
  <2>23. CASE ApplyDone(t)  BY <2>23 DEF ApplyDone
  <2>24. CASE ClosingDone(t)  BY <2>24 DEF ClosingDone
  <2>25. CASE RunTimers(t)  BY <2>25 DEF RunTimers, FireTimers
  <2>26. CASE ForeignPushBack(t)  BY <2>26 DEF ForeignPushBack
  <2>27. CASE ForeignFire(t)  BY <2>27 DEF ForeignFire
  <2>28. CASE Elapse(t)  BY <2>28 DEF Elapse
  <2>29. ASSUME NEW u \in Threads, ApplySchedule(t, u) PROVE Sticky
    BY <2>29 DEF ApplySchedule, SetValue, CallbackReturned
  <2>30. ASSUME NEW u \in Threads, ApplyTimer(t, u) PROVE Sticky
    BY <2>30 DEF ApplyTimer
  <2>31. ASSUME NEW u \in Threads, CloseCallback(t, u) PROVE Sticky
    BY <2>31 DEF CloseCallback, SetValue, CallbackReturned
  <2>32. CASE Signal(t)  BY <2>32 DEF Signal, AfterSignal
  <2>33. ASSUME NEW stop \in BOOLEAN, NEW hit \in BOOLEAN, SignalLate(t, stop, hit)
        PROVE  Sticky
    BY <2>33 DEF SignalLate, AfterSignal
  <2>34. CASE Notify(t)  BY <2>34 DEF Notify
  <2> QED
    BY <2>3, <2>4, <2>5, <2>6, <2>7, <2>8, <2>9, <2>10, <2>11, <2>12,
       <2>13, <2>14, <2>15, <2>16, <2>17, <2>18, <2>19, <2>20, <2>21,
       <2>22, <2>23, <2>24, <2>25, <2>26, <2>27, <2>28, <2>29, <2>30,
       <2>31, <2>32, <2>33, <2>34, <2>2
    DEF Calls, Steps, UvRun, Environment
<1> QED BY <1>1, LoopInvariant, PTL DEF Spec, FinishedIsSticky

(***************************************************************************)
(* If nobody calls finish() by hand and no result throws, a completion     *)
(* stops only the uv_run of its own sync_wait, and a finished sync_wait    *)
(* never starts one.                                                       *)
(***************************************************************************)
THEOREM AcquireIsSound ==
  ASSUME Kinds \cap {"finish", "throw"} = {}
  PROVE  Spec => []AcquiredMeansRunning
<1>1. Init => AcqInv
  BY AcqInit
<1>2. LoopInv /\ AcqInv /\ [Next]_vars => AcqInv'
  BY AcqStep DEF LoopInv
<1>3. AcqInv => AcquiredMeansRunning
  BY DEF AcqInv, AcquiredMeansRunning, InSyncWait, InUvRun, UvRunPc
<1> QED BY <1>1, <1>2, <1>3, LoopInvariant, PTL DEF Spec
=============================================================================
