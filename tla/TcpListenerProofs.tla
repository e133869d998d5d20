------------------------- MODULE TcpListenerProofs -------------------------
(***************************************************************************)
(* The safety of TcpListener for any number of accepts and connections and *)
(* any backlog.                                                            *)
(***************************************************************************)
EXTENDS TcpListener, TLAPS

(* Used says that the accept has completed or will by its queued stop.  An *)
(* accept that was destroyed too early had completed.                      *)
StopSound ==
  \A a \in Accepts :
    /\ a \notin registered => ~Used[a] /\ a \notin callback /\ a \notin stopQueued /\ Alive(a)
    /\ a \in dangling => a \in registered /\ ~Alive(a)
    /\ a \in stopQueued => a \in registered
    /\ a \in stopQueued /\ a \notin dangling => Alive(a) /\ a \in requested
    /\ a \in registered => (Used[a] <=> ~Alive(a) \/ a \in stopQueued)

(* A counted connection keeps libuv off the socket. *)
CountSound ==
  /\ open /\ PendingConnections > 0 => held # NULL /\ ListHead = NULL /\ ~watching
  /\ made = "bind" => PendingConnections >= 0 /\ \A a \in Accepts : result[a] # "refused"
  /\ Undisturbed => (held = NULL <=> watching) /\ (held # NULL => PendingConnections = 1)

ListenerInv == TypeOK /\ AcceptListSound /\ CompletesOnce /\ StopSound /\ CountSound

USE DEF Node

-----------------------------------------------------------------------------
(* The list.                                                               *)

(* Add links a node that was not in the list and keeps the others in it. *)
LEMMA AddLinks ==
  ASSUME TypeOK, LinksSound, NEW a \in Accepts, ~InList(a), Add(a)
  PROVE  /\ LinksSound'
         /\ ListHead' \in Node /\ NextOf' \in [Accepts -> Node] /\ Prev' \in [Accepts -> Node]
         /\ \A b \in Accepts : InList(b)' <=> InList(b) \/ b = a
<1> USE NullIsNothing
<1>1. Prev[a] = NULL /\ NextOf[a] = NULL
  BY DEF TypeOK, LinksSound, InList
<1>2. ListHead' \in Node /\ NextOf' \in [Accepts -> Node] /\ Prev' \in [Accepts -> Node]
  BY DEF TypeOK, Add
<1>3. \A b \in Accepts : InList(b)' <=> InList(b) \/ b = a
  BY <1>1 DEF TypeOK, Add, InList
<1>4. LinksSound'
  <2>1. ListHead' # NULL => Prev'[ListHead'] = NULL
    BY <1>1 DEF TypeOK, Add, InList
  <2>2. ASSUME NEW m \in Accepts, NEW n \in Accepts
        PROVE  NextOf'[m] = n <=> Prev'[n] = m
    BY <1>1 DEF TypeOK, Add, InList, LinksSound
  <2>3. ASSUME NEW b \in Accepts, ~InList(b)' PROVE NextOf'[b] = NULL
    BY <1>3, <2>3 DEF TypeOK, Add, LinksSound
  <2>4. QED BY <2>1, <2>2, <2>3 DEF LinksSound
<1>5. QED BY <1>2, <1>3, <1>4

(* Erase takes exactly its node off the list, also if it was off already. *)
LEMMA EraseLinks ==
  ASSUME TypeOK, LinksSound, NEW a \in Accepts, Erase(a)
  PROVE  /\ LinksSound'
         /\ ListHead' \in Node /\ NextOf' \in [Accepts -> Node] /\ Prev' \in [Accepts -> Node]
         /\ \A b \in Accepts : InList(b)' <=> InList(b) /\ b # a
<1> USE NullIsNothing
<1>2. ListHead' \in Node /\ NextOf' \in [Accepts -> Node] /\ Prev' \in [Accepts -> Node]
  BY DEF TypeOK, Erase
<1>3. ASSUME NEW b \in Accepts PROVE InList(b)' <=> InList(b) /\ b # a
  <2>1. InList(a)' => FALSE
    BY DEF TypeOK, Erase, InList, LinksSound
  <2>2. InList(b)' => InList(b)
    BY DEF TypeOK, Erase, InList, LinksSound
  <2>3. ASSUME InList(b), b # a PROVE InList(b)'
    <3>1. CASE ListHead = b BY <3>1, <2>3 DEF Erase, InList
    <3>2. ASSUME NEW n \in Accepts, NextOf[n] = b PROVE InList(b)'
      <4>1. CASE n # a
        <5>1. n # Prev[a] BY <3>2, <2>3 DEF TypeOK, LinksSound
        <5>2. QED BY <4>1, <5>1, <3>2 DEF TypeOK, Erase, InList
      <4>2. CASE n = a
        <5>1. CASE ListHead = a BY <4>2, <5>1, <3>2 DEF TypeOK, Erase, InList
        <5>2. CASE ListHead # a
          <6>1. Prev[a] \in Accepts /\ (Prev[a] = a => FALSE)
            BY <5>2, <4>2, <3>2, <2>3 DEF TypeOK, InList, LinksSound
          <6>2. QED BY <6>1, <4>2, <3>2 DEF TypeOK, Erase, InList
        <5>3. QED BY <5>1, <5>2
      <4>3. QED BY <4>1, <4>2
    <3>3. QED BY <2>3, <3>1, <3>2 DEF InList
  <2>4. QED BY <2>1, <2>2, <2>3
<1>4. LinksSound'
  <2>1. ListHead' # NULL => Prev'[ListHead'] = NULL
    BY DEF TypeOK, Erase, InList, LinksSound
  <2>2. ASSUME NEW m \in Accepts, NEW n \in Accepts
        PROVE  NextOf'[m] = n <=> Prev'[n] = m
    BY DEF TypeOK, Erase, LinksSound
  <2>3. ASSUME NEW b \in Accepts, ~InList(b)' PROVE NextOf'[b] = NULL
    BY <1>3, <2>3 DEF TypeOK, Erase, LinksSound
  <2>4. QED BY <2>1, <2>2, <2>3 DEF LinksSound
<1>5. QED BY <1>2, <1>3, <1>4

-----------------------------------------------------------------------------
(* The operations.  Each conjunct of the invariant is a step of its own.   *)

(* What Accept does to the accept and to libuv. *)
LEMMA AcceptEffect ==
  ASSUME TypeOK, NEW a \in Accepts, NEW fd \in Connections \cup {NULL}, Accept(a, fd)
  PROVE  /\ Used' = [Used EXCEPT ![a] = TRUE]
         /\ result' \in [Accepts -> {"none", "value", "error", "refused", "stopped"}]
         /\ completions' \in [Accepts -> Nat]
         /\ client' \in [Connections -> {"none", "arriving", "taken", "gone"}]
         /\ held' \in Connections \cup {NULL} /\ watching' \in BOOLEAN
         /\ Used[a] => UNCHANGED doneVars /\ held' = fd /\ ~watching'
         /\ ~Used[a] => /\ held' = NULL
                        /\ result'[a] \in {"value", "error"}
                        /\ result' = [result EXCEPT ![a] = result'[a]]
                        /\ completions' = [completions EXCEPT ![a] = @ + 1]
                        /\ watching' <=> result'[a] = "value" \/ watching
<1>1. CASE Used[a]
  BY <1>1 DEF TypeOK, Accept, doneVars
<1>2. CASE ~Used[a]
  <2>1. PICK how \in {"value", "error"} :
          /\ Completes(a, how)
          /\ watching' \in BOOLEAN /\ (watching' <=> how = "value" \/ watching)
    BY <1>2 DEF TypeOK, Accept, UvAccept
  <2>2. result'[a] = how
    BY <2>1 DEF TypeOK, Completes
  <2>3. /\ result' \in [Accepts -> {"none", "value", "error", "refused", "stopped"}]
        /\ completions' \in [Accepts -> Nat]
        /\ result' = [result EXCEPT ![a] = result'[a]]
        /\ completions' = [completions EXCEPT ![a] = @ + 1]
    BY <2>1, <2>2 DEF TypeOK, Completes
  <2>4. client' \in [Connections -> {"none", "arriving", "taken", "gone"}] /\ held' = NULL
    BY <1>2 DEF TypeOK, Accept, UvAccept
  <2>5. QED BY <1>2, <2>1, <2>2, <2>3, <2>4 DEF Accept
<1>3. QED BY <1>1, <1>2

(* Both constructors establish the invariant. *)
LEMMA InvInit == Init => ListenerInv
<1> SUFFICES ASSUME Init PROVE ListenerInv OBVIOUS
<1> USE NullIsNothing, BacklogIsPositive, KnownConstructors
<1>1. TypeOK BY DEF Init, TypeOK
<1>2. AcceptListSound BY DEF Init, AcceptListSound, LinksSound, InList, Alive
<1>3. CompletesOnce /\ StopSound BY DEF Init, CompletesOnce, StopSound, Alive
<1>4. CountSound BY DEF Init, CountSound, Undisturbed
<1>5. QED BY <1>1, <1>2, <1>3, <1>4 DEF ListenerInv

(* An accept that takes a counted connection. *)
LEMMA PendingStep ==
  ASSUME ListenerInv, NEW a \in Accepts, RegisterPending(a)
  PROVE  ListenerInv'
<1> USE NullIsNothing, BacklogIsPositive DEF ListenerInv
<1>1. held \in Connections \cup {NULL} /\ Accept(a, held) /\ ~Used[a] /\ a \notin registered
  BY DEF TypeOK, StopSound, RegisterPending, Register
<1>2. PendingConnections = 1 /\ PendingConnections' = 0 /\ open /\ open'
  BY DEF TypeOK, RegisterPending, Register
<1>3. TypeOK'
  <2>1. /\ callback' \in SUBSET Accepts /\ stopQueued' \in SUBSET Accepts
        /\ registered' \in SUBSET Accepts /\ requested' \in SUBSET Accepts
        /\ dangling' \in SUBSET Accepts /\ UNCHANGED <<made, list, open>>
    BY DEF TypeOK, RegisterPending, Register, SetupLate
  <2>2. Used' \in [Accepts -> BOOLEAN]
    BY <1>1, AcceptEffect DEF TypeOK
  <2>3. PendingConnections' \in (-Backlog)..1
    BY <1>2
  <2>4. QED BY <2>1, <2>2, <2>3, <1>1, <1>2, AcceptEffect DEF TypeOK, list
<1>4. AcceptListSound'
  <2>1. LinksSound' /\ \A b \in Accepts : InList(b)' = InList(b)
    BY DEF RegisterPending, list, AcceptListSound, LinksSound, InList
  <2>2. QED BY <1>1, <2>1, AcceptEffect
            DEF TypeOK, AcceptListSound, Alive, RegisterPending, Register, SetupLate
<1>5. CompletesOnce' /\ StopSound'
  BY <1>1, AcceptEffect DEF TypeOK, CompletesOnce, StopSound, Alive, RegisterPending, Register, SetupLate
<1>6. CountSound'
  BY <1>1, <1>2, AcceptEffect DEF TypeOK, CountSound, Undisturbed, RegisterPending, Register, SetupLate, list
<1>7. QED BY <1>3, <1>4, <1>5, <1>6

(* The accept joins the list; its listen, if any, has succeeded. *)
LEMMA WaitingStep ==
  ASSUME ListenerInv, NEW a \in Accepts, RegisterWaiting(a) \/ RegisterListening(a)
  PROVE  ListenerInv'
<1> USE NullIsNothing, BacklogIsPositive DEF ListenerInv
<1>1. ~InList(a) /\ Add(a) /\ Setup(a) /\ a \notin registered /\ LinksSound
  BY DEF AcceptListSound, RegisterWaiting, RegisterListening, Register
<1>2. /\ PendingConnections' = 0 /\ registered' = registered \cup {a}
      /\ UNCHANGED <<made, requested, dangling, open, result, completions, client, held>>
      /\ watching' \in BOOLEAN /\ (PendingConnections = 0 => watching' = watching)
  <2>1. CASE RegisterWaiting(a)
    BY <2>1 DEF TypeOK, RegisterWaiting, Register, Setup, doneVars
  <2>2. CASE RegisterListening(a)
    <3>1. PendingConnections # 0
      BY <2>2 DEF TypeOK, RegisterListening
    <3>2. watching' = TRUE
      BY <2>2 DEF RegisterListening
    <3>3. QED BY <2>2, <3>1, <3>2 DEF RegisterListening, Register, Setup, doneVars
  <2>3. QED BY <2>1, <2>2
<1>3. TypeOK'
  <2>1. /\ callback' \in SUBSET Accepts /\ stopQueued' \in SUBSET Accepts
        /\ registered' \in SUBSET Accepts /\ requested' \in SUBSET Accepts
    BY <1>1, <1>2 DEF TypeOK, Setup
  <2>2. Used' \in [Accepts -> BOOLEAN]
    BY <1>1 DEF TypeOK, Setup
  <2>3. PendingConnections' \in (-Backlog)..1
    BY <1>2
  <2>4. QED BY <2>1, <2>2, <2>3, <1>1, <1>2, AddLinks DEF TypeOK
<1>4. AcceptListSound'
  BY <1>1, <1>2, AddLinks DEF TypeOK, AcceptListSound, StopSound, Alive, Setup
<1>5. CompletesOnce' /\ StopSound'
  BY <1>1, <1>2 DEF TypeOK, CompletesOnce, StopSound, Alive, Setup
<1>6. CountSound'
  BY <1>1, <1>2 DEF TypeOK, CountSound, Undisturbed, RegisterWaiting, RegisterListening
<1>7. QED BY <1>3, <1>4, <1>5, <1>6

(* An accept whose listen fails. *)
LEMMA ListenFailsStep ==
  ASSUME ListenerInv, NEW a \in Accepts, RegisterListenFails(a)
  PROVE  ListenerInv'
<1> USE NullIsNothing, BacklogIsPositive DEF ListenerInv
<1>1. ~InList(a) /\ Add(a) /\ a \notin registered /\ LinksSound /\ PendingConnections < 0
  BY DEF AcceptListSound, RegisterListenFails, Register
<1>3. TypeOK'
  BY <1>1, AddLinks DEF TypeOK, RegisterListenFails, Register, Completes, SetupLate
<1>4. AcceptListSound'
  BY <1>1, AddLinks DEF TypeOK, AcceptListSound, Alive, RegisterListenFails, Register, Completes, SetupLate
<1>5. CompletesOnce' /\ StopSound'
  BY <1>1 DEF TypeOK, CompletesOnce, StopSound, Alive, RegisterListenFails, Register, Completes, SetupLate
<1>6. CountSound'
  BY <1>1 DEF TypeOK, CountSound, Undisturbed, RegisterListenFails, Register, Completes
<1>7. QED BY <1>3, <1>4, <1>5, <1>6

(* A connection that nobody waits for is counted, or is reported with an error. *)
LEMMA CountStep ==
  ASSUME ListenerInv, NEW c \in Connections, CountConnection(c) \/ ConnectionFails(c)
  PROVE  ListenerInv'
<1> USE NullIsNothing, BacklogIsPositive DEF ListenerInv
<1>1. PendingConnections <= 0 /\ open /\ watching
  BY DEF TypeOK, CountSound, CountConnection, ConnectionFails, Arrives
<1>2. CASE CountConnection(c)
  <2>1. PendingConnections' \in (-Backlog)..1
    BY <1>1, <1>2 DEF TypeOK, CountConnection
  <2>2. TypeOK'
    BY <1>2, <2>1 DEF TypeOK, CountConnection, Arrives, list, doneVars
  <2>3. CountSound'
    <3>1. made = "bind" => PendingConnections = 0
      BY <1>1 DEF TypeOK, CountSound
    <3>2. QED BY <1>1, <1>2, <3>1 DEF TypeOK, CountSound, Undisturbed, CountConnection, Arrives, list, doneVars
  <2>4. QED BY <2>2, <2>3, <1>2
            DEF AcceptListSound, LinksSound, InList, Alive, CompletesOnce, StopSound,
                CountConnection, Arrives, list, doneVars
<1>3. CASE ConnectionFails(c)
  <2>1. TypeOK'
    BY <1>3 DEF TypeOK, ConnectionFails, Arrives, list, doneVars
  <2>2. QED BY <1>3, <2>1
            DEF AcceptListSound, LinksSound, InList, Alive, CompletesOnce, StopSound,
                CountSound, Undisturbed, ConnectionFails, Arrives, list, doneVars
<1>4. QED BY <1>2, <1>3

(* A connection that is reported to a popped accept. *)
LEMMA PoppedStep ==
  ASSUME ListenerInv, NEW c \in Connections, AcceptPopped(c)
  PROVE  ListenerInv'
<1> USE NullIsNothing, BacklogIsPositive DEF ListenerInv
<1> DEFINE a == ListHead
<1>1. a \in Accepts /\ Accept(a, c) /\ Erase(a) /\ LinksSound /\ InList(a)
      /\ c \in Connections \cup {NULL} /\ PendingConnections <= 0 /\ open /\ watching
  BY DEF TypeOK, CountSound, AcceptPopped, Arrives, AcceptListSound, InList
<1>2. UNCHANGED <<made, registered, requested, stopQueued, dangling, open, PendingConnections>>
  BY DEF AcceptPopped, Arrives
<1>3. callback' \in SUBSET Accepts /\ \A b \in Accepts : b \in callback' => b \in callback
  BY DEF TypeOK, AcceptPopped
<1> HIDE DEF a
<1>4. TypeOK'
  BY <1>1, <1>2, <1>3, AcceptEffect, EraseLinks DEF TypeOK
<1>5. AcceptListSound'
  BY <1>1, <1>2, AcceptEffect, EraseLinks DEF TypeOK, AcceptListSound, StopSound, Alive, doneVars
<1>6. CompletesOnce' /\ StopSound'
  BY <1>1, <1>2, <1>3, AcceptEffect DEF TypeOK, AcceptListSound, CompletesOnce, StopSound, Alive, doneVars
<1>7. CountSound'
  BY <1>1, <1>2, AcceptEffect
     DEF TypeOK, CountSound, Undisturbed, AcceptListSound, StopSound, Alive, doneVars
<1>8. QED BY <1>4, <1>5, <1>6, <1>7

(* The stop of an accept is applied. *)
LEMMA StopStep ==
  ASSUME ListenerInv, NEW a \in Accepts, ApplyStop(a)
  PROVE  ListenerInv'
<1> USE NullIsNothing, BacklogIsPositive DEF ListenerInv
<1>1. /\ a \in registered /\ Used[a] /\ Erase(a) /\ LinksSound
      /\ a \notin dangling => Alive(a) /\ a \in requested
  BY DEF StopSound, ApplyStop, AcceptListSound
<1>2. TypeOK'
  BY <1>1, EraseLinks DEF TypeOK, ApplyStop, Completes, uvVars
<1>3. AcceptListSound'
  BY <1>1, EraseLinks DEF TypeOK, AcceptListSound, Alive, ApplyStop, Completes
<1>4. CompletesOnce' /\ StopSound'
  BY <1>1 DEF TypeOK, CompletesOnce, StopSound, Alive, ApplyStop, Completes
<1>5. CountSound'
  <2>1. ListHead = NULL => ListHead' = NULL
    BY <1>1 DEF TypeOK, Erase
  <2>2. ~Undisturbed'
    BY <1>1 DEF TypeOK, Undisturbed, ApplyStop, uvVars
  <2>3. QED
    BY <1>1, <2>1, <2>2 DEF TypeOK, CountSound, ApplyStop, Completes, uvVars
<1>6. QED BY <1>2, <1>3, <1>4, <1>5

(* The steps that leave list and count alone. *)
LEMMA OtherStep ==
  ASSUME ListenerInv,
         \/ Close
         \/ \E a \in Accepts : RequestStop(a)
         \/ \E c \in Connections : Connect(c)
         \/ UNCHANGED vars
  PROVE  ListenerInv'
<1> USE NullIsNothing, BacklogIsPositive DEF ListenerInv
<1>1. CASE Close
  <2>1. TypeOK' /\ CountSound'
    BY <1>1 DEF Close, TypeOK, CountSound, Undisturbed, list, stopVars, doneVars
  <2>2. AcceptListSound' /\ CompletesOnce' /\ StopSound'
    BY <1>1 DEF Close, AcceptListSound, LinksSound, InList, Alive, CompletesOnce, StopSound,
                list, stopVars, doneVars
  <2>3. QED BY <2>1, <2>2
<1>2. ASSUME NEW a \in Accepts, RequestStop(a) PROVE ListenerInv'
  <2>1. TypeOK' /\ CountSound'
    BY <1>2 DEF RequestStop, TypeOK, CountSound, Undisturbed, list, doneVars, uvVars
  <2>2. AcceptListSound'
    BY <1>2 DEF RequestStop, AcceptListSound, LinksSound, InList, Alive, list, doneVars
  <2>3. CompletesOnce' /\ StopSound'
    BY <1>2 DEF RequestStop, TypeOK, CompletesOnce, StopSound, Alive, doneVars
  <2>4. QED BY <2>1, <2>2, <2>3
<1>3. ASSUME NEW c \in Connections, Connect(c) PROVE ListenerInv'
  BY <1>3 DEF Connect, TypeOK, AcceptListSound, LinksSound, InList, Alive, CompletesOnce, StopSound,
              CountSound, Undisturbed, list, stopVars, doneVars
<1>4. CASE UNCHANGED vars
  BY <1>4 DEF vars, TypeOK, AcceptListSound, LinksSound, InList, Alive, CompletesOnce, StopSound,
              CountSound, Undisturbed, list, stopVars, doneVars, uvVars
<1>5. QED BY <1>1, <1>2, <1>3, <1>4

-----------------------------------------------------------------------------
(* The invariant is inductive. *)
THEOREM ListenerSafe == Spec => []ListenerInv
<1>1. ListenerInv /\ [Next]_vars => ListenerInv'
  BY PendingStep, WaitingStep, ListenFailsStep, CountStep, PoppedStep, StopStep, OtherStep
     DEF Next, RegisterAccept, ConnectionCallback
<1>2. QED BY InvInit, <1>1, PTL DEF Spec

(* RegisterAccept and ConnectionCallback never count more than one connection. *)
THEOREM TypeCorrect == Spec => []TypeOK
BY ListenerSafe, PTL DEF ListenerInv

(* Add, Pop and Erase, in whatever order the listener calls them, keep AcceptList *)
(* linked both ways and free of completed accepts.                               *)
THEOREM ListIsSound == Spec => []AcceptListSound
BY ListenerSafe, PTL DEF ListenerInv

(* Connection, listen error and stop never complete an accept twice, unless it was *)
(* destroyed before RegisterAccept returned.                                       *)
THEOREM OneCompletion == Spec => []CompletesOnce
BY ListenerSafe, PTL DEF ListenerInv

(* RegisterAccept finds the connection it counts on. *)
THEOREM CountIsExact == Spec => []CountedIsHeld
<1>1. ListenerInv => CountedIsHeld
  BY BacklogIsPositive DEF ListenerInv, TypeOK, CountSound, CountedIsHeld
<1>2. QED BY ListenerSafe, <1>1, PTL

(* A listener of bind_to polls for a waiting accept, as long as none is stopped. *)
THEOREM WaitingAcceptIsPolled == Spec => []WaitingIsPolled
<1>1. ListenerInv => WaitingIsPolled
  BY NullIsNothing, BacklogIsPositive DEF ListenerInv, TypeOK, CountSound, WaitingIsPolled, Undisturbed
<1>2. QED BY ListenerSafe, <1>1, PTL
=============================================================================
