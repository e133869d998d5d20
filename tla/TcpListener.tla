---------------------------- MODULE TcpListener ----------------------------
(***************************************************************************)
(* TTcpListener: accept operations wait in AcceptList, an intrusive list   *)
(* of pointers, for connections that libuv reports one at a time; each can *)
(* be stopped.  A connection that finds no accept is counted in            *)
(* PendingConnections and stays with libuv, which watches the socket again *)
(* only after uv_accept has taken it.  All handlers run on the loop        *)
(* thread; StopOperation shows that a stop request and a callback that     *)
(* compete for Used are one step each.                                     *)
(***************************************************************************)
EXTENDS Integers

CONSTANTS
  Accepts,      \* the accept operations
  Connections,  \* the connections that clients make
  NULL,         \* no node, no connection
  Backlog,      \* the backlog given to the listener
  Constructors  \* "public": the constructor listens; "bind": bind_to does

ASSUME NullIsNothing == NULL \notin Accepts \cup Connections
ASSUME BacklogIsPositive == Backlog \in Nat \ {0}
ASSUME KnownConstructors == Constructors \subseteq {"public", "bind"}

VARIABLES
  made,               \* the constructor that made the listener
  ListHead, NextOf, Prev, \* TIntrusiveList and its nodes
  PendingConnections,
  registered,         \* accepts that have been passed to RegisterAccept
  Used,               \* TStopOperation::Used
  callback,           \* accepts whose stop callback the stop source knows
  requested,          \* accepts that were asked to stop
  stopQueued,         \* accepts whose stop operation is in the loop's list
  result, completions,
  dangling,           \* accepts that were destroyed when Setup ran on them
  client,             \* "none", "arriving", "taken" by libuv, "gone"
  held,               \* libuv's accepted_fd
  watching,           \* libuv polls the listening socket
  open                \* the listener has not been closed

list == <<ListHead, NextOf, Prev>>
stopVars == <<Used, callback, requested, stopQueued>>
doneVars == <<result, completions>>
uvVars == <<client, held, watching, open>>
vars == <<made, list, PendingConnections, registered, stopVars, doneVars, dangling, uvVars>>

Node == Accepts \cup {NULL}

(* The type invariant: the count of connections never exceeds one. *)
TypeOK ==
  /\ made \in {"public", "bind"}
  /\ ListHead \in Node
  /\ NextOf \in [Accepts -> Node]
  /\ Prev \in [Accepts -> Node]
  /\ PendingConnections \in (-Backlog)..1
  /\ registered \in SUBSET Accepts
  /\ Used \in [Accepts -> BOOLEAN]
  /\ callback \in SUBSET Accepts
  /\ requested \in SUBSET Accepts
  /\ stopQueued \in SUBSET Accepts
  /\ result \in [Accepts -> {"none", "value", "error", "refused", "stopped"}]
  /\ completions \in [Accepts -> Nat]
  /\ dangling \in SUBSET Accepts
  /\ client \in [Connections -> {"none", "arriving", "taken", "gone"}]
  /\ held \in Connections \cup {NULL}
  /\ watching \in BOOLEAN /\ open \in BOOLEAN

(* The public constructor listens and leaves the count below zero, Bind sets it to 0. *)
Init ==
  /\ made \in Constructors
  /\ ListHead = NULL
  /\ NextOf = [a \in Accepts |-> NULL]
  /\ Prev = [a \in Accepts |-> NULL]
  /\ PendingConnections = IF made = "bind" THEN 0 ELSE -Backlog
  /\ registered = {}
  /\ Used = [a \in Accepts |-> FALSE]
  /\ callback = {} /\ requested = {} /\ stopQueued = {}
  /\ result = [a \in Accepts |-> "none"]
  /\ completions = [a \in Accepts |-> 0]
  /\ dangling = {}
  /\ client = [c \in Connections |-> "none"]
  /\ held = NULL /\ watching = TRUE /\ open = TRUE

-----------------------------------------------------------------------------
(* TIntrusiveList.                                                         *)

Add(a) ==
  /\ NextOf' = [NextOf EXCEPT ![a] = ListHead]
  /\ Prev' = [n \in Accepts |-> IF n = ListHead THEN a ELSE Prev[n]]
  /\ ListHead' = a

(* Bug: the successor keeps pointing back at the erased node. *)
EraseForwardOnly(a) ==
  /\ NextOf' = [n \in Accepts |-> IF n = a THEN NULL ELSE IF n = Prev[a] THEN NextOf[a] ELSE NextOf[n]]
  /\ Prev' = [Prev EXCEPT ![a] = NULL]
  /\ ListHead' = IF ListHead = a THEN NextOf[a] ELSE ListHead

Erase(a) ==
  /\ NextOf' = [n \in Accepts |-> IF n = a THEN NULL ELSE IF n = Prev[a] THEN NextOf[a] ELSE NextOf[n]]
  /\ Prev' = [n \in Accepts |-> IF n = a THEN NULL ELSE IF n = NextOf[a] THEN Prev[a] ELSE Prev[n]]
  /\ ListHead' = IF ListHead = a THEN NextOf[a] ELSE ListHead

-----------------------------------------------------------------------------
(* TAcceptOpState.                                                         *)

Completes(a, how) ==
  /\ result' = [result EXCEPT ![a] = how]
  /\ completions' = [completions EXCEPT ![a] = @ + 1]

(***************************************************************************)
(* uv_accept of the connection fd: no connection is an error; one that     *)
(* cannot be opened is dropped, and libuv does not poll again for it.      *)
(***************************************************************************)
UvAccept(a, fd) ==
  /\ held' = NULL
  /\ \/ fd # NULL /\ Completes(a, "value") /\ watching' = TRUE
     \/ Completes(a, "error") /\ UNCHANGED watching
  /\ client' = [c \in Connections |-> IF c = fd THEN "gone" ELSE client[c]]

(* Bug: the answer of Reset is ignored. *)
AcceptRegardless(a, fd) ==
  /\ Used' = [Used EXCEPT ![a] = TRUE]
  /\ UvAccept(a, fd)

(***************************************************************************)
(* Accept: an operation that lost to its stop takes nothing, and the       *)
(* connection stays with libuv, which stops polling.                       *)
(***************************************************************************)
Accept(a, fd) ==
  /\ Used' = [Used EXCEPT ![a] = TRUE]
  /\ IF Used[a]
     THEN /\ held' = fd /\ watching' = FALSE
          /\ client' = [c \in Connections |-> IF c = fd THEN "taken" ELSE client[c]]
          /\ UNCHANGED doneVars
     ELSE UvAccept(a, fd)

(***************************************************************************)
(* Setup after RegisterAccept has completed the operation.  If the         *)
(* receiver has kept the operation, Used is set and nothing is scheduled.  *)
(* If it has destroyed it, as accept_from and async_scope::spawn do, this  *)
(* is undefined: nothing may come of it, a stop callback may be left in    *)
(* the stop source, or a stop of the dead operation reaches the loop.      *)
(***************************************************************************)
SetupLate(a) ==
  \/ /\ callback' = IF a \in requested THEN callback ELSE callback \cup {a}
     /\ UNCHANGED <<stopQueued, dangling>>
  \/ /\ dangling' = dangling \cup {a}
     /\ \/ UNCHANGED <<callback, stopQueued>>
        \/ callback' = callback \cup {a} /\ UNCHANGED stopQueued
        \/ stopQueued' = stopQueued \cup {a} /\ UNCHANGED callback

(* Bug: a stop that was requested before Setup is missed. *)
SetupUnasked(a) ==
  /\ callback' = callback \cup {a}
  /\ UNCHANGED <<stopQueued, Used, dangling>>

Setup(a) ==
  /\ callback' = IF a \in requested THEN callback ELSE callback \cup {a}
  /\ stopQueued' = IF a \in requested THEN stopQueued \cup {a} ELSE stopQueued
  /\ Used' = [Used EXCEPT ![a] = a \in requested]
  /\ UNCHANGED dangling

(* set_value of the accept's receiver, with RegisterAccept. *)
Register(a) ==
  /\ open
  /\ a \notin registered
  /\ registered' = registered \cup {a}
  /\ UNCHANGED <<made, requested, open>>

(* Bug: the connection is not taken off the count. *)
RegisterUncounted(a) ==
  /\ Register(a)
  /\ PendingConnections > 0
  /\ Accept(a, held)
  /\ SetupLate(a)
  /\ UNCHANGED <<list, PendingConnections>>

RegisterPending(a) ==
  /\ Register(a)
  /\ PendingConnections > 0
  /\ PendingConnections' = PendingConnections - 1
  /\ Accept(a, held)
  /\ SetupLate(a)
  /\ UNCHANGED list

RegisterWaiting(a) ==
  /\ Register(a)
  /\ PendingConnections = 0
  /\ Add(a)
  /\ Setup(a)
  /\ UNCHANGED <<PendingConnections, doneVars, client, held, watching>>

(* The first accept of a listener made by the public constructor listens again. *)
RegisterListening(a) ==
  /\ Register(a)
  /\ PendingConnections < 0
  /\ Add(a)
  /\ PendingConnections' = 0
  /\ watching' = TRUE
  /\ Setup(a)
  /\ UNCHANGED <<doneVars, client, held>>

(* Error: the accept completes and stays in the list. *)
RegisterListenFails(a) ==
  /\ Register(a)
  /\ PendingConnections < 0
  /\ Add(a)
  /\ Used' = [Used EXCEPT ![a] = TRUE]
  /\ Completes(a, "refused")
  /\ SetupLate(a)
  /\ UNCHANGED <<PendingConnections, client, held, watching>>

-----------------------------------------------------------------------------
(* ConnectionCallback; libuv drops a connection it still holds.            *)

Arrives(c) ==
  /\ open /\ watching
  /\ client[c] = "arriving"
  /\ UNCHANGED <<made, registered, requested, stopQueued, dangling, open>>

(* Bug: a connection is counted although an accept waits. *)
CountAlways(c) ==
  /\ Arrives(c)
  /\ PendingConnections' = PendingConnections + 1
  /\ held' = c /\ watching' = FALSE
  /\ client' = [client EXCEPT ![c] = "taken"]
  /\ UNCHANGED <<list, Used, callback, doneVars>>

CountConnection(c) ==
  /\ Arrives(c)
  /\ ListHead = NULL
  /\ PendingConnections' = PendingConnections + 1
  /\ held' = c /\ watching' = FALSE
  /\ client' = [client EXCEPT ![c] = "taken"]
  /\ UNCHANGED <<list, Used, callback, doneVars>>

AcceptPopped(c) ==
  /\ Arrives(c)
  /\ ListHead # NULL
  /\ Erase(ListHead)
  /\ Accept(ListHead, c)
  /\ callback' = IF Used[ListHead] THEN callback ELSE callback \ {ListHead}
  /\ UNCHANGED PendingConnections

(* The status is an error: nothing is left of the connection. *)
ConnectionFails(c) ==
  /\ Arrives(c)
  /\ client' = [client EXCEPT ![c] = "gone"]
  /\ UNCHANGED <<list, PendingConnections, Used, callback, doneVars, held, watching>>

(* close of the listener does nothing about accepts that wait. *)
Close ==
  /\ open
  /\ open' = FALSE /\ watching' = FALSE /\ held' = NULL
  /\ UNCHANGED <<made, list, PendingConnections, registered, stopVars, doneVars, dangling, client>>

-----------------------------------------------------------------------------
(* TStopCallback and, on the loop thread, the stop operation.              *)

RequestStop(a) ==
  /\ a \notin requested
  /\ requested' = requested \cup {a}
  /\ callback' = callback \ {a}
  /\ Used' = [Used EXCEPT ![a] = @ \/ a \in callback]
  /\ stopQueued' = IF a \in callback /\ ~Used[a] THEN stopQueued \cup {a} ELSE stopQueued
  /\ UNCHANGED <<made, list, PendingConnections, registered, doneVars, dangling, uvVars>>

ApplyStop(a) ==
  /\ a \in stopQueued
  /\ stopQueued' = stopQueued \ {a}
  /\ Erase(a)
  /\ Completes(a, "stopped")
  /\ UNCHANGED <<made, PendingConnections, registered, Used, callback, requested, dangling, uvVars>>

Connect(c) ==
  /\ open
  /\ client[c] = "none"
  /\ client' = [client EXCEPT ![c] = "arriving"]
  /\ UNCHANGED <<made, list, PendingConnections, registered, stopVars, doneVars, dangling, held, watching, open>>

ConnectionCallback(c) == CountConnection(c) \/ AcceptPopped(c) \/ ConnectionFails(c)

RegisterAccept(a) ==
  RegisterPending(a) \/ RegisterWaiting(a) \/ RegisterListening(a) \/ RegisterListenFails(a)

Next ==
  \/ Close
  \/ \E a \in Accepts : RegisterAccept(a) \/ RequestStop(a) \/ ApplyStop(a)
  \/ \E c \in Connections : Connect(c) \/ ConnectionCallback(c)

Spec == Init /\ [][Next]_vars

(* The loop applies stop operations and libuv reports connections. *)
FairSpec ==
  /\ Spec
  /\ \A a \in Accepts : WF_vars(ApplyStop(a))
  /\ \A c \in Connections : WF_vars(ConnectionCallback(c))

-----------------------------------------------------------------------------
Alive(a) == result[a] = "none"

(* The list has a pointer to the accept. *)
InList(a) == ListHead = a \/ \E n \in Accepts : NextOf[n] = a

(* Next and Prev agree, and a node outside the list points nowhere. *)
LinksSound ==
  /\ ListHead # NULL => Prev[ListHead] = NULL
  /\ \A m, n \in Accepts : NextOf[m] = n <=> Prev[n] = m
  /\ \A a \in Accepts : ~InList(a) => NextOf[a] = NULL

(***************************************************************************)
(* AcceptList links exactly the accepts that wait, in both directions: no  *)
(* handler, in whatever order stops and connections come, leaves a pointer *)
(* to an accept that completed or was popped, but for one whose listen     *)
(* failed.  An accept that was popped although its stop had won is taken   *)
(* off a second time, by a stop that is still queued.                      *)
(***************************************************************************)
AcceptListSound ==
  /\ LinksSound
  /\ \A a \in Accepts :
       /\ InList(a) => a \in registered /\ (Alive(a) \/ result[a] = "refused")
       /\ a \in registered /\ Alive(a) => InList(a) \/ a \in stopQueued

(***************************************************************************)
(* An accept that is registered completes at most once, whatever comes of  *)
(* connection, listen error and stop, and a completed accept is not        *)
(* scheduled again by a stop callback that Setup installs too late.  This  *)
(* needs the receiver to keep the accept until RegisterAccept returns; of  *)
(* one that Setup finds destroyed nothing is said.                         *)
(***************************************************************************)
CompletesOnce ==
  \A a \in Accepts \ dangling :
    /\ completions[a] = IF Alive(a) THEN 0 ELSE 1
    /\ a \in stopQueued => Alive(a)

(***************************************************************************)
(* A counted connection is really there, there is only one, and no accept  *)
(* waits beside it.                                                        *)
(***************************************************************************)
CountedIsHeld ==
  open /\ PendingConnections > 0 =>
    PendingConnections = 1 /\ held # NULL /\ ListHead = NULL

(***************************************************************************)
(* For a listener of bind_to, libuv keeps a connection from a waiting      *)
(* accept, or stays off the socket, only if an accept was stopped or       *)
(* uv_accept failed, or Setup ran on a destroyed accept.                   *)
(***************************************************************************)
Undisturbed ==
  /\ made = "bind" /\ open
  /\ requested = {} /\ dangling = {}
  /\ \A a \in Accepts : result[a] # "error"

WaitingIsPolled == Undisturbed /\ ListHead # NULL => watching /\ held = NULL

(***************************************************************************)
(* What tests/tcp.cpp expects of a listener and an accept: an accept does  *)
(* not wait while libuv holds a connection for it.                         *)
(***************************************************************************)
NoStrandedConnection == ~(held # NULL /\ ListHead # NULL)

(***************************************************************************)
(* A stop request ends an accept even if it comes before the accept is     *)
(* registered, loses a race or the listener is closed.                     *)
(***************************************************************************)
StopEndsAccept == \A a \in Accepts : a \in registered /\ a \in requested ~> ~Alive(a)

(***************************************************************************)
(* A connection does not wait for ever beside a waiting accept.            *)
(***************************************************************************)
ConnectionServed ==
  \A c \in Connections :
    client[c] = "arriving" ~> client[c] # "arriving" \/ ListHead = NULL \/ ~Undisturbed
=============================================================================
