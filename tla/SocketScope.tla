----------------------------- MODULE SocketScope -----------------------------
(***************************************************************************)
(* The algorithms that own a socket or a value for the time of a body:     *)
(* bind_to, accept_from, connect_to and async_value.  Each is one variant  *)
(* of operation states in one piece of storage: the upstream (with the     *)
(* accept or the connect), the body under exec::finally with the close,    *)
(* and the close that reports an error.  A scope may run within another:   *)
(* as a part of its body (accept_from in the bind_to of its listener), or  *)
(* spawned into the exec::async_scope of an async_value's value (the       *)
(* connections of a server), which drop stops and waits for.               *)
(*                                                                         *)
(* The loop thread runs one step at a time; stops are requested on it.     *)
(***************************************************************************)
EXTENDS Naturals

CONSTANTS
  Scopes,
  Kind,        \* Kind[o] is "bind_to", "accept_from", "connect_to" or "async_value"
  Parent,      \* Parent[o]: the scope within which o runs, or NULL
  Spawned,     \* scopes that are spawned into the value of their parent
  In,          \* In[o]: how its upstream sender may complete
  Ends,        \* Ends[o]: how its body may complete
  Throwing,    \* scopes for which invoking or connecting the body may throw
  NothrowFn,   \* scopes whose body is made by a function that is noexcept
  StopSource,  \* async_values whose value has request_stop
  Waits,       \* async_values whose body waits, last, for the value's scope to be empty
  NULL

Outcomes == {"value", "errc", "exception", "stopped"}
Kinds == {"bind_to", "accept_from", "connect_to", "async_value"}
Values == {o \in Scopes : Kind[o] = "async_value"}

ASSUME ScopesAssumption ==
  /\ NULL \notin Scopes \cup Outcomes
  /\ Throwing \subseteq Scopes /\ NothrowFn \subseteq Scopes
  /\ Kind \in [Scopes -> Kinds]
  /\ In \in [Scopes -> SUBSET Outcomes] /\ Ends \in [Scopes -> SUBSET Outcomes]
  /\ Parent \in [Scopes -> Scopes \cup {NULL}]
  /\ \A o \in Scopes : Parent[o] # NULL => Parent[o] # o /\ Parent[Parent[o]] = NULL
  /\ Spawned \subseteq {o \in Scopes : Parent[o] \in Values}
  /\ StopSource \subseteq Values /\ Waits \subseteq Values

VARIABLES
  phase,        \* "new", "upstream", "body", "closing", "done"; "lost": will never complete
  handle,       \* the socket's handle or the value: "none", "open", "closing", "closed"
  outcome,      \* the result that is kept while the handle closes, then reported
  completions,
  requested,    \* outermost scopes whose stop token was requested
  asked         \* values of async_value that were asked to stop

vars == <<phase, handle, outcome, completions, requested, asked>>

(* The type invariant. *)
TypeOK ==
  /\ phase \in [Scopes -> {"new", "upstream", "body", "closing", "done", "lost"}]
  /\ handle \in [Scopes -> {"none", "open", "closing", "closed"}]
  /\ outcome \in [Scopes -> Outcomes \cup {NULL}]
  /\ completions \in [Scopes -> 0..1]
  /\ requested \subseteq Scopes
  /\ asked \subseteq Scopes

Init ==
  /\ phase = [o \in Scopes |-> "new"]
  /\ handle = [o \in Scopes |-> "none"]
  /\ outcome = [o \in Scopes |-> NULL]
  /\ completions = [o \in Scopes |-> 0]
  /\ requested = {} /\ asked = {}

-----------------------------------------------------------------------------
(* How the operation state that runs first may complete. *)
Upstream(o) ==
  CASE Kind[o] = "accept_from" -> In[o] \cup {"errc", "stopped"}
    [] Kind[o] = "connect_to" -> In[o] \cup {"errc"}
    [] OTHER -> In[o]

-----------------------------------------------------------------------------
(* What is running within a scope: parts of its body, and what its value spawned. *)

Running(c) == phase[c] \notin {"new", "done"}

Nested(o) == {c \in Scopes \ Spawned : Parent[c] = o}
SpawnedIn(o) == {c \in Spawned : Parent[c] = o}

(* exec::async_scope::on_empty. *)
Empty(o) == \A c \in SpawnedIn(o) : ~Running(c)

(***************************************************************************)
(* A part of a body starts with the body.  The body spawns, and so does    *)
(* what has been spawned, as each connection spawns the next accept; also  *)
(* while drop waits.                                                       *)
(***************************************************************************)
MayStart(o) ==
  CASE Parent[o] = NULL -> TRUE
    [] Parent[o] # NULL /\ o \notin Spawned -> phase[Parent[o]] = "body"
    [] o \in Spawned -> phase[Parent[o]] = "body" \/ ~Empty(Parent[o])

(***************************************************************************)
(* The stop token of a scope.  Every algorithm connects its upstream and   *)
(* its body to the environment of its receiver, so the token of the        *)
(* outermost scope reaches all parts of the bodies; what is spawned has    *)
(* the token of the async_scope instead.                                   *)
(***************************************************************************)
Stopped(o) ==
  CASE o \in Spawned -> Parent[o] \in asked
    [] Parent[o] = NULL -> o \in requested
    [] OTHER -> Parent[o] \in requested

(* The value is there, has request_stop, and the StopCallback is engaged. *)
Registered(o) == o \in StopSource /\ phase[o] # "done" /\ handle[o] \in {"open", "closing"}

(* TStopCallback of what has been spawned runs when the value it was spawned into is asked. *)
Ask(V) == asked \cup V \cup {c \in Spawned : Parent[c] \in V /\ Registered(c)}

Set(o, p, h) == phase' = [phase EXCEPT ![o] = p] /\ handle' = [handle EXCEPT ![o] = h]

Complete(o, how, h) ==
  /\ Set(o, "done", h)
  /\ outcome' = [outcome EXCEPT ![o] = how]
  /\ completions' = [completions EXCEPT ![o] = @ + 1]

(* Close the socket or drop the value; the outcome is kept for the callback. *)
BeginClose(o, how) ==
  /\ Set(o, "closing", "closing")
  /\ outcome' = [outcome EXCEPT ![o] = how]
  /\ UNCHANGED completions

Enter(o, p) == Set(o, p, "open") /\ UNCHANGED <<outcome, completions>>

-----------------------------------------------------------------------------
(* start                                                                   *)

(* bind_to and async_value start their upstream and own nothing yet. *)
StartUpstream(o) ==
  /\ phase[o] = "new" /\ MayStart(o)
  /\ Kind[o] \in {"bind_to", "async_value"}
  /\ Set(o, "upstream", "none")
  /\ UNCHANGED <<outcome, completions, requested, asked>>

(***************************************************************************)
(* EmplaceAndStartInitially of accept_from and connect_to: the socket is   *)
(* made first.  If it cannot be, there is nothing to close; if connecting  *)
(* throws, the error is reported and the socket stays as it is.            *)
(***************************************************************************)
EmplaceAndStartInitially(o) ==
  /\ \/ Complete(o, "errc", "none")
     \/ o \in Throwing /\ Complete(o, "exception", "open")
     \/ Enter(o, "upstream")
  /\ UNCHANGED <<requested, asked>>

AcceptFromStart(o) ==
  phase[o] = "new" /\ MayStart(o) /\ Kind[o] = "accept_from" /\ EmplaceAndStartInitially(o)

ConnectToStart(o) ==
  phase[o] = "new" /\ MayStart(o) /\ Kind[o] = "connect_to" /\ EmplaceAndStartInitially(o)

-----------------------------------------------------------------------------
(* The upstream completes.                                                 *)

UpstreamValue(o, kind) == phase[o] = "upstream" /\ Kind[o] = kind /\ "value" \in Upstream(o)

(* Bug: the socket that could not be bound is not closed. *)
BindWithoutClose(o) ==
  /\ UpstreamValue(o, "bind_to")
  /\ \/ Complete(o, "errc", "none")
     \/ Complete(o, "errc", "open")
     \/ o \in Throwing /\ Complete(o, "exception", "open")
     \/ Enter(o, "body")
  /\ UNCHANGED <<requested, asked>>

(* Bug: the error of the bind is returned, and reported, as well. *)
BindReportsTwice(o) ==
  /\ UpstreamValue(o, "bind_to")
  /\ Set(o, "closing", "closing")
  /\ outcome' = [outcome EXCEPT ![o] = "errc"]
  /\ completions' = [completions EXCEPT ![o] = @ + 1]
  /\ UNCHANGED <<requested, asked>>

(* The socket cannot be made; it cannot be bound; the body throws; the body starts. *)
BindToSetValue(o) ==
  /\ UpstreamValue(o, "bind_to")
  /\ \/ Complete(o, "errc", "none")
     \/ BeginClose(o, "errc")
     \/ o \in Throwing /\ Complete(o, "exception", "open")
     \/ Enter(o, "body")
  /\ UNCHANGED <<requested, asked>>

AcceptFromSetValue(o) ==
  /\ UpstreamValue(o, "accept_from")
  /\ Enter(o, "body") \/ (o \in Throwing /\ BeginClose(o, "exception"))
  /\ UNCHANGED <<requested, asked>>

ConnectToSetValue(o) ==
  /\ UpstreamValue(o, "connect_to")
  /\ Enter(o, "body") \/ (o \in Throwing /\ BeginClose(o, "exception"))
  /\ UNCHANGED <<requested, asked>>

(***************************************************************************)
(* The body of the async_value throws: a noexcept function whose sender    *)
(* cannot be connected ends in a catch that does nothing, and the receiver *)
(* is never completed; otherwise the exception is reported and the value   *)
(* is not dropped.  (The receiver lies in the upstream's storage, which is *)
(* gone by then; it is taken to be still readable.)                        *)
(***************************************************************************)
AsyncValueThrows(o) ==
  /\ o \in Throwing
  /\ IF o \in NothrowFn THEN Enter(o, "lost") ELSE Complete(o, "exception", "open")

(* Bug: a stop that was requested before the value existed is not passed on to it. *)
AsyncValueDeaf(o) ==
  /\ UpstreamValue(o, "async_value")
  /\ Enter(o, "body") \/ AsyncValueThrows(o)
  /\ UNCHANGED <<requested, asked>>

(* The stop callback is registered before the body starts, and runs at once if it is late. *)
AsyncValueSetValue(o) ==
  /\ UpstreamValue(o, "async_value")
  /\ Enter(o, "body") \/ AsyncValueThrows(o)
  /\ asked' = IF Stopped(o) /\ o \in StopSource THEN asked \cup {o} ELSE asked
  /\ UNCHANGED requested

(* bind_to and async_value hand on what is not a value. *)
ForwardUpstream(o, how) ==
  /\ phase[o] = "upstream" /\ Kind[o] \in {"bind_to", "async_value"}
  /\ how \in Upstream(o) \ {"value"}
  /\ Complete(o, how, "none")
  /\ UNCHANGED <<requested, asked>>

(* EmplaceAndStartClose of accept_from and connect_to. *)
AcceptFromClose(o, how) ==
  /\ phase[o] = "upstream" /\ Kind[o] = "accept_from"
  /\ how \in Upstream(o) \ {"value"}
  /\ BeginClose(o, how)
  /\ UNCHANGED <<requested, asked>>

ConnectToClose(o, how) ==
  /\ phase[o] = "upstream" /\ Kind[o] = "connect_to"
  /\ how \in Upstream(o) \ {"value"}
  /\ BeginClose(o, how)
  /\ UNCHANGED <<requested, asked>>

UpstreamEnds(o) ==
  \/ BindToSetValue(o) \/ AcceptFromSetValue(o) \/ ConnectToSetValue(o) \/ AsyncValueSetValue(o)
  \/ \E how \in Outcomes :
       ForwardUpstream(o, how) \/ AcceptFromClose(o, how) \/ ConnectToClose(o, how)

-----------------------------------------------------------------------------
(***************************************************************************)
(* A body is one sender: it completes when the parts of it that have been  *)
(* started have.  One that waits for the async_scope does so last, after   *)
(* parts that ended with a value; an error or a stop of a part skips that. *)
(***************************************************************************)
BodyIsOver(o) ==
  /\ \A c \in Nested(o) : ~Running(c)
  /\ o \in Waits /\ (\A c \in Nested(o) : outcome[c] \in {"value", NULL}) => Empty(o)

(* exec::finally keeps the body's outcome and starts the close. *)
BodyEnds(o, how) ==
  /\ phase[o] = "body" /\ BodyIsOver(o) /\ Kind[o] # "async_value"
  /\ how \in Ends[o]
  /\ BeginClose(o, how)
  /\ UNCHANGED <<requested, asked>>

(* Bug: drop waits for what the value has spawned, and does not stop it. *)
DropWithoutStop(o, how) ==
  /\ phase[o] = "body" /\ BodyIsOver(o) /\ Kind[o] = "async_value"
  /\ how \in Ends[o]
  /\ BeginClose(o, how)
  /\ UNCHANGED <<requested, asked>>

(* exec::finally keeps the outcome and starts drop, which asks the value to stop. *)
Drop(o, how) ==
  /\ phase[o] = "body" /\ BodyIsOver(o) /\ Kind[o] = "async_value"
  /\ how \in Ends[o]
  /\ BeginClose(o, how)
  /\ asked' = Ask({o})
  /\ UNCHANGED requested

(* The close completes, and what the scope has kept is reported. *)
Closed(o, kind) ==
  /\ phase[o] = "closing" /\ Kind[o] = kind
  /\ Complete(o, outcome[o], "closed")
  /\ UNCHANGED <<requested, asked>>

(* TBindErrReceiver, TAcceptErrorReceiver, TConnectErrorReceiver, or exec::finally. *)
BindToClosed(o) == Closed(o, "bind_to")
AcceptFromClosed(o) == Closed(o, "accept_from")
ConnectToClosed(o) == Closed(o, "connect_to")

(* The async_scope is empty; TDestroyer: the value goes, then its stop callback. *)
AsyncValueDropped(o) == Empty(o) /\ Closed(o, "async_value")

CloseCallback(o) ==
  BindToClosed(o) \/ AcceptFromClosed(o) \/ ConnectToClosed(o) \/ AsyncValueDropped(o)

(* The stop callbacks that a stop of the outermost scope r runs. *)
Reached(r) == {o \in {r} \cup Nested(r) : Registered(o)}

RequestStop(r) ==
  /\ Parent[r] = NULL /\ phase[r] # "new" /\ r \notin requested
  /\ requested' = requested \cup {r}
  /\ asked' = Ask(Reached(r))
  /\ UNCHANGED <<phase, handle, outcome, completions>>

-----------------------------------------------------------------------------
Step(o) ==
  \/ StartUpstream(o) \/ AcceptFromStart(o) \/ ConnectToStart(o)
  \/ UpstreamEnds(o)
  \/ \E how \in Outcomes : BodyEnds(o, how) \/ Drop(o, how)
  \/ CloseCallback(o)

Next == \E o \in Scopes : Step(o) \/ RequestStop(o)

Spec == Init /\ [][Next]_vars

(***************************************************************************)
(* Connects and upstreams end by themselves, accepts and bodies when their *)
(* token is stopped, and what is being closed is closed.  A body that      *)
(* waits for its async_scope goes on when that is empty.                   *)
(***************************************************************************)
FairSpec ==
  /\ Spec
  /\ \A o \in Scopes :
       /\ WF_vars(UpstreamEnds(o) /\ (Kind[o] = "accept_from" => Stopped(o)))
       /\ WF_vars(Stopped(o) /\ \E how \in Outcomes : BodyEnds(o, how) \/ Drop(o, how))
       /\ WF_vars(CloseCallback(o))

-----------------------------------------------------------------------------
(* How far a scope is with its resource. *)
Resource(p, h) ==
  CASE p = "done" /\ h \in {"none", "closed"} -> "done"
    [] p = "done" /\ h \notin {"none", "closed"} -> "leaked"
    [] p # "done" /\ h = "open" -> "held"
    [] p # "done" /\ h = "closing" -> "releasing"
    [] OTHER -> "outside"

(***************************************************************************)
(* The scopes implement ScopedResource: whichever of the upstream, the     *)
(* bind, the body or a stop decides the outcome, the socket is closed      *)
(* before it is reported, exactly that outcome is reported, and it is      *)
(* reported once.  Only a throw while the body is built may leak.          *)
(***************************************************************************)
Abstract ==
  INSTANCE ScopedResource WITH phase <- [o \in Scopes |-> Resource(phase[o], handle[o])]

ImplementsScopedResource == Abstract!Spec

(* Something that will never complete is the scope itself or runs within it. *)
Stuck(o) == \E c \in Scopes : phase[c] = "lost" /\ (c = o \/ Parent[c] = o)

(***************************************************************************)
(* A stop of an outermost scope ends it, whatever it is doing: a stop that *)
(* comes before the value exists, while a part of the body runs, while the *)
(* body waits for the async_scope, or while drop does.  Where the body     *)
(* waits, only the StopCallback and the value's request_stop end what was  *)
(* spawned, so it fails for a value without one.  The catch that does      *)
(* nothing (async_value_op_state.hpp:72-76) is the one other way to hang.  *)
(***************************************************************************)
StopEndsScope ==
  \A o \in Scopes :
    o \in requested /\ (o \in Waits => o \in StopSource) ~> phase[o] = "done" \/ Stuck(o)

(***************************************************************************)
(* What is being closed or dropped gets there without a stop from outside: *)
(* drop stops the accepts and the connections that the value has spawned,  *)
(* including one that they spawn while it waits, and then waits for them   *)
(* only.                                                                   *)
(***************************************************************************)
ReleaseEnds == \A o \in Scopes : phase[o] = "closing" ~> phase[o] = "done" \/ Stuck(o)
=============================================================================
