------------------------------ MODULE StopRace ------------------------------
(***************************************************************************)
(* What TStopOperation promises to the operations that use it: between the *)
(* event that an operation waits for and a stop request, one of the two    *)
(* wins, in one step and for good, and the winner decides how the receiver *)
(* is completed.  Pipeline and TcpListener take this for granted.          *)
(***************************************************************************)
CONSTANT Ops

VARIABLES
  phase,      \* "fresh", "waiting", won by "event" or "stop", or how it completed
  fired,      \* the event has happened
  requested   \* stop has been requested

vars == <<phase, fired, requested>>

Init ==
  /\ phase = [o \in Ops |-> "fresh"]
  /\ fired = [o \in Ops |-> FALSE]
  /\ requested = FALSE

Move(o, from, to) == phase[o] = from /\ phase' = [phase EXCEPT ![o] = to]

Wait(o) == Move(o, "fresh", "waiting") /\ UNCHANGED <<fired, requested>>

EventWins(o) ==
  Move(o, "waiting", "event") /\ fired' = [fired EXCEPT ![o] = TRUE] /\ UNCHANGED requested

(* The event of an operation that is being stopped changes nothing else. *)
EventLoses(o) ==
  phase[o] = "stop" /\ fired' = [fired EXCEPT ![o] = TRUE] /\ UNCHANGED <<phase, requested>>

StopWins(o) == requested /\ Move(o, "waiting", "stop") /\ UNCHANGED <<fired, requested>>

(* What follows a completion may request stop on the spot. *)
Complete(o, from, how) ==
  Move(o, from, how) /\ requested' \in {requested, TRUE} /\ UNCHANGED fired

RequestStop == requested' = TRUE /\ UNCHANGED <<phase, fired>>

Next ==
  \/ RequestStop
  \/ \E o \in Ops :
       \/ Wait(o) \/ EventWins(o) \/ EventLoses(o) \/ StopWins(o)
       \/ Complete(o, "event", "value") \/ Complete(o, "stop", "stopped")
       \/ Complete(o, "fresh", "passed")

Spec == Init /\ [][Next]_vars
=============================================================================
