---------------------------- MODULE ScopedResource ----------------------------
(***************************************************************************)
(* What bind_to, accept_from, connect_to and async_value promise: a scope  *)
(* either fails without a resource, or holds the resource until its        *)
(* outcome is known, releases it, and only then reports that outcome.  A   *)
(* scope whose body cannot be built because that throws may report it and  *)
(* leave the resource unreleased.                                          *)
(***************************************************************************)
CONSTANTS Scopes, Throwing, Outcomes, NULL

VARIABLES
  phase,    \* "outside", "held", "releasing", "done", "leaked"
  outcome   \* what the scope will report or has reported

vars == <<phase, outcome>>

Init ==
  /\ phase = [o \in Scopes |-> "outside"]
  /\ outcome = [o \in Scopes |-> NULL]

Move(o, from, to) == phase[o] = from /\ phase' = [phase EXCEPT ![o] = to]

Acquire(o) == Move(o, "outside", "held") /\ UNCHANGED outcome

Decide(o, how) == Move(o, "held", "releasing") /\ outcome' = [outcome EXCEPT ![o] = how]

(* Acquired and given up in one step. *)
AcquireAndDecide(o, how) == Move(o, "outside", "releasing") /\ outcome' = [outcome EXCEPT ![o] = how]

Fail(o, how) == Move(o, "outside", "done") /\ outcome' = [outcome EXCEPT ![o] = how]

Leak(o) ==
  o \in Throwing /\ Move(o, "outside", "leaked") /\ outcome' = [outcome EXCEPT ![o] = "exception"]

Report(o) == Move(o, "releasing", "done") /\ UNCHANGED outcome

Next ==
  \E o \in Scopes :
    \/ Acquire(o) \/ Leak(o) \/ Report(o)
    \/ \E how \in Outcomes : Decide(o, how) \/ AcquireAndDecide(o, how) \/ Fail(o, how)

Spec == Init /\ [][Next]_vars
=============================================================================
