-------------------------- MODULE SocketScopeProofs --------------------------
(***************************************************************************)
(* The scopes for any number of scopes, any nesting of depth two and any   *)
(* completions of their senders: the type invariant, with at most one      *)
(* completion for each scope, and that a scope implements ScopedResource.  *)
(***************************************************************************)
EXTENDS SocketScope, TLAPS

Owns(o) == Kind[o] \in {"accept_from", "connect_to"}

(* What the phase of a scope says about its handle and its result. *)
ScopeInv(o) ==
  /\ phase[o] = "new" => handle[o] = "none" /\ outcome[o] = NULL /\ completions[o] = 0
  /\ phase[o] = "upstream" =>
       /\ handle[o] = (IF Owns(o) THEN "open" ELSE "none")
       /\ outcome[o] = NULL /\ completions[o] = 0
  /\ phase[o] = "body" => handle[o] = "open" /\ outcome[o] = NULL /\ completions[o] = 0
  /\ phase[o] = "lost" => handle[o] = "open" /\ outcome[o] = NULL /\ completions[o] = 0
  /\ phase[o] = "closing" => handle[o] = "closing" /\ outcome[o] \in Outcomes /\ completions[o] = 0
  /\ phase[o] = "done" =>
       /\ outcome[o] \in Outcomes /\ completions[o] = 1
       /\ handle[o] \in {"none", "closed"} \/ (handle[o] = "open" /\ o \in Throwing)

IInv == TypeOK /\ (\A o \in Scopes : ScopeInv(o))

(***************************************************************************)
(* How one step changes one scope: the socket appears, the body starts or  *)
(* never will, the outcome is decided, or it is reported.                  *)
(***************************************************************************)
Moves(o, p, h, how, n) ==
  /\ phase' = [phase EXCEPT ![o] = p] /\ handle' = [handle EXCEPT ![o] = h]
  /\ outcome' = [outcome EXCEPT ![o] = how] /\ completions' = [completions EXCEPT ![o] = n]

Starts(o) ==
  /\ phase[o] = "new"
  /\ \/ Moves(o, "upstream", IF Owns(o) THEN "open" ELSE "none", NULL, 0)
     \/ Moves(o, "done", "none", "errc", 1)
     \/ o \in Throwing /\ Moves(o, "done", "open", "exception", 1)

Fails(o) ==
  /\ phase[o] = "upstream" /\ ~Owns(o)
  /\ \E how \in Outcomes : Moves(o, "done", "none", how, 1)

Throws(o) ==
  /\ phase[o] = "upstream" /\ ~Owns(o) /\ o \in Throwing
  /\ Moves(o, "done", "open", "exception", 1)

EntersBody(o) ==
  phase[o] = "upstream" /\ \E p \in {"body", "lost"} : Moves(o, p, "open", NULL, 0)

Decides(o) ==
  /\ phase[o] \in {"upstream", "body"}
  /\ \E how \in Outcomes : Moves(o, "closing", "closing", how, 0)

ReportsOutcome(o) == phase[o] = "closing" /\ Moves(o, "done", "closed", outcome[o], 1)

Transition(o) ==
  Starts(o) \/ Fails(o) \/ Throws(o) \/ EntersBody(o) \/ Decides(o) \/ ReportsOutcome(o)

-----------------------------------------------------------------------------
(* Every step of a scope is one of these transitions. *)
LEMMA StepIsTransition ==
  ASSUME IInv, NEW o \in Scopes, Step(o)
  PROVE  Transition(o) /\ requested' = requested /\ asked' \in SUBSET Scopes
<1> USE ScopesAssumption
<1>0. /\ ScopeInv(o) /\ TypeOK /\ Kind[o] \in Kinds
      /\ outcome = [outcome EXCEPT ![o] = outcome[o]]
      /\ completions = [completions EXCEPT ![o] = completions[o]]
  BY DEF IInv, TypeOK
<1>1. CASE StartUpstream(o)
  BY <1>0, <1>1 DEF StartUpstream, Set, Transition, Starts, Moves, Owns, ScopeInv, TypeOK
<1>2. CASE AcceptFromStart(o) \/ ConnectToStart(o)
  BY <1>0, <1>2 DEF AcceptFromStart, ConnectToStart, EmplaceAndStartInitially, Complete, Enter, Set,
       Transition, Starts, Moves, Owns, ScopeInv, TypeOK
<1>3. CASE BindToSetValue(o)
  BY <1>0, <1>3 DEF BindToSetValue, UpstreamValue, Complete, BeginClose, Enter, Set,
       Transition, Fails, Throws, EntersBody, Decides, Moves, Owns, ScopeInv, TypeOK, Outcomes
<1>4. CASE AcceptFromSetValue(o) \/ ConnectToSetValue(o)
  BY <1>0, <1>4 DEF AcceptFromSetValue, ConnectToSetValue, UpstreamValue, BeginClose, Enter, Set,
       Transition, EntersBody, Decides, Moves, Owns, ScopeInv, TypeOK, Outcomes
<1>5. CASE AsyncValueSetValue(o)
  BY <1>0, <1>5 DEF AsyncValueSetValue, AsyncValueThrows, UpstreamValue, Complete, Enter, Set,
       Transition, Throws, EntersBody, Moves, Owns, ScopeInv, TypeOK, Outcomes
<1>6. ASSUME NEW how \in Outcomes, ForwardUpstream(o, how)
      PROVE  Transition(o) /\ requested' = requested /\ asked' \in SUBSET Scopes
  <2>1. phase[o] = "upstream" /\ ~Owns(o) /\ Moves(o, "done", "none", how, 1)
    BY <1>0, <1>6 DEF ForwardUpstream, Complete, Set, Moves, Owns, ScopeInv, TypeOK
  <2>2. QED
    BY <1>0, <1>6, <2>1 DEF ForwardUpstream, Transition, Fails, TypeOK
<1>7. ASSUME NEW how \in Outcomes, AcceptFromClose(o, how) \/ ConnectToClose(o, how)
      PROVE  Transition(o) /\ requested' = requested /\ asked' \in SUBSET Scopes
  BY <1>0, <1>7 DEF AcceptFromClose, ConnectToClose, BeginClose, Set, Transition, Decides, Moves,
       Owns, ScopeInv, TypeOK
<1>8. ASSUME NEW how \in Outcomes, BodyEnds(o, how) \/ Drop(o, how)
      PROVE  Transition(o) /\ requested' = requested /\ asked' \in SUBSET Scopes
  BY <1>0, <1>8 DEF BodyEnds, Drop, Ask, BeginClose, Set, Transition, Decides, Moves, ScopeInv, TypeOK
<1>9. CASE CloseCallback(o)
  BY <1>0, <1>9 DEF CloseCallback, BindToClosed, AcceptFromClosed, ConnectToClosed, AsyncValueDropped,
       Closed, Complete, Set, Transition, ReportsOutcome, Moves, ScopeInv, TypeOK
<1>10. QED
  BY <1>1, <1>2, <1>3, <1>4, <1>5, <1>6, <1>7, <1>8, <1>9 DEF Step, UpstreamEnds

(* A transition keeps what the phases say, for the scope that takes it. *)
LEMMA TransitionKeepsScope ==
  ASSUME IInv, NEW o \in Scopes, Transition(o)
  PROVE  /\ phase' \in [Scopes -> {"new", "upstream", "body", "closing", "done", "lost"}]
         /\ handle' \in [Scopes -> {"none", "open", "closing", "closed"}]
         /\ outcome' \in [Scopes -> Outcomes \cup {NULL}]
         /\ completions' \in [Scopes -> 0..1]
         /\ \A q \in Scopes : ScopeInv(q)'
<1> USE ScopesAssumption DEF IInv, TypeOK
<1>1. ASSUME NEW p \in {"new", "upstream", "body", "closing", "done", "lost"},
             NEW h \in {"none", "open", "closing", "closed"},
             NEW how \in Outcomes \cup {NULL}, NEW n \in 0..1,
             Moves(o, p, h, how, n)
      PROVE  /\ phase' \in [Scopes -> {"new", "upstream", "body", "closing", "done", "lost"}]
             /\ handle' \in [Scopes -> {"none", "open", "closing", "closed"}]
             /\ outcome' \in [Scopes -> Outcomes \cup {NULL}]
             /\ completions' \in [Scopes -> 0..1]
             /\ phase'[o] = p /\ handle'[o] = h /\ outcome'[o] = how /\ completions'[o] = n
             /\ \A q \in Scopes \ {o} : ScopeInv(q)'
  BY <1>1 DEF Moves, ScopeInv, Owns
<1>2. CASE Starts(o)
  <2>1. CASE Moves(o, "upstream", IF Owns(o) THEN "open" ELSE "none", NULL, 0)
    <3>1. CASE Owns(o)
      BY <1>1, <2>1, <3>1 DEF ScopeInv, Owns
    <3>2. CASE ~Owns(o)
      BY <1>1, <2>1, <3>2 DEF ScopeInv, Owns
    <3>3. QED
      BY <3>1, <3>2
  <2>2. CASE Moves(o, "done", "none", "errc", 1)
    BY <1>1, <2>2 DEF ScopeInv, Outcomes
  <2>3. CASE o \in Throwing /\ Moves(o, "done", "open", "exception", 1)
    BY <1>1, <2>3 DEF ScopeInv, Outcomes
  <2>4. QED
    BY <1>2, <2>1, <2>2, <2>3 DEF Starts
<1>3. CASE Fails(o)
  BY <1>1, <1>3 DEF Fails, ScopeInv
<1>4. CASE Throws(o)
  BY <1>1, <1>4 DEF Throws, ScopeInv, Outcomes
<1>5. CASE EntersBody(o)
  BY <1>1, <1>5 DEF EntersBody, ScopeInv
<1>6. CASE Decides(o)
  BY <1>1, <1>6 DEF Decides, ScopeInv
<1>7. CASE ReportsOutcome(o)
  BY <1>1, <1>7 DEF ReportsOutcome, ScopeInv
<1>8. QED
  BY <1>2, <1>3, <1>4, <1>5, <1>6, <1>7 DEF Transition

(* The invariant of the scopes is inductive. *)
LEMMA ScopeInvariant == Spec => []IInv
<1>1. Init => IInv
  BY ScopesAssumption DEF Init, IInv, TypeOK, ScopeInv
<1>2. IInv /\ [Next]_vars => IInv'
  <2> SUFFICES ASSUME IInv, [Next]_vars PROVE IInv'
    OBVIOUS
  <2>1. ASSUME NEW o \in Scopes, Step(o) PROVE IInv'
    BY <2>1, StepIsTransition, TransitionKeepsScope DEF IInv, TypeOK
  <2>2. ASSUME NEW r \in Scopes, RequestStop(r) PROVE IInv'
    BY <2>2, ScopesAssumption DEF RequestStop, Reached, Nested, Ask, IInv, TypeOK, ScopeInv, Owns
  <2>3. CASE UNCHANGED vars
    BY <2>3 DEF vars, IInv, TypeOK, ScopeInv, Owns
  <2>4. QED
    BY <2>1, <2>2, <2>3 DEF Next
<1>3. QED
  BY <1>1, <1>2, PTL DEF Spec

(* The state of the scopes stays well typed: no scope completes twice. *)
THEOREM TypeCorrect == Spec => []TypeOK
<1>1. IInv => TypeOK
  BY DEF IInv
<1>2. QED
  BY <1>1, ScopeInvariant, PTL

-----------------------------------------------------------------------------
(* The refinement: the phases of the scopes, seen as those of their resources. *)
absPhase == [o \in Scopes |-> Resource(phase[o], handle[o])]

(* What ScopedResource sees in each phase. *)
LEMMA ResourceValues ==
  /\ \A h \in {"none", "closed"} : Resource("done", h) = "done"
  /\ Resource("done", "open") = "leaked"
  /\ \A p \in {"upstream", "body", "lost"} : Resource(p, "open") = "held"
  /\ \A p \in {"new", "upstream"} : Resource(p, "none") = "outside"
  /\ Resource("closing", "closing") = "releasing"
BY DEF Resource

(* The resource of the scope that moves; the others keep theirs. *)
LEMMA MovesResource ==
  ASSUME TypeOK, NEW o \in Scopes, NEW p, NEW h, NEW how, NEW n, Moves(o, p, h, how, n)
  PROVE  /\ outcome' = [outcome EXCEPT ![o] = how]
         /\ absPhase' = [absPhase EXCEPT ![o] = Resource(p, h)]
         /\ absPhase[o] = Resource(phase[o], handle[o])
BY DEF TypeOK, Moves, absPhase

(* A step within one phase of the resource. *)
LEMMA NothingMoves ==
  ASSUME TypeOK, NEW o \in Scopes, NEW p, NEW h, NEW n, Moves(o, p, h, outcome[o], n),
         Resource(p, h) = Resource(phase[o], handle[o])
  PROVE  absPhase' = absPhase /\ outcome' = outcome
BY DEF TypeOK, Moves, absPhase

(* What a transition is for the resource. *)
LEMMA TransitionImplements ==
  ASSUME IInv, NEW o \in Scopes, Transition(o)
  PROVE  [Abstract!Next]_(Abstract!vars)
<1>0. ScopeInv(o) /\ TypeOK
  BY DEF IInv
<1>a. ASSUME NEW to, absPhase[o] = "outside", absPhase' = [absPhase EXCEPT ![o] = to],
             NEW how \in Outcomes, outcome' = [outcome EXCEPT ![o] = how],
             \/ to = "done" \/ to = "releasing"
             \/ to = "leaked" /\ o \in Throwing /\ how = "exception"
      PROVE  [Abstract!Next]_(Abstract!vars)
  BY <1>a DEF absPhase, Abstract!Next, Abstract!Fail, Abstract!AcquireAndDecide, Abstract!Leak,
       Abstract!Move
<1>b. ASSUME absPhase[o] = "held", absPhase' = [absPhase EXCEPT ![o] = "releasing"],
             NEW how \in Outcomes, outcome' = [outcome EXCEPT ![o] = how]
      PROVE  [Abstract!Next]_(Abstract!vars)
  BY <1>b DEF absPhase, Abstract!Next, Abstract!Decide, Abstract!Move
<1>c. ASSUME outcome' = outcome,
             \/ absPhase[o] = "outside" /\ absPhase' = [absPhase EXCEPT ![o] = "held"]
             \/ absPhase[o] = "releasing" /\ absPhase' = [absPhase EXCEPT ![o] = "done"]
             \/ absPhase' = absPhase
      PROVE  [Abstract!Next]_(Abstract!vars)
  BY <1>c DEF absPhase, Abstract!Next, Abstract!Acquire, Abstract!Report, Abstract!Move, Abstract!vars
<1>1. CASE Starts(o)
  <2>1. absPhase[o] = "outside" /\ phase[o] = "new" /\ outcome[o] = NULL
        /\ Resource(phase[o], handle[o]) = "outside"
    BY <1>0, <1>1, ResourceValues DEF Starts, ScopeInv, absPhase
  <2>2. CASE Moves(o, "upstream", IF Owns(o) THEN "open" ELSE "none", NULL, 0)
    <3>1. CASE Owns(o)
      <4>1. Moves(o, "upstream", "open", NULL, 0) /\ Resource("upstream", "open") = "held"
        BY <2>2, <3>1, ResourceValues
      <4>2. absPhase' = [absPhase EXCEPT ![o] = "held"] /\ outcome' = [outcome EXCEPT ![o] = NULL]
        BY <1>0, <4>1, MovesResource
      <4>3. QED
        BY <1>0, <1>c, <2>1, <4>2 DEF TypeOK
    <3>2. CASE ~Owns(o)
      <4>1. Moves(o, "upstream", "none", outcome[o], 0) /\ Resource("upstream", "none") = "outside"
        BY <2>1, <2>2, <3>2, ResourceValues
      <4>2. absPhase' = absPhase /\ outcome' = outcome
        BY <1>0, <2>1, <4>1, NothingMoves
      <4>3. QED
        BY <1>c, <4>2
    <3>3. QED
      BY <3>1, <3>2
  <2>3. CASE Moves(o, "done", "none", "errc", 1)
    <3>1. absPhase' = [absPhase EXCEPT ![o] = "done"] /\ outcome' = [outcome EXCEPT ![o] = "errc"]
      BY <1>0, <2>3, MovesResource, ResourceValues
    <3>2. QED
      BY <1>a, <2>1, <3>1 DEF Outcomes
  <2>4. CASE o \in Throwing /\ Moves(o, "done", "open", "exception", 1)
    <3>1. absPhase' = [absPhase EXCEPT ![o] = "leaked"] /\ outcome' = [outcome EXCEPT ![o] = "exception"]
      BY <1>0, <2>4, MovesResource, ResourceValues
    <3>2. QED
      BY <1>a, <2>1, <2>4, <3>1 DEF Outcomes
  <2>5. QED
    BY <1>1, <2>2, <2>3, <2>4 DEF Starts
<1>2. CASE Fails(o)
  <2>1. PICK how \in Outcomes : Moves(o, "done", "none", how, 1)
    BY <1>2 DEF Fails
  <2>2. absPhase' = [absPhase EXCEPT ![o] = "done"] /\ outcome' = [outcome EXCEPT ![o] = how]
    BY <1>0, <2>1, MovesResource, ResourceValues
  <2>3. absPhase[o] = "outside"
    BY <1>0, <1>2, ResourceValues DEF Fails, ScopeInv, absPhase
  <2>4. QED
    BY <1>a, <2>2, <2>3
<1>3. CASE Throws(o)
  <2>1. absPhase' = [absPhase EXCEPT ![o] = "leaked"] /\ outcome' = [outcome EXCEPT ![o] = "exception"]
    BY <1>0, <1>3, MovesResource, ResourceValues DEF Throws
  <2>2. absPhase[o] = "outside" /\ o \in Throwing
    BY <1>0, <1>3, ResourceValues DEF Throws, ScopeInv, absPhase
  <2>3. QED
    BY <1>a, <2>1, <2>2 DEF Outcomes
<1>4. CASE EntersBody(o)
  <2>1. PICK p \in {"body", "lost"} :
          /\ Moves(o, p, "open", NULL, 0) /\ phase[o] = "upstream" /\ outcome[o] = NULL
          /\ Resource(p, "open") = "held"
    BY <1>0, <1>4, ResourceValues DEF EntersBody, ScopeInv
  <2>2. absPhase' = [absPhase EXCEPT ![o] = "held"] /\ outcome' = outcome
    BY <1>0, <2>1, MovesResource DEF TypeOK
  <2>3. absPhase[o] \in {"outside", "held"}
    BY <1>0, <2>1, ResourceValues DEF ScopeInv, absPhase
  <2>4. absPhase[o] = "held" => absPhase' = absPhase
    BY <2>2 DEF absPhase
  <2>5. QED
    BY <1>c, <2>2, <2>3, <2>4
<1>5. CASE Decides(o)
  <2>1. PICK how \in Outcomes : Moves(o, "closing", "closing", how, 0)
    BY <1>5 DEF Decides
  <2>2. absPhase' = [absPhase EXCEPT ![o] = "releasing"] /\ outcome' = [outcome EXCEPT ![o] = how]
    BY <1>0, <2>1, MovesResource, ResourceValues
  <2>3. absPhase[o] \in {"outside", "held"}
    BY <1>0, <1>5, ResourceValues DEF Decides, ScopeInv, absPhase
  <2>4. QED
    BY <1>a, <1>b, <2>2, <2>3
<1>6. CASE ReportsOutcome(o)
  <2>1. /\ Moves(o, "done", "closed", outcome[o], 1) /\ phase[o] = "closing"
        /\ Resource("done", "closed") = "done"
    BY <1>6, ResourceValues DEF ReportsOutcome
  <2>2. absPhase' = [absPhase EXCEPT ![o] = "done"] /\ outcome' = outcome
    BY <1>0, <2>1, MovesResource DEF TypeOK
  <2>3. absPhase[o] = "releasing"
    BY <1>0, <2>1, ResourceValues DEF ScopeInv, absPhase
  <2>4. QED
    BY <1>c, <2>2, <2>3
<1>7. QED
  BY <1>1, <1>2, <1>3, <1>4, <1>5, <1>6 DEF Transition

(***************************************************************************)
(* bind_to, accept_from, connect_to and async_value keep the promise of    *)
(* ScopedResource, for any scopes, nesting, senders and bodies: the socket *)
(* is closed before the outcome is reported, and that outcome is the one   *)
(* that was decided.                                                       *)
(***************************************************************************)
THEOREM ScopesAreResources == Spec => ImplementsScopedResource
<1>1. Init => Abstract!Init
  BY ResourceValues DEF Init, Abstract!Init
<1>2. IInv /\ [Next]_vars => [Abstract!Next]_(Abstract!vars)
  <2> SUFFICES ASSUME IInv, [Next]_vars PROVE [Abstract!Next]_(Abstract!vars)
    OBVIOUS
  <2>1. ASSUME NEW o \in Scopes, Step(o) PROVE [Abstract!Next]_(Abstract!vars)
    BY <2>1, StepIsTransition, TransitionImplements
  <2>2. ASSUME NEW r \in Scopes, RequestStop(r) PROVE [Abstract!Next]_(Abstract!vars)
    BY <2>2 DEF RequestStop, Abstract!vars
  <2>3. CASE UNCHANGED vars
    BY <2>3 DEF vars, Abstract!vars
  <2>4. QED
    BY <2>1, <2>2, <2>3 DEF Next
<1>3. QED
  BY <1>1, <1>2, ScopeInvariant, PTL DEF Spec, ImplementsScopedResource, Abstract!Spec
=============================================================================
