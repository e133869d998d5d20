------------------------------ MODULE Pipeline ------------------------------
(***************************************************************************)
(* Chains of socket algorithms on one loop thread.  The value of a stage   *)
(* starts the next one inside the same callback; an error or a stop goes   *)
(* past all later stages to the end of the chain.  Reads and receives      *)
(* leave a pointer to themselves in the handle's data and can be stopped;  *)
(* write, send, connect and shutdown are one libuv request each; close     *)
(* takes over the data pointer.  Timers, signals and accepts are events    *)
(* here; StopOperation and TcpListener have their detail, and show that a  *)
(* stop request and the event it races with are one step each.             *)
(***************************************************************************)
EXTENDS Algorithms

CONSTANTS
  Pipelines,
  Sockets, Kind,  \* Kind[s] is "tcp", "udp" or "listener"
  First,          \* First[p]: the sender that the chain p starts with
  Chain,          \* Chain[p]: its algorithms, a sequence of [tag, sock]
  Stoppable,      \* chains whose receiver has a stop token that can be requested
  EmptySends,     \* chains whose last stage sends an empty buffer
  NULL            \* no operation

ASSUME NullIsNoPipeline == NULL \notin Pipelines

(* An algorithm of the loop, or one that its socket customises. *)
Steps ==
  [tag : LoopAlgorithms, sock : {"none"}]
    \cup UNION {[tag : SocketAlgorithms[Kind[s]], sock : {s}] : s \in Sockets}

(* A chain starts with just or schedule and compiles: its sockets have its algorithms. *)
ASSUME ChainsAssumption ==
  /\ "none" \notin Sockets
  /\ Kind \in [Sockets -> {"tcp", "udp", "listener"}]
  /\ \A p \in Pipelines :
       /\ First[p] \in {just, TScheduleSender}
       /\ Chain[p] \in Seq(Steps) /\ Chain[p] # <<>>

(* What connecting each chain to a receiver on the loop gives. *)
Connected == [p \in Pipelines |-> Connect(Kind, First[p], Chain[p], "loop")]
Ops(p) == Connected[p].ops
Declared(p) == Connected[p].sigs

(* What the chain declares before it is connected. *)
Packaged == [p \in Pipelines |-> Pipe(Kind, First[p], Chain[p]).sigs]

Reads == {"read_some", "read_until", "receive", "receive_from"}
Requests == {"write", "send", "send_to", "connect", "shutdown"}
Events == {"after", "at", "upon_signal", "accept"}

(* How the sockets may be used: what sets the data pointer of one belongs to one chain. *)
ASSUME OneReader ==
  \A p, q \in Pipelines : \A i \in 1..Len(Ops(p)), j \in 1..Len(Ops(q)) :
    /\ Ops(p)[i].op \in Reads \cup {"close"} /\ Ops(q)[j].op \in Reads \cup {"close"}
    /\ Ops(p)[i].sock = Ops(q)[j].sock
    => p = q

VARIABLES
  state,       \* "new", "queued" in the loop, "running", "pending" at libuv, "done"
  pos,         \* the stage, 0 for the sender the chain starts with
  requested,   \* chains that were asked to stop
  callback,    \* chains whose current stage has a registered stop callback
  Used,        \* TStopOperation::Used of the current stage
  stopQueued,  \* chains whose stage has its stop operation in the loop's list
  resent,      \* chains whose empty send has a request at libuv all the same
  result, completions,
  data,        \* the chain whose operation the handle's data points to
  reading,     \* libuv polls the socket for a read or receive
  life         \* "open", "closing", "closed"

stopVars == <<requested, callback, Used, stopQueued>>
doneVars == <<result, completions>>
sockVars == <<data, reading, life>>
vars == <<state, pos, stopVars, resent, doneVars, sockVars>>

(* The type invariant: a chain does not go past its last stage. *)
TypeOK ==
  /\ state \in [Pipelines -> {"new", "queued", "running", "pending", "done"}]
  /\ pos \in [Pipelines -> Nat]
  /\ requested \in SUBSET Pipelines /\ callback \in SUBSET Pipelines
  /\ Used \in SUBSET Pipelines /\ stopQueued \in SUBSET Pipelines
  /\ resent \in SUBSET Pipelines
  /\ result \in [Pipelines -> {"none", "value", "error", "stopped"}]
  /\ completions \in [Pipelines -> Nat]
  /\ data \in [Sockets -> Pipelines \cup {NULL}]
  /\ reading \in SUBSET Sockets
  /\ life \in [Sockets -> {"open", "closing", "closed"}]
  /\ \A p \in Pipelines : state[p] \in {"running", "pending"} => pos[p] \in 1..Len(Ops(p))

Init ==
  /\ state = [p \in Pipelines |-> "new"]
  /\ pos = [p \in Pipelines |-> 0]
  /\ requested = {} /\ callback = {} /\ Used = {} /\ stopQueued = {} /\ resent = {}
  /\ result = [p \in Pipelines |-> "none"]
  /\ completions = [p \in Pipelines |-> 0]
  /\ data = [s \in Sockets |-> NULL]
  /\ reading = {}
  /\ life = [s \in Sockets |-> "open"]

(* The stage that the chain is at. *)
op(p) == Ops(p)[pos[p]].op
sock(p) == Ops(p)[pos[p]].sock
At(p, where, kinds) == state[p] = where /\ op(p) \in kinds

(* The loop thread is not inside a callback. *)
Idle == \A p \in Pipelines : state[p] # "running"

(* Bug: the last stage's value starts one stage more. *)
EndStagePastEnd(p, how) ==
  IF how = "value" /\ pos[p] <= Len(Ops(p))
  THEN /\ pos' = [pos EXCEPT ![p] = @ + 1]
       /\ state' = [state EXCEPT ![p] = "running"]
       /\ UNCHANGED doneVars
  ELSE /\ state' = [state EXCEPT ![p] = "done"]
       /\ result' = [result EXCEPT ![p] = how]
       /\ completions' = [completions EXCEPT ![p] = @ + 1]
       /\ UNCHANGED pos

(* set_value runs the next stage; set_error and set_stopped are handed to the end. *)
EndStage(p, how) ==
  IF how = "value" /\ pos[p] < Len(Ops(p))
  THEN /\ pos' = [pos EXCEPT ![p] = @ + 1]
       /\ state' = [state EXCEPT ![p] = "running"]
       /\ UNCHANGED doneVars
  ELSE /\ state' = [state EXCEPT ![p] = "done"]
       /\ result' = [result EXCEPT ![p] = how]
       /\ completions' = [completions EXCEPT ![p] = @ + 1]
       /\ UNCHANGED pos

-----------------------------------------------------------------------------
(* start: schedule pushes the chain to the loop, just runs the first stage *)
(* at once, inside a callback of the loop thread.                          *)

StartScheduled(p) ==
  /\ state[p] = "new" /\ First[p].domain = "loop"
  /\ state' = [state EXCEPT ![p] = "queued"]
  /\ UNCHANGED <<pos, stopVars, resent, doneVars, sockVars>>

StartJust(p) ==
  /\ state[p] = "new" /\ First[p].domain # "loop" /\ Idle
  /\ EndStage(p, "value")
  /\ UNCHANGED <<stopVars, resent, sockVars>>

(* Apply of schedule looks at the stop token once. *)
ApplySchedule(p) ==
  /\ state[p] = "queued" /\ Idle
  /\ EndStage(p, IF p \in requested THEN "stopped" ELSE "value")
  /\ UNCHANGED <<stopVars, resent, sockVars>>

Setup(p) ==
  IF p \in requested
  THEN Used' = Used \cup {p} /\ stopQueued' = stopQueued \cup {p} /\ UNCHANGED callback
  ELSE Used' = Used \ {p} /\ callback' = callback \cup {p} /\ UNCHANGED stopQueued

Pend(p) ==
  /\ state' = [state EXCEPT ![p] = "pending"]
  /\ UNCHANGED <<pos, doneVars>>

-----------------------------------------------------------------------------
(* Reads: the data pointer is set before ReadStart or ReceiveStart.        *)

ReadStart(s) == life[s] = "open" /\ s \notin reading /\ reading' = reading \cup {s}
ReadStop(s) == reading' = reading \ {s}

StartRead(p) ==
  /\ data' = [data EXCEPT ![sock(p)] = p]
  /\ \/ ReadStart(sock(p)) /\ Pend(p) /\ Setup(p)
     \/ EndStage(p, "error") /\ UNCHANGED <<reading, callback, Used, stopQueued>>
  /\ UNCHANGED <<requested, resent, life>>

ReadSome(p) == At(p, "running", {"read_some"}) /\ StartRead(p)
ReadUntil(p) == At(p, "running", {"read_until"}) /\ StartRead(p)
Receive(p) == At(p, "running", {"receive"}) /\ StartRead(p)
ReceiveFrom(p) == At(p, "running", {"receive_from"}) /\ StartRead(p)

(* Bug: the read completes without stopping libuv's polling. *)
CompleteStillReading(s, how) ==
  LET p == data[s]
  IN  /\ p \notin Used
      /\ Used' = Used \cup {p} /\ callback' = callback \ {p}
      /\ EndStage(p, how)
      /\ UNCHANGED <<requested, stopQueued, resent, sockVars>>

(* Bug: the read does not ask whether a stop has won. *)
CompleteThoughStopped(s, how) ==
  LET p == data[s]
  IN  /\ Used' = Used \cup {p} /\ callback' = callback \ {p}
      /\ ReadStop(s)
      /\ EndStage(p, how)
      /\ UNCHANGED <<requested, stopQueued, resent, data, life>>

(* A callback of libuv completes the read that data points to, unless its stop has won. *)
CompleteRead(s, how) ==
  LET p == data[s]
  IN  /\ p \notin Used
      /\ Used' = Used \cup {p} /\ callback' = callback \ {p}
      /\ ReadStop(s)
      /\ EndStage(p, how)
      /\ UNCHANGED <<requested, stopQueued, resent, data, life>>

Polled(s, kind) == Idle /\ s \in reading /\ op(data[s]) = kind

(* Data and the end of the stream are values. *)
ReadSomeCallback(s) ==
  /\ Polled(s, "read_some")
  /\ \E how \in {"value", "error"} : CompleteRead(s, how)

(* Until the condition holds the read goes on, and nothing here changes. *)
ReadUntilCallback(s) ==
  /\ Polled(s, "read_until")
  /\ \E nrd \in {"data", "eof", "error"}, Condition \in BOOLEAN :
       /\ nrd = "data" => Condition
       /\ CompleteRead(s, IF nrd = "error" THEN "error" ELSE "value")

ReceiveCallback(s) ==
  /\ Polled(s, "receive")
  /\ \E how \in {"value", "error"} : CompleteRead(s, how)

(* CopyAddress refuses a sender whose address is of another family. *)
CopyAddress(family, endpoint) == IF family = endpoint THEN "value" ELSE "error"

ReceiveFromCallback(s) ==
  /\ Polled(s, "receive_from")
  /\ \/ CompleteRead(s, "error")
     \/ \E family \in {"in", "in6"} : CompleteRead(s, CopyAddress(family, "in"))

-----------------------------------------------------------------------------
(* Requests: libuv refuses one, or calls it back later, with an error when *)
(* the socket has been closed in the meantime.                             *)

StartRequest(p) ==
  /\ \/ life[sock(p)] = "open" /\ Pend(p)
     \/ EndStage(p, "error")
  /\ UNCHANGED <<stopVars, resent, sockVars>>

IsEmpty(p) == p \in EmptySends /\ pos[p] = Len(Ops(p))

Write(p) == At(p, "running", {"write"}) /\ StartRequest(p)
Send(p) == At(p, "running", {"send"}) /\ ~IsEmpty(p) /\ StartRequest(p)
SendTo(p) == At(p, "running", {"send_to"}) /\ StartRequest(p)
Shutdown(p) == At(p, "running", {"shutdown"}) /\ StartRequest(p)

(* A datagram socket is connected at once. *)
ConnectSocket(p) ==
  /\ At(p, "running", {"connect"})
  /\ IF Kind[sock(p)] = "udp"
     THEN /\ \E how \in {"value", "error"} : EndStage(p, how)
          /\ UNCHANGED <<stopVars, resent, sockVars>>
     ELSE StartRequest(p)

(***************************************************************************)
(* An empty buffer completes the send, and the request is made all the     *)
(* same: its error, at once, or its callback completes the send again.     *)
(* This is modelled for the last stage of a chain; an earlier one would    *)
(* start the next stage twice.                                             *)
(***************************************************************************)
SendEmpty(p) ==
  /\ At(p, "running", {"send"}) /\ IsEmpty(p)
  /\ EndStage(p, "value")
  /\ resent' = resent \cup {p}
  /\ UNCHANGED <<stopVars, sockVars>>

SendEmptyAgain(p) ==
  /\ p \in resent /\ Idle
  /\ resent' = resent \ {p}
  /\ completions' = [completions EXCEPT ![p] = @ + 1]
  /\ UNCHANGED <<state, pos, stopVars, result, sockVars>>

CompleteRequest(p) ==
  /\ Idle
  /\ \E how \in {"value", "error"} :
       /\ life[sock(p)] # "open" => how = "error"
       /\ EndStage(p, how)
  /\ UNCHANGED <<stopVars, resent, sockVars>>

(* Bug: a write that was cancelled is not completed. *)
IgnoreCancelledWrite(p) ==
  At(p, "pending", {"write"}) /\ life[sock(p)] = "open" /\ CompleteRequest(p)

WriteCallback(p) == At(p, "pending", {"write"}) /\ CompleteRequest(p)
SendCallback(p) == At(p, "pending", {"send"}) /\ CompleteRequest(p)
SendToCallback(p) == At(p, "pending", {"send_to"}) /\ CompleteRequest(p)
ConnectCallback(p) == At(p, "pending", {"connect"}) /\ CompleteRequest(p)
ShutdownCallback(p) == At(p, "pending", {"shutdown"}) /\ CompleteRequest(p)

RequestCallback(p) ==
  \/ WriteCallback(p) \/ SendCallback(p) \/ SendToCallback(p)
  \/ ConnectCallback(p) \/ ShutdownCallback(p)

-----------------------------------------------------------------------------
(* close takes over the data pointer; uv_close ends the polling, and a     *)
(* read of the socket hears nothing of it.                                 *)

Close(p) ==
  /\ At(p, "running", {"close"})
  /\ life[sock(p)] = "open"
  /\ data' = [data EXCEPT ![sock(p)] = p]
  /\ life' = [life EXCEPT ![sock(p)] = "closing"]
  /\ ReadStop(sock(p))
  /\ Pend(p)
  /\ UNCHANGED <<stopVars, resent>>

(* The requests of a closing handle are called back before the close. *)
CloseCallback(s) ==
  /\ Idle
  /\ life[s] = "closing"
  /\ \A p \in Pipelines : At(p, "pending", Requests) => sock(p) # s
  /\ life' = [life EXCEPT ![s] = "closed"]
  /\ EndStage(data[s], "value")
  /\ UNCHANGED <<stopVars, resent, data, reading>>

-----------------------------------------------------------------------------
(* Timers, signals and accepts.                                            *)

StartEvent(p) ==
  /\ At(p, "running", Events)
  /\ \/ Pend(p) /\ Setup(p)
     \/ EndStage(p, "error") /\ UNCHANGED <<callback, Used, stopQueued>>
  /\ UNCHANGED <<requested, resent, sockVars>>

EventCallback(p) ==
  /\ Idle
  /\ At(p, "pending", Events)
  /\ p \notin Used
  /\ Used' = Used \cup {p} /\ callback' = callback \ {p}
  /\ \E how \in {"value", "error"} : EndStage(p, how)
  /\ UNCHANGED <<requested, stopQueued, resent, sockVars>>

-----------------------------------------------------------------------------
(* Bug: a stop callback that was taken is lost. *)
RequestStopLost(p) ==
  /\ p \in Stoppable \ requested
  /\ requested' = requested \cup {p}
  /\ callback' = callback \ {p}
  /\ UNCHANGED <<state, pos, Used, stopQueued, resent, doneVars, sockVars>>

RequestStop(p) ==
  /\ p \in Stoppable \ requested
  /\ requested' = requested \cup {p}
  /\ callback' = callback \ {p}
  /\ IF p \in callback
     THEN Used' = Used \cup {p} /\ stopQueued' = stopQueued \cup {p}
     ELSE UNCHANGED <<Used, stopQueued>>
  /\ UNCHANGED <<state, pos, resent, doneVars, sockVars>>

(* StopCallback of the reads and receives, and of the events. *)
ApplyStop(p) ==
  /\ Idle
  /\ p \in stopQueued
  /\ stopQueued' = stopQueued \ {p}
  /\ IF op(p) \in Reads THEN ReadStop(sock(p)) ELSE UNCHANGED reading
  /\ EndStage(p, "stopped")
  /\ UNCHANGED <<requested, callback, Used, resent, data, life>>

-----------------------------------------------------------------------------
SetValue(p) ==
  \/ ReadSome(p) \/ ReadUntil(p) \/ Receive(p) \/ ReceiveFrom(p)
  \/ Write(p) \/ Send(p) \/ SendEmpty(p) \/ SendTo(p) \/ ConnectSocket(p) \/ Shutdown(p)
  \/ Close(p) \/ StartEvent(p)

ReadCallback(s) ==
  \/ ReadSomeCallback(s) \/ ReadUntilCallback(s) \/ ReceiveCallback(s) \/ ReceiveFromCallback(s)

Next ==
  \/ \E p \in Pipelines :
       \/ StartScheduled(p) \/ StartJust(p) \/ ApplySchedule(p) \/ SetValue(p)
       \/ SendEmptyAgain(p) \/ RequestCallback(p) \/ EventCallback(p)
       \/ RequestStop(p) \/ ApplyStop(p)
  \/ \E s \in Sockets : ReadCallback(s) \/ CloseCallback(s)

Spec == Init /\ [][Next]_vars

(***************************************************************************)
(* The loop thread runs the code it is in, applies what is scheduled and   *)
(* finishes what is being closed.  Data may never come, and a request of   *)
(* an open socket may never end.                                           *)
(***************************************************************************)
FairSpec ==
  /\ Spec
  /\ \A p \in Pipelines :
       /\ WF_vars(SetValue(p)) /\ WF_vars(ApplySchedule(p)) /\ WF_vars(ApplyStop(p))
       /\ WF_vars(RequestCallback(p) /\ life[sock(p)] = "closing")
  /\ \A s \in Sockets : WF_vars(CloseCallback(s))

-----------------------------------------------------------------------------
(***************************************************************************)
(* Whatever libuv, the loop's list or a stop source still refers to is an  *)
(* operation that waits for just that: a callback never reaches through    *)
(* data, or through a stop that is queued, an operation state that has     *)
(* completed or that belongs to another stage.                             *)
(***************************************************************************)
CallbackFindsItsOperation ==
  /\ \A s \in reading : data[s] # NULL /\ At(data[s], "pending", Reads) /\ sock(data[s]) = s
  /\ \A s \in Sockets : life[s] = "closing" =>
       data[s] # NULL /\ At(data[s], "pending", {"close"}) /\ sock(data[s]) = s
  /\ \A p \in callback \cup stopQueued : At(p, "pending", Reads \cup Events)

(***************************************************************************)
(* A chain completes its receiver once, whichever of data, error, close    *)
(* and stop comes first at each of its stages.  (A send of an empty        *)
(* datagram completes twice.)                                              *)
(***************************************************************************)
CompletesOnce ==
  \A p \in Pipelines \ EmptySends : completions[p] = IF state[p] = "done" THEN 1 ELSE 0

(***************************************************************************)
(* A chain delivers only what the signatures of its senders, composed      *)
(* along the chain, declare: errors and stops of every stage, and the      *)
(* value of the last.  Stops and values are declared before the chain is   *)
(* connected too, when the packages of a chain that starts with just do    *)
(* not yet know the loop.                                                  *)
(***************************************************************************)
DeclaredCompletion ==
  \A p \in Pipelines :
    LET last == Ops(p)[Len(Ops(p))].op
        value == IF last \in Reads THEN {"size"} ELSE {"void"}
    IN  /\ result[p] = "error" => "error" \in Declared(p)
        /\ result[p] = "stopped" => "stopped" \in Declared(p) \cap Packaged[p]
        /\ result[p] = "value" => \A sigs \in {Declared(p), Packaged[p]} :
                                    sigs \cap {"void", "size"} = value

(***************************************************************************)
(* A chain that was asked to stop ends, or waits for a request of libuv,   *)
(* which cannot be stopped: whatever stage the stop finds it at, it does   *)
(* not wait for data, a connection, a timer or a signal any more.          *)
(***************************************************************************)
StopEndsWait ==
  \A p \in Pipelines :
    p \in requested /\ state[p] # "new" ~> state[p] = "done" \/ At(p, "pending", Requests)

(***************************************************************************)
(* A close completes, and so does every request that any chain has on the  *)
(* socket.                                                                 *)
(***************************************************************************)
CloseEnds ==
  \A s \in Sockets, p \in Pipelines :
    life[s] = "closing" /\ At(p, "pending", Requests \cup {"close"}) /\ sock(p) = s
      ~> state[p] # "pending" \/ sock(p) # s
=============================================================================
