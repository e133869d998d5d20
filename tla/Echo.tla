-------------------------------- MODULE Echo --------------------------------
(***************************************************************************)
(* The echo server and client of examples/echo_uvexec.cpp, as tcp_bench    *)
(* runs them: each on its own loop, the client opening Connections         *)
(* connections of which InitConn at once, the server being stopped after   *)
(* the client has returned.  Accepts, connections and sends live in async  *)
(* scopes; what a scope owns is deleted when its join says that the scope  *)
(* is empty.                                                               *)
(*                                                                         *)
(* SocketScope has the detail of bind_to, accept_from and connect_to.      *)
(* Bytes are counted, not told apart.                                      *)
(***************************************************************************)
EXTENDS Integers

CONSTANTS
  Connections, InitConn,  \* the arguments of UvExecEchoClient
  Payload,                \* the size of the data
  Faults                  \* calls that may fail

ASSUME EchoAssumption ==
  /\ Connections \in Nat /\ InitConn \in 1..Connections
  /\ Payload \in Nat \ {0}
  /\ Faults \subseteq {"connect", "send", "receive", "accept", "read", "write"}

(* One more than the client should open. *)
Conns == 1..(Connections + 1)

VARIABLES
  (* EchoClient *)
  client,           \* "new", "running", "returned"
  ConnectionLimit,
  spawned,          \* connections opened so far, numbered from 1
  total,            \* TotalBytesReceived
  conn,             \* process_connection: "none", "connecting", "open", "closing", "done"
  sending,          \* "none", "pending", "done", "failed"
  receiving,        \* connections with a receive in their scope
  DataLeft,
  (* EchoServer *)
  server,           \* run: "accepting" first, "joining", "closing" the listener, "returned"
  accept,           \* the accept that waits for a connection: "waiting", "closing", "none"
  first,            \* the connection of the first accept, 0 before there is one
  peer,             \* accept_connection's body: "none", "open", "draining", "closing", "done"
  sends,            \* the bytes in the sends of the connection's scope
  stop,             \* UvExecEchoServerStop was called
  (* the network *)
  toServer, toClient, \* bytes on their way
  failed            \* the faults that have happened

clientVars == <<client, ConnectionLimit, spawned, total, conn, sending, receiving, DataLeft>>
serverVars == <<server, accept, first, peer, sends, stop>>
netVars == <<toServer, toClient>>
vars == <<clientVars, serverVars, netVars, failed>>

(* The type invariant: no more connections than were asked for, and no more data than was sent. *)
TypeOK ==
  /\ client \in {"new", "running", "returned"}
  /\ ConnectionLimit \in Int
  /\ spawned \in 0..Connections
  /\ total \in Nat
  /\ conn \in [Conns -> {"none", "connecting", "open", "closing", "done"}]
  /\ sending \in [Conns -> {"none", "pending", "done", "failed"}]
  /\ receiving \subseteq Conns
  /\ DataLeft \in [Conns -> 0..Payload]
  /\ server \in {"accepting", "joining", "closing", "returned"}
  /\ accept \in {"waiting", "closing", "none"}
  /\ first \in 0..Connections
  /\ peer \in [Conns -> {"none", "open", "draining", "closing", "done"}]
  /\ sends \in [Conns -> 0..Payload]
  /\ stop \in BOOLEAN
  /\ toServer \in [Conns -> 0..Payload] /\ toClient \in [Conns -> 0..Payload]
  /\ failed \subseteq Faults

Init ==
  /\ client = "new"
  /\ ConnectionLimit = (Connections - InitConn) + 1
  /\ spawned = 0 /\ total = 0
  /\ conn = [c \in Conns |-> "none"]
  /\ sending = [c \in Conns |-> "none"]
  /\ receiving = {}
  /\ DataLeft = [c \in Conns |-> Payload]
  /\ server = "accepting" /\ accept = "waiting" /\ first = 0
  /\ peer = [c \in Conns |-> "none"]
  /\ sends = [c \in Conns |-> 0]
  /\ stop = FALSE
  /\ toServer = [c \in Conns |-> 0] /\ toClient = [c \in Conns |-> 0]
  /\ failed = {}

Fails(call) == call \in Faults /\ failed' = failed \cup {call}

-----------------------------------------------------------------------------
(* The client.                                                             *)

(* UvExecEchoClient spawns the first connections and joins the client's scope. *)
StartClient ==
  /\ client = "new"
  /\ client' = "running"
  /\ spawned' = InitConn
  /\ conn' = [c \in Conns |-> IF c <= InitConn THEN "connecting" ELSE "none"]
  /\ UNCHANGED <<ConnectionLimit, total, sending, receiving, DataLeft, serverVars, netVars, failed>>

(* connect_to runs the body: the connection receives, and sends all its data. *)
ConnectionOpens(c) ==
  /\ conn[c] = "connecting"
  /\ conn' = [conn EXCEPT ![c] = "open"]
  /\ receiving' = receiving \cup {c}
  /\ sending' = [sending EXCEPT ![c] = "pending"]
  /\ toServer' = [toServer EXCEPT ![c] = Payload]
  /\ UNCHANGED <<client, ConnectionLimit, spawned, total, DataLeft, serverVars, toClient, failed>>

ConnectFails(c) ==
  /\ conn[c] = "connecting"
  /\ Fails("connect")
  /\ conn' = [conn EXCEPT ![c] = "closing"]
  /\ UNCHANGED <<client, ConnectionLimit, spawned, total, sending, receiving, DataLeft, serverVars, netVars>>

(* The body of the connection: the send, then the join of its scope, then the delete. *)
Sent(c) ==
  /\ conn[c] = "open" /\ sending[c] = "pending"
  /\ sending' = [sending EXCEPT ![c] = "done"]
  /\ conn' = [conn EXCEPT ![c] = IF c \in receiving THEN "open" ELSE "closing"]
  /\ UNCHANGED <<client, ConnectionLimit, spawned, total, receiving, DataLeft, serverVars, netVars, failed>>

(* The error is printed and the connection deleted, without the join; part of the data is lost. *)
SendFails(c) ==
  /\ conn[c] = "open" /\ sending[c] = "pending"
  /\ Fails("send")
  /\ sending' = [sending EXCEPT ![c] = "failed"]
  /\ conn' = [conn EXCEPT ![c] = "closing"]
  /\ \E n \in 0..toServer[c] : toServer' = [toServer EXCEPT ![c] = n]
  /\ UNCHANGED <<client, ConnectionLimit, spawned, total, receiving, DataLeft, serverVars, toClient>>

(* Bug: one connection too many. *)
SpawnOneMore(c) ==
  IF DataLeft[c] = Payload
  THEN /\ ConnectionLimit' = IF ConnectionLimit = 0 THEN 0 ELSE ConnectionLimit - 1
       /\ spawned' = IF ConnectionLimit > 0 THEN spawned + 1 ELSE spawned
  ELSE UNCHANGED <<ConnectionLimit, spawned>>

(* Bug: one connection too few. *)
SpawnOneLess(c) ==
  IF DataLeft[c] = Payload
  THEN /\ ConnectionLimit' = ConnectionLimit - 1
       /\ spawned' = IF ConnectionLimit' > 1 THEN spawned + 1 ELSE spawned
  ELSE UNCHANGED <<ConnectionLimit, spawned>>

(* The first receive of a connection opens another one while there are some left. *)
SpawnNext(c) ==
  IF DataLeft[c] = Payload
  THEN /\ ConnectionLimit' = ConnectionLimit - 1
       /\ spawned' = IF ConnectionLimit' > 0 THEN spawned + 1 ELSE spawned
  ELSE UNCHANGED <<ConnectionLimit, spawned>>

(* The scope of the connection is empty and its body is at the join. *)
Joins(c, again) == ~again /\ sending[c] = "done"

(* Bug: it receives until the server closes. *)
AgainUntilEof(c, rd) == rd > 0

Again(c, rd) == rd > 0 /\ rd < DataLeft[c]

(***************************************************************************)
(* receive_data: rd bytes, or 0 when the server has closed the connection; *)
(* it receives again until it has all its data.                            *)
(***************************************************************************)
ReceiveData(c, rd) ==
  LET again == Again(c, rd)
  IN  /\ conn[c] = "open" /\ c \in receiving
      /\ rd <= toClient[c] /\ (rd = 0 => toClient[c] = 0 /\ peer[c] \in {"closing", "done"})
      /\ SpawnNext(c)
      /\ DataLeft' = [DataLeft EXCEPT ![c] = @ - rd]
      /\ total' = total + rd
      /\ toClient' = [toClient EXCEPT ![c] = @ - rd]
      /\ receiving' = IF again THEN receiving ELSE receiving \ {c}
      /\ conn' = [d \in Conns |->
                    CASE d = c /\ Joins(c, again) -> "closing"
                      [] d = spawned' /\ spawned' # spawned -> "connecting"
                      [] OTHER -> conn[d]]
      /\ UNCHANGED <<client, sending, serverVars, toServer, failed>>

ReceiveFails(c) ==
  /\ conn[c] = "open" /\ c \in receiving
  /\ Fails("receive")
  /\ receiving' = receiving \ {c}
  /\ conn' = [conn EXCEPT ![c] = IF Joins(c, FALSE) THEN "closing" ELSE "open"]
  /\ UNCHANGED <<client, ConnectionLimit, spawned, total, sending, DataLeft, serverVars, netVars>>

(* connect_to completes; the client returns when its scope is empty. *)
ConnectionClosed(c) ==
  /\ conn[c] = "closing"
  /\ conn' = [conn EXCEPT ![c] = "done"]
  /\ client' = IF \A d \in Conns : conn'[d] \in {"none", "done"} THEN "returned" ELSE client
  /\ UNCHANGED <<ConnectionLimit, spawned, total, sending, receiving, DataLeft, serverVars, netVars, failed>>

-----------------------------------------------------------------------------
(* The server.                                                             *)

(* accept_connection: the next accept is spawned before the connection is processed. *)
Accept(c) ==
  /\ accept = "waiting"
  /\ sending[c] # "none" /\ peer[c] = "none"
  /\ peer' = [peer EXCEPT ![c] = "open"]
  /\ first' = IF first = 0 THEN c ELSE first
  /\ UNCHANGED <<clientVars, server, accept, sends, stop, netVars, failed>>

(* accept_from closes its socket when the accept fails or is stopped. *)
AcceptFails ==
  /\ accept = "waiting" /\ Fails("accept")
  /\ accept' = "closing"
  /\ UNCHANGED <<clientVars, server, first, peer, sends, stop, netVars>>

AcceptStopped ==
  /\ accept = "waiting" /\ stop
  /\ accept' = "closing"
  /\ UNCHANGED <<clientVars, server, first, peer, sends, stop, netVars, failed>>

(***************************************************************************)
(* run: the first accept is nested in the scope.  When it is over, so is   *)
(* run if it was not a connection; otherwise run joins the scope.  Then    *)
(* bind_to closes the listener.                                            *)
(***************************************************************************)
Run(acc, peers) ==
  LET empty == acc = "none" /\ \A c \in Conns : peers[c] \in {"none", "done"}
      over == IF first = 0 THEN acc = "none" ELSE peers[first] = "done"
  IN  CASE server = "accepting" /\ over -> IF empty THEN "closing" ELSE "joining"
        [] server = "joining" /\ empty -> "closing"
        [] OTHER -> server

AcceptClosed ==
  /\ accept = "closing"
  /\ accept' = "none"
  /\ server' = Run("none", peer)
  /\ UNCHANGED <<clientVars, first, peer, sends, stop, netVars, failed>>

(* process_connection: what is read is sent back by a send of its own. *)
ReadChunk(c, n) ==
  /\ peer[c] = "open" /\ n \in 1..toServer[c]
  /\ toServer' = [toServer EXCEPT ![c] = @ - n]
  /\ sends' = [sends EXCEPT ![c] = @ + n]
  /\ UNCHANGED <<clientVars, server, accept, first, peer, stop, toClient, failed>>

(* Bug: the connection is deleted when reading ends, without the join. *)
DeleteAtEof(c, left) == "closing"

(* on_empty of the connection's scope, then the delete and the close. *)
AfterRead(c, left) == IF left = 0 THEN "closing" ELSE "draining"

(* The end of the stream, when the client has closed; an error ends the reading as well. *)
ReadEnds(c) ==
  /\ peer[c] = "open"
  /\ toServer[c] = 0 /\ conn[c] \in {"closing", "done"}
  /\ peer' = [peer EXCEPT ![c] = AfterRead(c, sends[c])]
  /\ UNCHANGED <<clientVars, server, accept, first, sends, stop, netVars, failed>>

ReadFails(c) ==
  /\ peer[c] = "open"
  /\ Fails("read")
  /\ peer' = [peer EXCEPT ![c] = AfterRead(c, sends[c])]
  /\ UNCHANGED <<clientVars, server, accept, first, sends, stop, netVars>>

(* A send of the connection's scope ends; what is sent to a closed client is lost. *)
SendEnds(c, n) ==
  /\ n \in 1..sends[c]
  /\ \/ /\ toClient' = [toClient EXCEPT ![c] = IF conn[c] = "open" THEN @ + n ELSE @]
        /\ UNCHANGED failed
     \/ Fails("write") /\ UNCHANGED toClient
  /\ sends' = [sends EXCEPT ![c] = @ - n]
  /\ peer' = [peer EXCEPT ![c] = IF @ = "draining" THEN AfterRead(c, sends[c] - n) ELSE @]
  /\ UNCHANGED <<clientVars, server, accept, first, stop, toServer>>

(* accept_from completes. *)
PeerClosed(c) ==
  /\ peer[c] = "closing"
  /\ peer' = [peer EXCEPT ![c] = "done"]
  /\ server' = Run(accept, peer')
  /\ UNCHANGED <<clientVars, accept, first, sends, stop, netVars, failed>>

ListenerClosed ==
  /\ server = "closing"
  /\ server' = "returned"
  /\ UNCHANGED <<clientVars, accept, first, peer, sends, stop, netVars, failed>>

(* main: the server is stopped when the client has returned. *)
StopServer ==
  /\ client = "returned" /\ ~stop
  /\ stop' = TRUE
  /\ UNCHANGED <<clientVars, server, accept, first, peer, sends, netVars, failed>>

-----------------------------------------------------------------------------
ClientStep(c) ==
  \/ ConnectionOpens(c) \/ Sent(c) \/ ConnectionClosed(c)
  \/ \E rd \in 0..Payload : ReceiveData(c, rd)

PeerStep(c) ==
  \/ \E n \in 1..Payload : ReadChunk(c, n) \/ SendEnds(c, n)
  \/ ReadEnds(c) \/ PeerClosed(c)

ServerStep == AcceptStopped \/ AcceptClosed \/ ListenerClosed

Fault ==
  \/ AcceptFails
  \/ \E c \in Conns : ConnectFails(c) \/ SendFails(c) \/ ReceiveFails(c) \/ ReadFails(c)

Next ==
  \/ StartClient \/ StopServer \/ ServerStep \/ Fault
  \/ \E c \in Conns : ClientStep(c) \/ Accept(c) \/ PeerStep(c)

Spec == Init /\ [][Next]_vars

(* Both loops run, and the network between them delivers; nothing has to fail. *)
FairSpec ==
  /\ Spec
  /\ WF_vars(ServerStep)
  /\ \A c \in Conns : WF_vars(ClientStep(c)) /\ WF_vars(Accept(c)) /\ WF_vars(PeerStep(c))

-----------------------------------------------------------------------------
(* Every byte of an open connection that the client still waits for is somewhere. *)
DataConserved ==
  failed = {} =>
    \A c \in Conns : sending[c] # "none" => toServer[c] + sends[c] + toClient[c] = DataLeft[c]

(***************************************************************************)
(* Without a fault nothing is lost or counted twice, wherever the data is  *)
(* split, and a client that returns has opened every connection that it    *)
(* was asked to and received all it sent.                                  *)
(***************************************************************************)
EchoedExactly ==
  /\ DataConserved
  /\ failed = {} /\ client = "returned" =>
       spawned = Connections /\ total = Connections * Payload

(***************************************************************************)
(* Nothing outlives the scope that it refers to: no send the connection of *)
(* the server, no receive that of the client (unless its send failed), no  *)
(* accept or connection the listener, no connection the client.            *)
(***************************************************************************)
NothingOutlivesItsScope ==
  /\ \A c \in Conns :
       /\ sends[c] # 0 => peer[c] \in {"open", "draining"}
       /\ c \in receiving => conn[c] = "open" \/ sending[c] = "failed"
  /\ server \in {"closing", "returned"} =>
       accept = "none" /\ \A c \in Conns : peer[c] \in {"none", "done"}
  /\ client = "returned" => \A c \in Conns : conn[c] \in {"none", "done"}

(***************************************************************************)
(* The client returns unless the server failed to accept or to answer, and *)
(* the server returns once it is stopped.                                  *)
(***************************************************************************)
BothReturn ==
  /\ client = "running" ~> client = "returned" \/ failed \cap {"accept", "write"} # {}
  /\ stop ~> server = "returned"
=============================================================================
