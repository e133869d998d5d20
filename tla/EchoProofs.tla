------------------------------ MODULE EchoProofs ------------------------------
(***************************************************************************)
(* The echo server and client for any number of connections, any payload   *)
(* and any faults: the type invariant, that nothing outlives the scope it  *)
(* refers to, and that without a fault no byte is lost or counted twice    *)
(* and everything that was asked for is echoed.                            *)
(***************************************************************************)
EXTENDS Echo, InductionLemmas, TLAPS

Ended == {"closing", "done"}

(* What holds of each connection, whatever fails. *)
ConnInv(c) ==
  /\ c > spawned => conn[c] = "none"
  /\ conn[c] \in {"none", "connecting"} => sending[c] = "none"
  /\ conn[c] = "open" => sending[c] \in {"pending", "done"}
  /\ sending[c] = "none" =>
       /\ c \notin receiving /\ peer[c] = "none" /\ DataLeft[c] = Payload
       /\ toServer[c] = 0 /\ sends[c] = 0 /\ toClient[c] = 0
  /\ toServer[c] + sends[c] + toClient[c] <= DataLeft[c]
  /\ sends[c] # 0 => peer[c] \in {"open", "draining"}
  /\ c \in receiving => conn[c] = "open" \/ sending[c] = "failed"

(* What holds of it as long as nothing has failed. *)
FaultFree(c) ==
  failed = {} /\ sending[c] # "none" =>
    /\ toServer[c] + sends[c] + toClient[c] = DataLeft[c]
    /\ conn[c] \in Ended => DataLeft[c] = 0
    /\ peer[c] \in {"draining"} \cup Ended => conn[c] \in Ended
    /\ conn[c] = "open" /\ c \notin receiving => DataLeft[c] = 0

(* How many connections the client has opened. *)
LimitInv ==
  /\ client = "new" =>
       /\ spawned = 0 /\ ConnectionLimit = Connections - InitConn + 1
       /\ \A c \in Conns : conn[c] = "none"
  /\ client # "new" => spawned = IF ConnectionLimit >= 1 THEN Connections + 1 - ConnectionLimit ELSE Connections

ScopesInv ==
  /\ server \in {"closing", "returned"} =>
       accept = "none" /\ \A c \in Conns : peer[c] \in {"none", "done"}
  /\ client = "returned" => \A c \in Conns : conn[c] \in {"none", "done"}

IInv ==
  /\ TypeOK /\ LimitInv /\ ScopesInv
  /\ \A c \in Conns : ConnInv(c) /\ FaultFree(c)

-----------------------------------------------------------------------------
(* The numbers of a connection. *)
LEMMA Numbers ==
  ASSUME TypeOK, NEW d \in Conns
  PROVE  /\ d \in Nat /\ spawned \in Nat /\ Payload \in Nat /\ Payload > 0
         /\ DataLeft[d] \in Nat /\ DataLeft[d] <= Payload
         /\ toServer[d] \in Nat /\ sends[d] \in Nat /\ toClient[d] \in Nat
BY EchoAssumption DEF TypeOK, Conns

(* A step of the client, seen from each connection. *)
LEMMA ClientKeeps ==
  ASSUME IInv, NEW c \in Conns,
         \/ ConnectionOpens(c) \/ ConnectFails(c) \/ Sent(c) \/ SendFails(c)
         \/ ReceiveFails(c) \/ ConnectionClosed(c)
  PROVE  IInv'
<1> USE EchoAssumption DEF IInv
<1>1. CASE ConnectionOpens(c)
  <2> USE <1>1 DEF ConnectionOpens, serverVars
  <2>1. TypeOK'
    BY DEF TypeOK
  <2>2. LimitInv' /\ ScopesInv'
    BY DEF TypeOK, LimitInv, ScopesInv
  <2>3. ConnInv(c)' /\ FaultFree(c)'
    <3>1. /\ conn'[c] = "open" /\ sending'[c] = "pending" /\ toServer'[c] = Payload
          /\ c \in receiving' /\ sending[c] = "none" /\ ~(c > spawned)
      BY DEF TypeOK, ConnInv
    <3>2. sends'[c] = 0 /\ toClient'[c] = 0 /\ DataLeft'[c] = Payload /\ peer'[c] = "none"
      BY <3>1 DEF ConnInv
    <3>3. QED
      BY <3>1, <3>2, Numbers DEF ConnInv, FaultFree, Ended
  <2>4. ASSUME NEW d \in Conns \ {c} PROVE ConnInv(d)' /\ FaultFree(d)'
    <3>1. /\ conn'[d] = conn[d] /\ sending'[d] = sending[d] /\ toServer'[d] = toServer[d]
          /\ d \in receiving' <=> d \in receiving
      BY DEF TypeOK
    <3>2. QED
      BY <3>1 DEF ConnInv, FaultFree
  <2>5. QED
    BY <2>1, <2>2, <2>3, <2>4
<1>2. CASE ConnectFails(c)
  <2> USE <1>2 DEF ConnectFails, Fails, serverVars, netVars
  <2>1. TypeOK'
    BY DEF TypeOK
  <2>2. LimitInv' /\ ScopesInv'
    BY DEF TypeOK, LimitInv, ScopesInv
  <2>3. ASSUME NEW d \in Conns PROVE ConnInv(d)' /\ FaultFree(d)'
    BY DEF TypeOK, Conns, ConnInv, FaultFree, Ended
  <2>4. QED
    BY <2>1, <2>2, <2>3
<1>3. CASE Sent(c)
  <2> USE <1>3 DEF Sent, serverVars, netVars
  <2>1. TypeOK'
    BY DEF TypeOK
  <2>2. LimitInv' /\ ScopesInv'
    BY DEF TypeOK, LimitInv, ScopesInv
  <2>3. ASSUME NEW d \in Conns PROVE ConnInv(d)' /\ FaultFree(d)'
    BY DEF TypeOK, Conns, ConnInv, FaultFree, Ended
  <2>4. QED
    BY <2>1, <2>2, <2>3
<1>4. CASE SendFails(c)
  <2> USE <1>4 DEF SendFails, Fails, serverVars, netVars
  <2>0. PICK n \in 0..toServer[c] : toServer' = [toServer EXCEPT ![c] = n]
    OBVIOUS
  <2>1. TypeOK'
    BY <2>0, Numbers DEF TypeOK
  <2>2. LimitInv' /\ ScopesInv'
    BY DEF TypeOK, LimitInv, ScopesInv
  <2>3. ASSUME NEW d \in Conns PROVE ConnInv(d)' /\ FaultFree(d)'
    <3>1. CASE d = c
      <4>1. toServer'[c] = n /\ n \in Nat /\ n <= toServer[c]
        BY <2>0, Numbers DEF TypeOK
      <4>2. ConnInv(c)'
        BY <4>1, Numbers DEF TypeOK, ConnInv
      <4>3. FaultFree(c)'
        BY DEF TypeOK, FaultFree
      <4>4. QED
        BY <3>1, <4>2, <4>3
    <3>2. CASE d # c
      <4>1. ConnInv(d)'
        BY <2>0, <3>2 DEF TypeOK, ConnInv
      <4>2. FaultFree(d)'
        BY DEF TypeOK, FaultFree
      <4>3. QED
        BY <4>1, <4>2
    <3>3. QED
      BY <3>1, <3>2
  <2>4. QED
    BY <2>1, <2>2, <2>3
<1>5. CASE ReceiveFails(c)
  <2> USE <1>5 DEF ReceiveFails, Fails, Joins, serverVars, netVars
  <2>1. TypeOK'
    BY DEF TypeOK
  <2>2. LimitInv' /\ ScopesInv'
    BY DEF TypeOK, LimitInv, ScopesInv
  <2>3. ASSUME NEW d \in Conns PROVE ConnInv(d)' /\ FaultFree(d)'
    BY DEF TypeOK, Conns, ConnInv, FaultFree, Ended
  <2>4. QED
    BY <2>1, <2>2, <2>3
<1>6. CASE ConnectionClosed(c)
  <2> USE <1>6 DEF ConnectionClosed, serverVars, netVars
  <2>1. TypeOK'
    BY DEF TypeOK
  <2>2. LimitInv' /\ ScopesInv'
    BY DEF TypeOK, LimitInv, ScopesInv
  <2>3. ASSUME NEW d \in Conns PROVE ConnInv(d)' /\ FaultFree(d)'
    BY DEF TypeOK, Conns, ConnInv, FaultFree, Ended
  <2>4. QED
    BY <2>1, <2>2, <2>3
<1>7. QED
  BY <1>1, <1>2, <1>3, <1>4, <1>5, <1>6

(* The first connections. *)
LEMMA StartKeeps ==
  ASSUME IInv, StartClient
  PROVE  IInv'
<1> USE EchoAssumption DEF IInv, StartClient, serverVars, netVars
<1>1. TypeOK'
  BY DEF TypeOK
<1>2. LimitInv' /\ ScopesInv'
  BY DEF TypeOK, LimitInv, ScopesInv
<1>3. ASSUME NEW d \in Conns PROVE ConnInv(d)' /\ FaultFree(d)'
  <2>1. conn[d] = "none" /\ sending[d] = "none"
    BY DEF LimitInv, ConnInv
  <2>2. conn'[d] \in {"none", "connecting"} /\ (d > spawned' => conn'[d] = "none")
    BY Numbers
  <2>3. QED
    BY <2>1, <2>2 DEF ConnInv, FaultFree
<1>4. QED
  BY <1>1, <1>2, <1>3

(***************************************************************************)
(* receive_data: the next connection takes a number that was free, and a   *)
(* connection that stops receiving has all its data or met a fault.        *)
(***************************************************************************)
LEMMA ReceiveKeeps ==
  ASSUME IInv, NEW c \in Conns, NEW rd \in 0..Payload, ReceiveData(c, rd)
  PROVE  IInv'
<1> USE EchoAssumption DEF IInv
<1> DEFINE again == Again(c, rd)
<1>1. /\ conn[c] = "open" /\ c \in receiving /\ rd <= toClient[c]
      /\ rd = 0 => toClient[c] = 0 /\ peer[c] \in Ended
      /\ DataLeft' = [DataLeft EXCEPT ![c] = @ - rd]
      /\ total' = total + rd
      /\ toClient' = [toClient EXCEPT ![c] = @ - rd]
      /\ receiving' = IF again THEN receiving ELSE receiving \ {c}
      /\ conn' = [d \in Conns |->
                    CASE d = c /\ Joins(c, again) -> "closing"
                      [] d = spawned' /\ spawned' # spawned -> "connecting"
                      [] OTHER -> conn[d]]
      /\ client' = client /\ sending' = sending /\ toServer' = toServer /\ failed' = failed
      /\ server' = server /\ accept' = accept /\ first' = first /\ peer' = peer /\ sends' = sends
      /\ stop' = stop
  BY DEF ReceiveData, serverVars, Ended
<1>2. /\ ConnectionLimit' \in Int
      /\ spawned' \in {spawned, spawned + 1}
      /\ spawned' \in 0..Connections
      /\ spawned' = IF ConnectionLimit' >= 1 THEN Connections + 1 - ConnectionLimit' ELSE Connections
      /\ client = "running"
  <2>1. SpawnNext(c)
    BY DEF ReceiveData
  <2>2. client = "running" /\ spawned \in Nat /\ ConnectionLimit \in Int
    BY <1>1 DEF TypeOK, LimitInv, ScopesInv
  <2>3. QED
    BY <2>1, <2>2 DEF SpawnNext, LimitInv, TypeOK
<1>n. /\ spawned \in Nat /\ \A d \in Conns : d \in Nat
      /\ spawned' = spawned \/ spawned' = spawned + 1
  BY <1>2, Numbers
<1>3. /\ conn'[c] = IF Joins(c, again) THEN "closing" ELSE "open"
      /\ \A d \in Conns \ {c} :
           conn'[d] = IF d = spawned' /\ spawned' # spawned THEN "connecting" ELSE conn[d]
      /\ c <= spawned
  <2>1. c <= spawned
    BY <1>1 DEF ConnInv, TypeOK, Conns
  <2>2. ~(c = spawned' /\ spawned' # spawned)
    BY <1>n, <2>1
  <2>3. QED
    BY <1>1, <2>1, <2>2
<1>4. TypeOK'
  <2>1. DataLeft' \in [Conns -> 0..Payload] /\ toClient' \in [Conns -> 0..Payload]
    BY <1>1 DEF TypeOK, ConnInv
  <2>2. conn' \in [Conns -> {"none", "connecting", "open", "closing", "done"}]
    BY <1>1, <1>3 DEF TypeOK
  <2>3. QED
    BY <1>1, <1>2, <2>1, <2>2 DEF TypeOK
<1>5. LimitInv' /\ ScopesInv'
  BY <1>1, <1>2 DEF LimitInv, ScopesInv
<1>6. ConnInv(c)' /\ FaultFree(c)'
  <2>1. /\ DataLeft'[c] = DataLeft[c] - rd /\ toClient'[c] = toClient[c] - rd
        /\ toServer[c] \in Nat /\ sends[c] \in Nat /\ toClient[c] \in Nat /\ DataLeft[c] \in Nat
        /\ c \in receiving' <=> again
    BY <1>1 DEF TypeOK
  <2>2. again <=> rd > 0 /\ rd < DataLeft[c]
    BY DEF Again
  <2>3. ConnInv(c)'
    <3>1. ~(c > spawned')
      BY <1>n, <1>3
    <3>2. toServer'[c] + sends'[c] + toClient'[c] <= DataLeft'[c]
      BY <1>1, <2>1 DEF ConnInv
    <3>3. conn'[c] \in {"open", "closing"} /\ (c \in receiving' => conn'[c] = "open")
      BY <1>3, <2>1 DEF Joins
    <3>4. sending'[c] \in {"pending", "done"} /\ (sends'[c] # 0 => peer'[c] \in {"open", "draining"})
      BY <1>1 DEF ConnInv
    <3>5. QED
      BY <3>1, <3>2, <3>3, <3>4 DEF ConnInv
  <2>4. FaultFree(c)'
    <3>1. SUFFICES ASSUME failed = {} PROVE FaultFree(c)'
      BY <1>1 DEF FaultFree
    <3>2. rd > 0
      <4>1. peer[c] \notin Ended
        BY <1>1, <3>1 DEF FaultFree, ConnInv, Ended
      <4>2. QED
        BY <1>1, <4>1
    <3>3. ~again => DataLeft'[c] = 0
      BY <1>1, <2>1, <2>2, <3>1, <3>2 DEF FaultFree, ConnInv
    <3>4. QED
      BY <1>1, <1>3, <2>1, <3>1, <3>3 DEF FaultFree, ConnInv, Joins, Ended
  <2>5. QED
    BY <2>3, <2>4
<1>7. ASSUME NEW d \in Conns \ {c} PROVE ConnInv(d)' /\ FaultFree(d)'
  <2>1. /\ DataLeft'[d] = DataLeft[d] /\ toClient'[d] = toClient[d]
        /\ d \in receiving' <=> d \in receiving
    BY <1>1, <1>7 DEF TypeOK
  <2>2. d = spawned' /\ spawned' # spawned => conn[d] = "none"
    <3>1. d = spawned' /\ spawned' # spawned => d > spawned
      BY <1>n
    <3>2. QED
      BY <3>1 DEF ConnInv
  <2>3. CASE d = spawned' /\ spawned' # spawned
    <3>1. conn'[d] = "connecting" /\ sending'[d] = "none" /\ ~(d > spawned')
      BY <1>1, <1>n, <1>3, <2>2, <2>3 DEF ConnInv
    <3>2. QED
      BY <1>1, <2>1, <3>1 DEF ConnInv, FaultFree
  <2>4. CASE ~(d = spawned' /\ spawned' # spawned)
    <3>1. conn'[d] = conn[d] /\ (d > spawned' => d > spawned)
      BY <1>n, <1>3, <2>4
    <3>2. QED
      BY <1>1, <2>1, <3>1 DEF ConnInv, FaultFree
  <2>5. QED
    BY <2>3, <2>4
<1>8. QED
  BY <1>4, <1>5, <1>6, <1>7

(* A step of the server, seen from each connection. *)
LEMMA PeerKeeps ==
  ASSUME IInv, NEW c \in Conns, Accept(c) \/ ReadEnds(c) \/ ReadFails(c) \/ PeerClosed(c)
  PROVE  IInv'
<1> USE EchoAssumption DEF IInv
<1>1. CASE Accept(c)
  <2> USE <1>1 DEF Accept, clientVars, netVars
  <2>0. c \in 1..Connections
    BY DEF TypeOK, Conns, ConnInv
  <2>1. TypeOK'
    BY <2>0 DEF TypeOK
  <2>2. LimitInv' /\ ScopesInv'
    BY DEF TypeOK, LimitInv, ScopesInv
  <2>3. ASSUME NEW d \in Conns PROVE ConnInv(d)' /\ FaultFree(d)'
    BY DEF TypeOK, Conns, ConnInv, FaultFree, Ended
  <2>4. QED
    BY <2>1, <2>2, <2>3
<1>2. CASE ReadEnds(c)
  <2> USE <1>2 DEF ReadEnds, AfterRead, clientVars, netVars
  <2>1. TypeOK'
    BY DEF TypeOK
  <2>2. LimitInv' /\ ScopesInv'
    BY DEF TypeOK, LimitInv, ScopesInv
  <2>3. ASSUME NEW d \in Conns PROVE ConnInv(d)' /\ FaultFree(d)'
    BY DEF TypeOK, Conns, ConnInv, FaultFree, Ended
  <2>4. QED
    BY <2>1, <2>2, <2>3
<1>3. CASE ReadFails(c)
  <2> USE <1>3 DEF ReadFails, Fails, AfterRead, clientVars, netVars
  <2>1. TypeOK'
    BY DEF TypeOK
  <2>2. LimitInv' /\ ScopesInv'
    BY DEF TypeOK, LimitInv, ScopesInv
  <2>3. ASSUME NEW d \in Conns PROVE ConnInv(d)' /\ FaultFree(d)'
    BY DEF TypeOK, Conns, ConnInv, FaultFree, Ended
  <2>4. QED
    BY <2>1, <2>2, <2>3
<1>4. CASE PeerClosed(c)
  <2> USE <1>4 DEF PeerClosed, clientVars, netVars
  <2>1. TypeOK'
    BY DEF TypeOK, Run
  <2>2. LimitInv' /\ ScopesInv'
    BY DEF TypeOK, LimitInv, ScopesInv, Run
  <2>3. ASSUME NEW d \in Conns PROVE ConnInv(d)' /\ FaultFree(d)'
    BY DEF TypeOK, Conns, ConnInv, FaultFree, Ended
  <2>4. QED
    BY <2>1, <2>2, <2>3
<1>5. QED
  BY <1>1, <1>2, <1>3, <1>4

(* process_connection, with the bytes that it moves. *)
LEMMA BytesKeep ==
  ASSUME IInv, NEW c \in Conns, NEW n \in 1..Payload, ReadChunk(c, n) \/ SendEnds(c, n)
  PROVE  IInv'
<1> USE EchoAssumption DEF IInv
<1>1. CASE ReadChunk(c, n)
  <2> USE <1>1 DEF ReadChunk, clientVars
  <2>1. TypeOK'
    <3>1. toServer' \in [Conns -> 0..Payload] /\ sends' \in [Conns -> 0..Payload]
      BY DEF TypeOK, ConnInv
    <3>2. QED
      BY <3>1 DEF TypeOK
  <2>2. LimitInv' /\ ScopesInv'
    BY DEF TypeOK, LimitInv, ScopesInv
  <2>3. ConnInv(c)' /\ FaultFree(c)'
    <3>1. toServer'[c] = toServer[c] - n /\ sends'[c] = sends[c] + n /\ peer[c] = "open"
      BY DEF TypeOK
    <3>2. toServer'[c] + sends'[c] + toClient'[c] = toServer[c] + sends[c] + toClient[c]
      BY <3>1, Numbers
    <3>3. QED
      BY <3>1, <3>2 DEF ConnInv, FaultFree, Ended
  <2>4. ASSUME NEW d \in Conns \ {c} PROVE ConnInv(d)' /\ FaultFree(d)'
    <3>1. toServer'[d] = toServer[d] /\ sends'[d] = sends[d]
      BY DEF TypeOK
    <3>2. QED
      BY <3>1 DEF ConnInv, FaultFree
  <2>5. QED
    BY <2>1, <2>2, <2>3, <2>4
<1>2. CASE SendEnds(c, n)
  <2>1. /\ sends' = [sends EXCEPT ![c] = @ - n] /\ n \in 1..sends[c]
        /\ peer' = [peer EXCEPT ![c] = IF @ = "draining" THEN AfterRead(c, sends[c] - n) ELSE @]
        /\ toClient'[c] \in {toClient[c], toClient[c] + n}
        /\ toClient' = [toClient EXCEPT ![c] = toClient'[c]]
        /\ failed' = {} => failed = {} /\ (conn[c] = "open" => toClient'[c] = toClient[c] + n)
        /\ failed' \subseteq Faults
        /\ client' = client /\ ConnectionLimit' = ConnectionLimit /\ spawned' = spawned
        /\ total' = total /\ conn' = conn /\ sending' = sending /\ receiving' = receiving
        /\ DataLeft' = DataLeft /\ server' = server /\ accept' = accept /\ first' = first
        /\ stop' = stop /\ toServer' = toServer
    BY <1>2 DEF SendEnds, Fails, clientVars, TypeOK
  <2>2. TypeOK'
    <3>1. toClient' \in [Conns -> 0..Payload] /\ sends' \in [Conns -> 0..Payload]
      BY <2>1 DEF TypeOK, ConnInv
    <3>2. peer' \in [Conns -> {"none", "open", "draining", "closing", "done"}]
      BY <2>1 DEF TypeOK, AfterRead
    <3>3. QED
      BY <2>1, <3>1, <3>2 DEF TypeOK
  <2>3. LimitInv' /\ ScopesInv'
    BY <2>1 DEF TypeOK, LimitInv, ScopesInv, ConnInv
  <2>4. ConnInv(c)' /\ FaultFree(c)'
    <3>1. /\ sends'[c] = sends[c] - n /\ sends[c] # 0 /\ n > 0
          /\ peer[c] \in {"open", "draining"} /\ sending[c] # "none"
      BY <2>1, Numbers DEF TypeOK, ConnInv
    <3>2. peer'[c] = peer[c] \/ (sends'[c] = 0 /\ peer[c] = "draining" /\ peer'[c] = "closing")
      BY <2>1, <3>1 DEF TypeOK, AfterRead
    <3>3. /\ toServer[c] + sends'[c] + toClient'[c] <= toServer[c] + sends[c] + toClient[c]
          /\ conn[c] = "open" /\ failed' = {} =>
               toServer[c] + sends'[c] + toClient'[c] = toServer[c] + sends[c] + toClient[c]
      BY <2>1, <3>1, Numbers
    <3>4. ConnInv(c)'
      <4>1. toServer[c] + sends'[c] + toClient'[c] <= DataLeft[c]
        BY <2>1, <3>1, <3>3, Numbers DEF ConnInv
      <4>2. QED
        BY <2>1, <3>1, <3>2, <4>1 DEF ConnInv
    <3>5. FaultFree(c)'
      <4>1. SUFFICES ASSUME failed' = {} PROVE FaultFree(c)'
        BY DEF FaultFree
      <4>2. conn[c] = "open"
        <5>1. DataLeft[c] # 0
          BY <3>1, <4>1, <2>1, Numbers DEF FaultFree
        <5>2. QED
          BY <2>1, <3>1, <4>1, <5>1 DEF FaultFree, ConnInv, TypeOK, Ended
      <4>3. peer[c] = "open"
        BY <2>1, <3>1, <4>1, <4>2 DEF FaultFree, Ended
      <4>4. QED
        BY <2>1, <3>1, <3>2, <3>3, <4>1, <4>2, <4>3 DEF FaultFree, Ended
    <3>6. QED
      BY <3>4, <3>5
  <2>5. ASSUME NEW d \in Conns \ {c} PROVE ConnInv(d)' /\ FaultFree(d)'
    BY <2>1, <2>5 DEF TypeOK, Conns, ConnInv, FaultFree, Ended
  <2>6. QED
    BY <2>2, <2>3, <2>4, <2>5
<1>3. QED
  BY <1>1, <1>2

(* The accept that waits, the listener and the stop. *)
LEMMA ServerKeeps ==
  ASSUME IInv, ServerStep \/ AcceptFails \/ StopServer
  PROVE  IInv'
<1> USE EchoAssumption DEF IInv
<1>1. /\ TypeOK' /\ LimitInv' /\ ScopesInv'
      /\ UNCHANGED <<spawned, conn, sending, receiving, peer, DataLeft, netVars, sends>>
      /\ failed' = {} => failed = {}
  <2>1. CASE AcceptStopped
    BY <2>1 DEF AcceptStopped, clientVars, netVars, TypeOK, LimitInv, ScopesInv
  <2>2. CASE AcceptFails
    BY <2>2 DEF AcceptFails, Fails, clientVars, netVars, TypeOK, LimitInv, ScopesInv
  <2>3. CASE AcceptClosed
    BY <2>3 DEF AcceptClosed, Run, clientVars, netVars, TypeOK, LimitInv, ScopesInv
  <2>4. CASE ListenerClosed
    BY <2>4 DEF ListenerClosed, clientVars, netVars, TypeOK, LimitInv, ScopesInv
  <2>5. CASE StopServer
    BY <2>5 DEF StopServer, clientVars, netVars, TypeOK, LimitInv, ScopesInv
  <2>6. QED
    BY <2>1, <2>2, <2>3, <2>4, <2>5 DEF ServerStep
<1>2. ASSUME NEW d \in Conns PROVE ConnInv(d)' /\ FaultFree(d)'
  BY <1>1 DEF ConnInv, FaultFree, netVars
<1>3. QED
  BY <1>1, <1>2

-----------------------------------------------------------------------------
(* The scopes, the limit and the bytes together are inductive. *)
LEMMA EchoInvariant == Spec => []IInv
<1>1. Init => IInv
  <2> SUFFICES ASSUME Init PROVE IInv
    OBVIOUS
  <2>1. TypeOK
    <3>1. ConnectionLimit \in Int /\ 0 \in 0..Connections /\ 0 \in 0..Payload /\ Payload \in 0..Payload
      BY EchoAssumption DEF Init
    <3>2. QED
      BY <3>1 DEF Init, TypeOK
  <2>2. LimitInv /\ ScopesInv
    BY EchoAssumption DEF Init, LimitInv, ScopesInv
  <2>3. ASSUME NEW c \in Conns PROVE ConnInv(c) /\ FaultFree(c)
    BY EchoAssumption DEF Init, ConnInv, FaultFree
  <2>4. QED
    BY <2>1, <2>2, <2>3 DEF IInv
<1>2. IInv /\ [Next]_vars => IInv'
  <2> SUFFICES ASSUME IInv, [Next]_vars PROVE IInv'
    OBVIOUS
  <2>1. CASE StartClient
    BY <2>1, StartKeeps
  <2>2. CASE StopServer \/ ServerStep \/ AcceptFails
    BY <2>2, ServerKeeps
  <2>3. ASSUME NEW c \in Conns, ConnectFails(c) \/ SendFails(c) \/ ReceiveFails(c) \/ ReadFails(c)
        PROVE  IInv'
    BY <2>3, ClientKeeps, PeerKeeps
  <2>4. ASSUME NEW c \in Conns, ClientStep(c) PROVE IInv'
    BY <2>4, ClientKeeps, ReceiveKeeps DEF ClientStep
  <2>5. ASSUME NEW c \in Conns, Accept(c) \/ PeerStep(c) PROVE IInv'
    BY <2>5, PeerKeeps, BytesKeep DEF PeerStep
  <2>6. CASE UNCHANGED vars
    BY <2>6 DEF vars, clientVars, serverVars, netVars, IInv, TypeOK, LimitInv, ScopesInv, ConnInv, FaultFree
  <2>7. QED
    BY <2>1, <2>2, <2>3, <2>4, <2>5, <2>6 DEF Next, Fault
<1>3. QED
  BY <1>1, <1>2, PTL DEF Spec

(* The client never opens more connections than it was asked to, and no counter of bytes underflows. *)
THEOREM TypeCorrect == Spec => []TypeOK
<1>1. IInv => TypeOK
  BY DEF IInv
<1>2. QED
  BY <1>1, EchoInvariant, PTL

(***************************************************************************)
(* Sends, accepts and connections end before what they refer to is         *)
(* deleted, and so does the receive of a connection whose send did not     *)
(* fail.  After a failed send the connection is deleted without the join,  *)
(* and its receive may be left behind.                                     *)
(***************************************************************************)
THEOREM ScopesAreJoined == Spec => []NothingOutlivesItsScope
<1>1. IInv => NothingOutlivesItsScope
  BY DEF IInv, ConnInv, ScopesInv, NothingOutlivesItsScope
<1>2. QED
  BY <1>1, EchoInvariant, PTL

(* A send has failed only if sends may fail. *)
LEMMA OnlySendsFail ==
  Spec => [](\A c \in Conns : sending[c] = "failed" => "send" \in Faults)
<1> DEFINE P == \A c \in Conns : sending[c] = "failed" => "send" \in Faults
<1>1. Init => P
  BY DEF Init
<1>2. TypeOK /\ P /\ [Next]_vars => P'
  <2> SUFFICES ASSUME TypeOK, P, [Next]_vars PROVE P'
    OBVIOUS
  <2>1. ASSUME NEW c \in Conns, ConnectionOpens(c) \/ Sent(c) \/ SendFails(c) PROVE P'
    BY <2>1 DEF ConnectionOpens, Sent, SendFails, Fails, TypeOK
  <2>2. CASE UNCHANGED sending
    BY <2>2
  <2>3. QED
    BY <2>1, <2>2
    DEF Next, StartClient, StopServer, ServerStep, AcceptStopped, AcceptClosed, ListenerClosed, Fault,
        AcceptFails, ConnectFails, ReceiveFails, ReadFails, ClientStep, ConnectionClosed,
        ReceiveData, Accept, PeerStep, ReadChunk, SendEnds, ReadEnds, PeerClosed, vars, clientVars
<1>3. QED
  BY <1>1, <1>2, TypeCorrect, PTL DEF Spec

(***************************************************************************)
(* If no send fails there is no exception: a connection of the client is   *)
(* deleted only after its receive has ended, whichever other calls fail.   *)
(***************************************************************************)
THEOREM ReceivesAreJoined ==
  ASSUME "send" \notin Faults
  PROVE  Spec => [](\A c \in Conns : c \in receiving => conn[c] = "open")
<1>1. /\ NothingOutlivesItsScope
      /\ \A c \in Conns : sending[c] = "failed" => "send" \in Faults
      => \A c \in Conns : c \in receiving => conn[c] = "open"
  BY DEF NothingOutlivesItsScope
<1>2. QED
  BY <1>1, ScopesAreJoined, OnlySendsFail, PTL

(***************************************************************************)
(* As long as nothing fails, the bytes that a client still waits for are   *)
(* all on their way, however they are split into reads and sends.          *)
(***************************************************************************)
THEOREM NoByteIsLost == Spec => []DataConserved
<1>1. IInv => DataConserved
  BY DEF IInv, FaultFree, DataConserved
<1>2. QED
  BY <1>1, EchoInvariant, PTL

-----------------------------------------------------------------------------
(***************************************************************************)
(* Sums over the connections, told by their prefix sums: v is the sum of   *)
(* the values of f.                                                        *)
(***************************************************************************)
Prefixes(s, f) ==
  /\ s \in [0..(Connections + 1) -> Nat] /\ s[0] = 0
  /\ \A n \in Conns : s[n] = s[n - 1] + f[n]

IsSum(f, v) == \E s : Prefixes(s, f) /\ s[Connections + 1] = v

(* The sum of nothing. *)
LEMMA SumOfZeros ==
  ASSUME NEW f \in [Conns -> Nat], \A n \in Conns : f[n] = 0
  PROVE  IsSum(f, 0)
<1> DEFINE s == [n \in 0..(Connections + 1) |-> 0]
<1>1. Prefixes(s, f) /\ s[Connections + 1] = 0
  BY EchoAssumption DEF Prefixes, Conns
<1>2. QED
  BY <1>1 DEF IsSum

(* A sum grows by what one of its terms grows. *)
LEMMA SumGrows ==
  ASSUME NEW f \in [Conns -> Nat], NEW v \in Nat, IsSum(f, v), NEW c \in Conns, NEW d \in Nat,
         NEW g, \A n \in Conns : g[n] = IF n = c THEN f[n] + d ELSE f[n]
  PROVE  IsSum(g, v + d)
<1>1. PICK s : Prefixes(s, f) /\ s[Connections + 1] = v
  BY DEF IsSum
<1> DEFINE N == Connections + 1
           t == [n \in 0..N |-> IF n < c THEN s[n] ELSE s[n] + d]
<1>2. N \in Nat /\ c \in 1..N /\ s \in [0..N -> Nat] /\ s[0] = 0
  BY <1>1, EchoAssumption DEF Prefixes, Conns
<1>3. t \in [0..N -> Nat] /\ t[0] = 0
  BY <1>2
<1>4. ASSUME NEW n \in 1..N PROVE t[n] = t[n - 1] + g[n]
  <2>1. s[n] = s[n - 1] + f[n] /\ n - 1 \in 0..N /\ n \in 0..N
    BY <1>1, <1>2 DEF Prefixes, Conns
  <2>2. s[n] \in Nat /\ s[n - 1] \in Nat /\ f[n] \in Nat
    BY <1>2, <2>1 DEF Conns
  <2>3. g[n] = IF n = c THEN f[n] + d ELSE f[n]
    BY DEF Conns
  <2>4. t[n] = (IF n < c THEN s[n] ELSE s[n] + d)
        /\ t[n - 1] = (IF n - 1 < c THEN s[n - 1] ELSE s[n - 1] + d)
    BY <2>1
  <2>5. QED
    BY <1>2, <2>1, <2>2, <2>3, <2>4
<1>5. t[N] = v + d
  BY <1>1, <1>2
<1>6. QED
  <2>1. Prefixes(t, g)
    BY <1>3, <1>4 DEF Prefixes, Conns
  <2>2. QED
    BY <1>5, <2>1 DEF IsSum

(* The sum of m terms a, the others being 0. *)
LEMMA SumOfEqualTerms ==
  ASSUME NEW f \in [Conns -> Nat], NEW v, IsSum(f, v), NEW a \in Nat, NEW m \in 0..(Connections + 1),
         \A n \in Conns : f[n] = IF n <= m THEN a ELSE 0
  PROVE  v = m * a
<1>1. PICK s : Prefixes(s, f) /\ s[Connections + 1] = v
  BY DEF IsSum
<1> DEFINE N == Connections + 1
           S == {n \in 0..N : s[n] = (IF n <= m THEN n * a ELSE m * a)}
<1>2. N \in Nat /\ m \in 0..N /\ s \in [0..N -> Nat] /\ s[0] = 0 /\ 0 * a = 0
  BY <1>1, EchoAssumption DEF Prefixes, Conns
<1>3. 0 \in S
  BY <1>2
<1>4. ASSUME NEW n \in 0..N, n \in S, n < N PROVE n + 1 \in S
  <2>1. n + 1 \in 1..N /\ (n + 1) - 1 = n
    BY <1>2, <1>4
  <2>2. s[n + 1] = s[n] + f[n + 1]
    BY <1>1, <2>1 DEF Prefixes, Conns
  <2>3. (n + 1) * a = n * a + a /\ n * a \in Nat /\ m * a \in Nat
    BY <1>2
  <2>4. f[n + 1] = IF n + 1 <= m THEN a ELSE 0
    BY <2>1 DEF Conns
  <2>5. CASE n + 1 <= m
    BY <1>2, <1>4, <2>1, <2>2, <2>3, <2>4, <2>5
  <2>6. CASE n = m
    BY <1>2, <1>4, <2>1, <2>2, <2>3, <2>4, <2>6
  <2>7. CASE n > m
    BY <1>2, <1>4, <2>1, <2>2, <2>3, <2>4, <2>7
  <2>8. QED
    BY <1>2, <2>5, <2>6, <2>7
<1>5. 0..N \subseteq S
  <2>1. \A n \in 0..N : n \in S /\ n < N => n + 1 \in S
    BY <1>4
  <2>2. QED
    BY <1>2, <1>3, <2>1, UpTo
<1>6. N \in S
  BY <1>2, <1>5
<1>7. QED
  BY <1>1, <1>2, <1>6

-----------------------------------------------------------------------------
(* What each connection has received, and which ones have received at all. *)
Received == [c \in Conns |-> Payload - DataLeft[c]]
Opened == [c \in Conns |-> IF DataLeft[c] = Payload THEN 0 ELSE 1]

(***************************************************************************)
(* The counters of the client: the bytes are those of its connections, and *)
(* as long as nothing fails ConnectionLimit has been decreased once for    *)
(* each connection that has received something.                            *)
(***************************************************************************)
CountInv ==
  /\ IsSum(Received, total)
  /\ failed = {} => \E k \in Nat : IsSum(Opened, k) /\ ConnectionLimit = Connections - InitConn + 1 - k

(* A connection with a number is under way, and without a fault it ends only after it was open. *)
NumberedInv ==
  \A c \in Conns :
    /\ client # "new" /\ c <= spawned => conn[c] # "none"
    /\ failed = {} /\ conn[c] \in Ended => sending[c] # "none"

(* receive_data counts its bytes, and its first receive. *)
LEMMA ReceiveCounts ==
  ASSUME IInv, CountInv, NEW c \in Conns, NEW rd \in 0..Payload, ReceiveData(c, rd)
  PROVE  CountInv'
<1>1. /\ DataLeft' = [DataLeft EXCEPT ![c] = @ - rd] /\ total' = total + rd /\ failed' = failed
      /\ rd <= toClient[c] /\ (rd = 0 => peer[c] \in Ended) /\ conn[c] = "open" /\ SpawnNext(c)
  BY DEF ReceiveData, Ended
<1>2. /\ DataLeft \in [Conns -> 0..Payload] /\ Payload \in Nat /\ total \in Nat /\ rd <= DataLeft[c]
      /\ DataLeft'[c] = DataLeft[c] - rd
  BY <1>1, EchoAssumption DEF IInv, TypeOK, ConnInv
<1>3. IsSum(Received', total')
  <2>1. Received \in [Conns -> Nat]
    BY <1>2 DEF Received
  <2>2. \A n \in Conns : Received'[n] = IF n = c THEN Received[n] + rd ELSE Received[n]
    <3>1. \A n \in Conns : Received[n] = Payload - DataLeft[n] /\ Received'[n] = Payload - DataLeft'[n]
      BY DEF Received
    <3>2. \A n \in Conns : DataLeft'[n] = IF n = c THEN DataLeft[n] - rd ELSE DataLeft[n]
      BY <1>1, <1>2
    <3>3. QED
      BY <1>2, <3>1, <3>2
  <2>3. IsSum(Received, total) /\ rd \in Nat
    BY DEF CountInv
  <2>4. QED
    BY <1>1, <1>2, <2>1, <2>2, <2>3, SumGrows
<1>4. ASSUME failed = {}
      PROVE  \E k \in Nat : IsSum(Opened', k) /\ ConnectionLimit' = Connections - InitConn + 1 - k
  <2>1. rd # 0
    BY <1>1, <1>4 DEF IInv, ConnInv, FaultFree, Ended
  <2>2. PICK k \in Nat : IsSum(Opened, k) /\ ConnectionLimit = Connections - InitConn + 1 - k
    BY <1>4 DEF CountInv
  <2>3. Opened \in [Conns -> Nat]
    BY DEF Opened
  <2>4. CASE DataLeft[c] = Payload
    <3>1. \A n \in Conns : Opened'[n] = IF n = c THEN Opened[n] + 1 ELSE Opened[n]
      <4>1. \A n \in Conns : /\ Opened[n] = (IF DataLeft[n] = Payload THEN 0 ELSE 1)
                              /\ Opened'[n] = (IF DataLeft'[n] = Payload THEN 0 ELSE 1)
        BY DEF Opened
      <4>2. \A n \in Conns \ {c} : DataLeft'[n] = DataLeft[n]
        BY <1>1, <1>2
      <4>3. DataLeft'[c] # Payload
        BY <1>2, <2>1, <2>4
      <4>4. QED
        BY <2>4, <4>1, <4>2, <4>3
    <3>2. IsSum(Opened', k + 1)
      BY <2>2, <2>3, <3>1, SumGrows
    <3>3. ConnectionLimit' = Connections - InitConn + 1 - (k + 1)
      BY <1>1, <2>2, <2>4, EchoAssumption DEF SpawnNext
    <3>4. QED
      BY <3>2, <3>3
  <2>5. CASE DataLeft[c] # Payload
    <3>1. Opened' = Opened /\ ConnectionLimit' = ConnectionLimit
      BY <1>1, <1>2, <2>5 DEF Opened, SpawnNext
    <3>2. QED
      BY <2>2, <3>1
  <2>6. QED
    BY <2>4, <2>5
<1>5. QED
  BY <1>1, <1>3, <1>4 DEF CountInv, IsSum, Prefixes

(* The other steps leave the counters alone, and a fault is remembered. *)
LEMMA OthersDoNotCount ==
  ASSUME [Next]_vars, \A c \in Conns : \A rd \in 0..Payload : ~ReceiveData(c, rd)
  PROVE  /\ DataLeft' = DataLeft /\ total' = total /\ ConnectionLimit' = ConnectionLimit
         /\ failed' = {} => failed = {}
<1>1. CASE StartClient
  BY <1>1 DEF StartClient
<1>2. CASE StopServer \/ ServerStep
  BY <1>2 DEF StopServer, ServerStep, AcceptStopped, AcceptClosed, ListenerClosed, clientVars
<1>3. CASE Fault
  BY <1>3 DEF Fault, AcceptFails, ConnectFails, SendFails, ReceiveFails, ReadFails, Fails, clientVars
<1>4. ASSUME NEW c \in Conns, ClientStep(c) \/ Accept(c) \/ ReadEnds(c) \/ PeerClosed(c)
      PROVE  /\ DataLeft' = DataLeft /\ total' = total /\ ConnectionLimit' = ConnectionLimit
             /\ failed' = {} => failed = {}
  BY <1>4 DEF ClientStep, ConnectionOpens, Sent, ConnectionClosed, Accept, ReadEnds, PeerClosed, clientVars
<1>5. ASSUME NEW c \in Conns, NEW n \in 1..Payload, ReadChunk(c, n) \/ SendEnds(c, n)
      PROVE  /\ DataLeft' = DataLeft /\ total' = total /\ ConnectionLimit' = ConnectionLimit
             /\ failed' = {} => failed = {}
  BY <1>5 DEF ReadChunk, SendEnds, Fails, clientVars
<1>6. CASE UNCHANGED vars
  BY <1>6 DEF vars, clientVars
<1>7. QED
  BY <1>1, <1>2, <1>3, <1>4, <1>5, <1>6 DEF Next, PeerStep

(* Every step keeps the total the sum of what the connections have received. *)
LEMMA StepCounts ==
  ASSUME IInv, CountInv, [Next]_vars
  PROVE  CountInv'
<1>1. CASE \E c \in Conns : \E rd \in 0..Payload : ReceiveData(c, rd)
  BY <1>1, ReceiveCounts
<1>2. CASE ~ \E c \in Conns : \E rd \in 0..Payload : ReceiveData(c, rd)
  <2>1. /\ DataLeft' = DataLeft /\ total' = total /\ ConnectionLimit' = ConnectionLimit
        /\ failed' = {} => failed = {}
    BY <1>2, OthersDoNotCount
  <2>2. Received' = Received /\ Opened' = Opened
    BY <2>1 DEF Received, Opened
  <2>3. QED
    BY <2>1, <2>2 DEF CountInv, IsSum, Prefixes
<1>3. QED
  BY <1>1, <1>2

(* Every step keeps the connections that were opened the first ones. *)
LEMMA StepNumbers ==
  ASSUME IInv, NumberedInv, [Next]_vars
  PROVE  NumberedInv'
<1>0. TypeOK /\ EchoAssumption /\ \A c \in Conns : ConnInv(c)
  BY EchoAssumption DEF IInv
<1>a. SUFFICES ASSUME NEW d \in Conns
               PROVE  /\ client' # "new" /\ d <= spawned' => conn'[d] # "none"
                      /\ failed' = {} /\ conn'[d] \in Ended => sending'[d] # "none"
  BY DEF NumberedInv
<1>b. /\ client # "new" /\ d <= spawned => conn[d] # "none"
      /\ failed = {} /\ conn[d] \in Ended => sending[d] # "none"
  BY DEF NumberedInv
<1>1. CASE StartClient
  BY <1>0, <1>1 DEF StartClient, Ended
<1>2. ASSUME NEW c \in Conns, ClientStep(c) \/ ConnectFails(c) \/ SendFails(c) \/ ReceiveFails(c)
      PROVE  /\ client' # "new" /\ d <= spawned' => conn'[d] # "none"
             /\ failed' = {} /\ conn'[d] \in Ended => sending'[d] # "none"
  <2>0. client # "new" \/ conn[c] = "none"
    BY DEF IInv, LimitInv
  <2>1. CASE ConnectionOpens(c) \/ Sent(c) \/ ConnectionClosed(c)
    BY <1>0, <1>b, <2>0, <2>1 DEF ConnectionOpens, Sent, ConnectionClosed, TypeOK, Ended
  <2>2. CASE ConnectFails(c) \/ SendFails(c) \/ ReceiveFails(c)
    BY <1>0, <1>b, <2>0, <2>2 DEF ConnectFails, SendFails, ReceiveFails, Fails, TypeOK, Ended
  <2>3. ASSUME NEW rd \in 0..Payload, ReceiveData(c, rd)
        PROVE  /\ client' # "new" /\ d <= spawned' => conn'[d] # "none"
               /\ failed' = {} /\ conn'[d] \in Ended => sending'[d] # "none"
    <3>1. /\ spawned' \in {spawned, spawned + 1} /\ conn[c] = "open"
          /\ conn'[d] = CASE d = c /\ Joins(c, Again(c, rd)) -> "closing"
                          [] d = spawned' /\ spawned' # spawned -> "connecting"
                          [] OTHER -> conn[d]
          /\ client' = client /\ sending' = sending /\ failed' = failed
      BY <2>3 DEF ReceiveData, SpawnNext
    <3>2. spawned \in Nat /\ d \in Nat
      BY <1>0, Numbers
    <3>3. CASE d = c /\ Joins(c, Again(c, rd))
      BY <3>1, <3>3 DEF Joins
    <3>4. CASE ~(d = c /\ Joins(c, Again(c, rd))) /\ d = spawned' /\ spawned' # spawned
      BY <3>1, <3>4 DEF Ended
    <3>5. CASE ~(d = c /\ Joins(c, Again(c, rd))) /\ ~(d = spawned' /\ spawned' # spawned)
      BY <1>b, <3>1, <3>2, <3>5
    <3>6. QED
      BY <3>3, <3>4, <3>5
  <2>4. QED
    BY <1>2, <2>1, <2>2, <2>3 DEF ClientStep
<1>3. ASSUME UNCHANGED clientVars, failed' = {} => failed = {}
      PROVE  /\ client' # "new" /\ d <= spawned' => conn'[d] # "none"
             /\ failed' = {} /\ conn'[d] \in Ended => sending'[d] # "none"
  BY <1>b, <1>3 DEF clientVars
<1>4. CASE StopServer \/ ServerStep \/ AcceptFails
  BY <1>3, <1>4 DEF StopServer, ServerStep, AcceptStopped, AcceptClosed, ListenerClosed, AcceptFails, Fails
<1>5. ASSUME NEW c \in Conns, Accept(c) \/ PeerStep(c) \/ ReadFails(c)
      PROVE  UNCHANGED clientVars /\ (failed' = {} => failed = {})
  <2>1. CASE Accept(c) \/ ReadEnds(c) \/ PeerClosed(c) \/ ReadFails(c)
    BY <2>1 DEF Accept, ReadEnds, PeerClosed, ReadFails, Fails
  <2>2. ASSUME NEW n \in 1..Payload, ReadChunk(c, n) \/ SendEnds(c, n)
        PROVE  UNCHANGED clientVars /\ (failed' = {} => failed = {})
    BY <2>2 DEF ReadChunk, SendEnds, Fails
  <2>3. QED
    BY <1>5, <2>1, <2>2 DEF PeerStep
<1>6. CASE UNCHANGED vars
  BY <1>3, <1>6 DEF vars
<1>7. QED
  BY <1>1, <1>2, <1>3, <1>4, <1>5, <1>6 DEF Next, Fault

(***************************************************************************)
(* At the end, every connection that was opened has received its data, so  *)
(* the limit was decreased once for each of them, and it is used up.       *)
(***************************************************************************)
LEMMA ReturnedWithAll ==
  ASSUME IInv, CountInv, NumberedInv, failed = {}, client = "returned"
  PROVE  spawned = Connections /\ total = Connections * Payload
<1> USE EchoAssumption
<1>1. /\ spawned \in 0..Connections /\ DataLeft \in [Conns -> 0..Payload] /\ ConnectionLimit \in Int
      /\ spawned = IF ConnectionLimit >= 1 THEN Connections + 1 - ConnectionLimit ELSE Connections
  BY DEF IInv, TypeOK, LimitInv
<1>2. ASSUME NEW c \in Conns PROVE DataLeft[c] = IF c <= spawned THEN 0 ELSE Payload
  <2>0. /\ ConnInv(c) /\ FaultFree(c) /\ conn[c] \in {"none", "done"} /\ c \in Nat
        /\ c <= spawned => conn[c] # "none"
        /\ conn[c] = "done" => sending[c] # "none"
    BY DEF IInv, ScopesInv, NumberedInv, Ended, Conns
  <2>1. CASE c <= spawned
    BY <2>0, <2>1 DEF FaultFree, Ended
  <2>2. CASE c > spawned
    BY <1>1, <2>0, <2>2 DEF ConnInv
  <2>3. QED
    BY <1>1, <2>0, <2>1, <2>2
<1>3. PICK k \in Nat : IsSum(Opened, k) /\ ConnectionLimit = Connections - InitConn + 1 - k
  BY DEF CountInv
<1>4. k = spawned
  <2>1. \A n \in Conns : Opened[n] = IF n <= spawned THEN 1 ELSE 0
    <3>1. Payload # 0
      OBVIOUS
    <3>2. QED
      BY <1>2, <3>1 DEF Opened
  <2>2. Opened \in [Conns -> Nat] /\ spawned \in 0..(Connections + 1) /\ 1 \in Nat
    BY <1>1 DEF Opened
  <2>3. k = spawned * 1
    BY <1>3, <2>1, <2>2, SumOfEqualTerms
  <2>4. QED
    BY <1>1, <2>3
<1>5. spawned = Connections
  BY <1>1, <1>3, <1>4
<1>6. total = spawned * Payload
  <2>1. \A n \in Conns : Received[n] = IF n <= spawned THEN Payload ELSE 0
    BY <1>2 DEF Received
  <2>2. Received \in [Conns -> Nat] /\ spawned \in 0..(Connections + 1) /\ Payload \in Nat
    BY <1>1 DEF Received
  <2>3. IsSum(Received, total)
    BY DEF CountInv
  <2>4. QED
    BY <2>1, <2>2, <2>3, SumOfEqualTerms
<1>7. QED
  BY <1>5, <1>6

(***************************************************************************)
(* Without a fault nothing is lost or counted twice, and a client that     *)
(* returns has opened every connection that it was asked to and received   *)
(* all that it sent, for any number of connections, any payload and any    *)
(* splitting of the data: process_connection opens the next connection at  *)
(* the first receive of one, and receive_data adds up TotalBytesReceived.  *)
(***************************************************************************)
THEOREM EverythingIsEchoed == Spec => []EchoedExactly
<1>1. Init => CountInv /\ NumberedInv
  <2> SUFFICES ASSUME Init PROVE CountInv /\ NumberedInv
    OBVIOUS
  <2>1. /\ Received \in [Conns -> Nat] /\ \A n \in Conns : Received[n] = 0
        /\ Opened \in [Conns -> Nat] /\ \A n \in Conns : Opened[n] = 0
    BY EchoAssumption DEF Init, Received, Opened
  <2>2. IsSum(Received, 0) /\ IsSum(Opened, 0)
    BY <2>1, SumOfZeros
  <2>3. ConnectionLimit = Connections - InitConn + 1 - 0
    BY EchoAssumption DEF Init
  <2>4. QED
    BY <2>2, <2>3 DEF Init, CountInv, NumberedInv, Ended
<1>2. IInv /\ (CountInv /\ NumberedInv) /\ [Next]_vars => (CountInv /\ NumberedInv)'
  BY StepCounts, StepNumbers
<1>3. IInv /\ (CountInv /\ NumberedInv) => EchoedExactly
  BY ReturnedWithAll DEF EchoedExactly, IInv, FaultFree, DataConserved
<1>4. QED
  BY <1>1, <1>2, <1>3, EchoInvariant, PTL DEF Spec
=============================================================================
