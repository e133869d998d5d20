---------------------------- MODULE PipelineProofs ----------------------------
(***************************************************************************)
(* Chains of any length on any sockets, when the reads and the close of a  *)
(* socket belong to one chain: the type invariant, that every pointer      *)
(* which libuv, the loop or a stop source holds leads to the operation it  *)
(* was made for, that a chain completes once, and that it completes only   *)
(* as the signatures declare.  The first part is about the senders alone:  *)
(* what building and connecting a chain of algorithms gives.               *)
(***************************************************************************)
EXTENDS Pipeline, InductionLemmas, TLAPS

-----------------------------------------------------------------------------
(* The stages of a chain and its signatures.                               *)

StageOps == [op : Reads \cup Requests \cup Events \cup {"close"}, sock : Sockets \cup {"none"}]
Signals == {"void", "size", "error", "stopped"}

(* What a stage adds to the signatures, and the value it leaves. *)
Adds(o) ==
  IF o = "close" THEN {} ELSE IF o \in Requests THEN {"error"} ELSE {"error", "stopped"}
Gives(o) == IF o \in Reads THEN {"size"} ELSE {"void"}

(* Each algorithm that its socket has becomes one stage, whose operation fits what the tag requires. *)
LEMMA StageOfStep ==
  ASSUME NEW step \in Steps, NEW s
  PROVE  \E o \in Reads \cup Requests \cup Events \cup {"close"} :
           /\ TransformSender(Kind, step, s) = Stage(s, o, step.sock, Adds(o), Gives(o))
           /\ o \in Reads \cup Requests \cup {"close"} => step.sock \in Sockets
           /\ step.sock \in Sockets \cup {"none"}
           /\ Required[step.tag].value = Gives(o)
           /\ Required[step.tag].stopped = Adds(o) \ {"error"}
<1> USE DEF Adds, Gives, Reads, Requests, Events, TVoidValueCompletionSignatures,
            TLengthValueCompletionSignatures, TAlgorithmCompletionSignatures,
            TCancellableAlgorithmCompletionSignatures
<1>1. CASE step \in [tag : LoopAlgorithms, sock : {"none"}]
  <2>1. step.sock = "none" /\ step.tag \in {"after", "at", "upon_signal"}
    BY <1>1 DEF LoopAlgorithms
  <2>2. TransformSender(Kind, step, s) = TLoopTimer(step.tag, s)
    BY <2>1 DEF TransformSender
  <2>3. /\ Required[step.tag].value = {"void"} /\ Required[step.tag].stopped = {"stopped"}
    BY <2>1 DEF Required, after_t, at_t, upon_signal_t
  <2>4. CASE step.tag = "upon_signal"
    <3>1. TLoopTimer(step.tag, s) = Stage(s, "upon_signal", "none", {"error", "stopped"}, {"void"})
      BY <2>4 DEF TLoopTimer, TUponSignalSender
    <3>2. QED
      BY <2>1, <2>2, <2>3, <3>1
  <2>5. CASE step.tag # "upon_signal"
    <3>1. TLoopTimer(step.tag, s) = Stage(s, step.tag, "none", {"error", "stopped"}, {"void"})
      BY <2>5 DEF TLoopTimer, TAfterSender
    <3>2. QED
      BY <2>1, <2>2, <2>3, <2>5, <3>1
  <2>6. QED
    BY <2>4, <2>5
<1>2. ASSUME NEW k \in Sockets, step \in [tag : SocketAlgorithms[Kind[k]], sock : {k}]
      PROVE  step.sock \in Sockets /\ step.sock # "none" /\ step.tag \in SocketAlgorithms[Kind[step.sock]]
  BY <1>2, ChainsAssumption
<1>3. CASE step \notin [tag : LoopAlgorithms, sock : {"none"}]
  <2>1. step.sock \in Sockets /\ step.sock # "none" /\ step.tag \in SocketAlgorithms[Kind[step.sock]]
    BY <1>2, <1>3 DEF Steps
  <2>2. CASE Kind[step.sock] = "tcp"
    <3>1. step.tag \in {"close", "connect", "shutdown", "send", "write_some", "receive", "read_some", "read_until"}
      BY <2>1, <2>2 DEF SocketAlgorithms
    <3>2. TransformSender(Kind, step, s) = TTcpSocket(step.tag, s, step.sock)
      BY <2>1, <2>2 DEF TransformSender
    <3> HIDE DEF Adds, Gives
    <3>3. CASE step.tag = "close"
      BY <2>1, <3>2, <3>3 DEF TTcpSocket, TCloseSender, Required, close_t, Adds, Gives
    <3>4. CASE step.tag = "connect"
      BY <2>1, <3>2, <3>4 DEF TTcpSocket, TConnectSender, Required, connect_t, Adds, Gives
    <3>5. CASE step.tag = "shutdown"
      BY <2>1, <3>2, <3>5 DEF TTcpSocket, TShutdownSender, Required, shutdown_t, Adds, Gives
    <3>6. CASE step.tag \in {"send", "write_some"}
      BY <2>1, <3>2, <3>6 DEF TTcpSocket, TWriteSender, Required, send_t, write_some_t, Adds, Gives
    <3>7. CASE step.tag \in {"receive", "read_some"}
      BY <2>1, <3>2, <3>7 DEF TTcpSocket, TReadSomeSender, Required, receive_t, read_some_t, Adds, Gives
    <3>8. CASE step.tag = "read_until"
      BY <2>1, <3>2, <3>8 DEF TTcpSocket, TReadUntilSender, Required, read_until_t, Adds, Gives
    <3>9. QED
      BY <3>1, <3>3, <3>4, <3>5, <3>6, <3>7, <3>8
  <2>3. CASE Kind[step.sock] = "udp"
    <3>1. step.tag \in {"close", "connect", "send_to", "receive_from", "receive", "send"}
      BY <2>1, <2>3 DEF SocketAlgorithms
    <3>2. TransformSender(Kind, step, s) = TUdpSocket(step.tag, s, step.sock)
      BY <2>1, <2>3 DEF TransformSender
    <3>3. CASE step.tag = "close"
      BY <2>1, <3>2, <3>3 DEF TUdpSocket, TCloseSender, Required, close_t
    <3>4. CASE step.tag = "connect"
      BY <2>1, <3>2, <3>4 DEF TUdpSocket, TConnectSender, Required, connect_t
    <3>5. CASE step.tag = "send_to"
      BY <2>1, <3>2, <3>5 DEF TUdpSocket, TSendToSender, Required, send_to_t
    <3>6. CASE step.tag = "receive_from"
      BY <2>1, <3>2, <3>6 DEF TUdpSocket, TReceiveFromSender, Required, receive_from_t
    <3>7. CASE step.tag = "receive"
      BY <2>1, <3>2, <3>7 DEF TUdpSocket, TReceiveSender, Required, receive_t
    <3>8. CASE step.tag = "send"
      BY <2>1, <3>2, <3>8 DEF TUdpSocket, TSendSender, Required, send_t
    <3>9. QED
      BY <3>1, <3>3, <3>4, <3>5, <3>6, <3>7, <3>8
  <2>4. CASE Kind[step.sock] = "listener"
    <3>1. step.tag \in {"close", "accept"}
      BY <2>1, <2>4 DEF SocketAlgorithms
    <3>2. TransformSender(Kind, step, s) = TTcpListener(step.tag, s, step.sock)
      BY <2>1, <2>4 DEF TransformSender
    <3>3. CASE step.tag = "close"
      BY <2>1, <3>2, <3>3 DEF TTcpListener, TCloseSender, Required, close_t
    <3>4. CASE step.tag = "accept"
      BY <2>1, <3>2, <3>4 DEF TTcpListener, TTcpAcceptSender, Required, accept_t
    <3>5. QED
      BY <3>1, <3>3, <3>4
  <2>5. QED
    BY <2>1, <2>2, <2>3, <2>4, ChainsAssumption
<1>4. QED
  BY <1>1, <1>3

-----------------------------------------------------------------------------
(* One algorithm more, transformed when the chain is connected or by the domain of its upstream. *)
Longer(always, step, s) == IF always THEN TransformSender(Kind, step, s) ELSE Algorithm(Kind, step, s)

(* f holds the chain after each of the first n steps. *)
Built(f, always, first, steps, n) ==
  f = [i \in 0..n |-> IF i = 0 THEN first ELSE Longer(always, steps[i], f[i - 1])]

(* The recursive functions of Pipe and Connect have a value. *)
LEMMA BuiltExists ==
  ASSUME NEW always, NEW first, NEW steps, NEW N \in Nat
  PROVE  \E f : Built(f, always, first, steps, N)
<1> DEFINE S == {n \in 0..N : \E f : Built(f, always, first, steps, n)}
<1>1. 0 \in S
  <2> DEFINE g == [i \in 0..0 |-> first]
  <2>1. Built(g, always, first, steps, 0)
    BY DEF Built
  <2>2. QED
    BY <2>1
<1>2. ASSUME NEW n \in 0..N, n \in S, n < N PROVE n + 1 \in S
  <2>1. PICK f : Built(f, always, first, steps, n)
    BY <1>2
  <2> DEFINE g == [i \in 0..(n + 1) |-> IF i <= n THEN f[i] ELSE Longer(always, steps[i], f[n])]
  <2>2. \A i \in 0..n : f[i] = IF i = 0 THEN first ELSE Longer(always, steps[i], f[i - 1])
    BY <2>1 DEF Built
  <2>3. \A i \in 0..n : g[i] = f[i]
    OBVIOUS
  <2>4. ASSUME NEW i \in 0..(n + 1)
        PROVE  g[i] = IF i = 0 THEN first ELSE Longer(always, steps[i], g[i - 1])
    <3>1. CASE i <= n
      BY <2>2, <2>3, <3>1
    <3>2. CASE ~(i <= n)
      <4>1. i = n + 1 /\ i - 1 = n /\ i # 0 /\ n \in 0..n
        BY <3>2
      <4>2. g[i - 1] = f[n]
        BY <2>3, <4>1
      <4>3. g[i] = Longer(always, steps[i], f[n])
        BY <3>2
      <4>4. QED
        BY <4>1, <4>2, <4>3
    <3>3. QED
      BY <3>1, <3>2
  <2>5. g = [i \in 0..(n + 1) |-> IF i = 0 THEN first ELSE Longer(always, steps[i], g[i - 1])]
    BY <2>4
  <2> HIDE DEF g
  <2>6. Built(g, always, first, steps, n + 1)
    BY <2>5 DEF Built
  <2>7. n + 1 \in 0..N
    BY <1>2
  <2>8. QED
    BY <2>6, <2>7
<1> HIDE DEF S
<1>3. 0..N \subseteq S
  BY <1>1, <1>2, UpTo
<1>4. N \in S
  BY <1>3
<1>5. QED
  BY <1>4 DEF S

(* The senders of a chain, one after each of its steps. *)
Senders(f, always, first, steps) ==
  /\ f[0] = first
  /\ \A i \in 1..Len(steps) : f[i] = Longer(always, steps[i], f[i - 1])

(* What Pipe computes. *)
LEMMA PipeUnfolds ==
  ASSUME NEW first, NEW steps, Len(steps) \in Nat
  PROVE  \E f : Senders(f, FALSE, first, steps) /\ Pipe(Kind, first, steps) = f[Len(steps)]
<1> DEFINE f == CHOOSE f : f = [i \in 0..Len(steps) |->
                                  IF i = 0 THEN first ELSE Algorithm(Kind, steps[i], f[i - 1])]
<1>1. \E g : g = [i \in 0..Len(steps) |-> IF i = 0 THEN first ELSE Algorithm(Kind, steps[i], g[i - 1])]
  <2>1. PICK g : Built(g, FALSE, first, steps, Len(steps))
    BY BuiltExists
  <2>2. g = [i \in 0..Len(steps) |-> IF i = 0 THEN first ELSE Algorithm(Kind, steps[i], g[i - 1])]
    BY <2>1 DEF Built, Longer
  <2>3. QED
    BY <2>2
<1>2. f = [i \in 0..Len(steps) |-> IF i = 0 THEN first ELSE Algorithm(Kind, steps[i], f[i - 1])]
  BY <1>1
<1>3. Pipe(Kind, first, steps) = f[Len(steps)]
  BY DEF Pipe
<1> HIDE DEF f
<1>4. Senders(f, FALSE, first, steps)
  BY <1>2 DEF Senders, Longer
<1>5. QED
  BY <1>3, <1>4

(* What connecting a chain that starts with just computes. *)
LEMMA ConnectUnfolds ==
  ASSUME NEW first, NEW steps, Len(steps) \in Nat, first.domain # "loop"
  PROVE  \E f : /\ Senders(f, TRUE, first, steps)
               /\ Connect(Kind, first, steps, "loop") = [f[Len(steps)] EXCEPT !.domain = "loop"]
<1> DEFINE f == CHOOSE f : f = [i \in 0..Len(steps) |->
                                  IF i = 0 THEN first ELSE TransformSender(Kind, steps[i], f[i - 1])]
<1>1. \E g : g = [i \in 0..Len(steps) |-> IF i = 0 THEN first ELSE TransformSender(Kind, steps[i], g[i - 1])]
  <2>1. PICK g : Built(g, TRUE, first, steps, Len(steps))
    BY BuiltExists
  <2>2. g = [i \in 0..Len(steps) |-> IF i = 0 THEN first ELSE TransformSender(Kind, steps[i], g[i - 1])]
    BY <2>1 DEF Built, Longer
  <2>3. QED
    BY <2>2
<1>2. f = [i \in 0..Len(steps) |-> IF i = 0 THEN first ELSE TransformSender(Kind, steps[i], f[i - 1])]
  BY <1>1
<1>3. Connect(Kind, first, steps, "loop") = [f[Len(steps)] EXCEPT !.domain = "loop"]
  BY DEF Connect, GetEarlyDomain
<1> HIDE DEF f
<1>4. Senders(f, TRUE, first, steps)
  BY <1>2 DEF Senders, Longer
<1>5. QED
  BY <1>3, <1>4

-----------------------------------------------------------------------------
(***************************************************************************)
(* What holds of the sender after i steps: one stage for each, and the     *)
(* errors and stops of every stage and the value of the last one are among *)
(* its signatures.  A sender that starts with schedule can be stopped.     *)
(***************************************************************************)
Sound(s, i, first) ==
  /\ s \in [ops : Seq(StageOps), sigs : SUBSET Signals, domain : {first.domain}]
  /\ Len(s.ops) = i
  /\ \A j \in 1..i : s.ops[j].op \in Reads \cup Requests \cup {"close"} => s.ops[j].sock \in Sockets
  /\ \A j \in 1..i : Adds(s.ops[j].op) \subseteq s.sigs
  /\ first.domain = "loop" => "stopped" \in s.sigs
  /\ i > 0 => s.sigs \cap {"void", "size"} = Gives(s.ops[i].op)

(* One stage more. *)
LEMMA StageIsSound ==
  ASSUME NEW first, NEW i \in Nat, NEW s, Sound(s, i, first), NEW step \in Steps
  PROVE  Sound(TransformSender(Kind, step, s), i + 1, first)
<1>1. PICK o \in Reads \cup Requests \cup Events \cup {"close"} :
        /\ TransformSender(Kind, step, s) = Stage(s, o, step.sock, Adds(o), Gives(o))
        /\ o \in Reads \cup Requests \cup {"close"} => step.sock \in Sockets
        /\ step.sock \in Sockets \cup {"none"}
  BY StageOfStep
<1> DEFINE t == TransformSender(Kind, step, s)
           new == [op |-> o, sock |-> step.sock]
<1>2. new \in StageOps
  BY <1>1 DEF StageOps
<1>3. /\ s.ops \in Seq(StageOps) /\ Len(s.ops) = i /\ s.sigs \in SUBSET Signals /\ s.domain = first.domain
      /\ s = [ops |-> s.ops, sigs |-> s.sigs, domain |-> s.domain]
  BY DEF Sound
<1>4. /\ t.ops = Append(s.ops, new) /\ t.domain = s.domain
      /\ t.sigs = (s.sigs \ {"void", "size"}) \cup Adds(o) \cup Gives(o)
      /\ t = [ops |-> t.ops, sigs |-> t.sigs, domain |-> t.domain]
  BY <1>1, <1>3 DEF Stage, make_completion_signatures
<1>5. Adds(o) \subseteq {"error", "stopped"} /\ Gives(o) \in SUBSET {"void", "size"}
  BY DEF Adds, Gives
<1> HIDE DEF t, new
<1>6. /\ t.ops \in Seq(StageOps) /\ Len(t.ops) = i + 1 /\ t.ops[i + 1] = new
      /\ \A j \in 1..i : t.ops[j] = s.ops[j]
  BY <1>2, <1>3, <1>4
<1>7. t \in [ops : Seq(StageOps), sigs : SUBSET Signals, domain : {first.domain}]
  BY <1>3, <1>4, <1>5, <1>6 DEF Signals
<1>8. ASSUME NEW j \in 1..(i + 1)
      PROVE  /\ t.ops[j].op \in Reads \cup Requests \cup {"close"} => t.ops[j].sock \in Sockets
             /\ Adds(t.ops[j].op) \subseteq t.sigs
  <2>1. CASE j = i + 1
    <3>1. t.ops[j].op = o /\ t.ops[j].sock = step.sock
      BY <1>6, <2>1 DEF new
    <3>2. QED
      BY <1>1, <1>4, <3>1
  <2>2. CASE j # i + 1
    <3>1. j \in 1..i /\ t.ops[j] = s.ops[j]
      BY <1>6, <2>2
    <3>2. Adds(s.ops[j].op) \subseteq {"error", "stopped"}
      BY DEF Adds
    <3>3. QED
      BY <1>4, <3>1, <3>2 DEF Sound
  <2>3. QED
    BY <2>1, <2>2
<1>9. first.domain = "loop" => "stopped" \in t.sigs
  BY <1>4 DEF Sound
<1>10. t.sigs \cap {"void", "size"} = Gives(t.ops[i + 1].op)
  <2>1. t.ops[i + 1].op = o
    BY <1>6 DEF new
  <2>2. t.sigs \cap {"void", "size"} = Gives(o)
    BY <1>4, <1>5
  <2>3. QED
    BY <2>1, <2>2
<1>11. Sound(t, i + 1, first)
  BY <1>6, <1>7, <1>8, <1>9, <1>10 DEF Sound
<1>12. QED
  BY <1>11 DEF t

(* The sender that a chain starts with. *)
LEMMA FirstIsSound ==
  ASSUME NEW first \in {just, TScheduleSender}
  PROVE  Sound(first, 0, first) /\ first.domain \in {"none", "loop"}
<1>1. CASE first = just
  BY <1>1 DEF just, Sound, Signals
<1>2. CASE first = TScheduleSender
  BY <1>2 DEF TScheduleSender, TScheduleCompletionSignatures, Sound, Signals
<1>3. QED
  BY <1>1, <1>2

(* A chain whose algorithms are all transformed. *)
LEMMA TransformedIsSound ==
  ASSUME NEW first \in {just, TScheduleSender}, NEW steps \in Seq(Steps), NEW always \in BOOLEAN,
         always \/ first.domain = "loop", NEW f, Senders(f, always, first, steps)
  PROVE  \A i \in 0..Len(steps) : Sound(f[i], i, first)
<1> DEFINE N == Len(steps)
           S == {i \in 0..N : Sound(f[i], i, first)}
<1>0. N \in Nat
  OBVIOUS
<1>1. 0 \in S
  BY <1>0, FirstIsSound DEF Senders
<1>2. ASSUME NEW i \in 0..N, i \in S, i < N PROVE i + 1 \in S
  <2>1. Sound(f[i], i, first) /\ i \in Nat /\ i + 1 \in 1..N /\ (i + 1) - 1 = i
    BY <1>0, <1>2
  <2>2. steps[i + 1] \in Steps
    BY <2>1
  <2>3. f[i + 1] = Longer(always, steps[i + 1], f[i])
    BY <2>1 DEF Senders
  <2>4. f[i].domain = first.domain
    BY <2>1 DEF Sound
  <2>5. f[i + 1] = TransformSender(Kind, steps[i + 1], f[i])
    BY <2>3, <2>4 DEF Longer, Algorithm, GetEarlyDomain
  <2>6. Sound(f[i + 1], i + 1, first)
    BY <2>1, <2>2, <2>5, StageIsSound
  <2>7. QED
    BY <2>1, <2>6
<1> HIDE DEF S
<1>3. 0..N \subseteq S
  <2> HIDE DEF N
  <2> QED BY <1>0, <1>1, <1>2, UpTo
<1>4. QED
  BY <1>3 DEF S

(* A chain of packages declares what it will declare when it is connected, but for the errors. *)
LEMMA PackagesDeclare ==
  ASSUME NEW steps \in Seq(Steps), NEW f, Senders(f, TRUE, just, steps),
         NEW g, Senders(g, FALSE, just, steps)
  PROVE  g[Len(steps)].sigs = f[Len(steps)].sigs \ {"error"}
<1> DEFINE N == Len(steps)
           Same(i) == /\ g[i] = [ops |-> g[i].ops, sigs |-> g[i].sigs, domain |-> "none"]
                      /\ g[i].sigs = f[i].sigs \ {"error"}
           S == {i \in 0..N : Same(i)}
<1>0. N \in Nat
  OBVIOUS
<1>1. 0 \in S
  BY <1>0 DEF Senders, just
<1>2. ASSUME NEW i \in 0..N, i \in S, i < N PROVE i + 1 \in S
  <2>1. Same(i) /\ i \in Nat /\ i + 1 \in 1..N /\ (i + 1) - 1 = i
    BY <1>0, <1>2
  <2>2. steps[i + 1] \in Steps
    BY <2>1
  <2>3. PICK step \in Steps : step = steps[i + 1]
    BY <2>2
  <2>4. /\ f[i + 1] = TransformSender(Kind, step, f[i])
        /\ g[i + 1] = MakeSenderPackage(step, g[i])
    BY <2>1, <2>3 DEF Senders, Longer, Algorithm, GetEarlyDomain
  <2>5. PICK o \in Reads \cup Requests \cup Events \cup {"close"} :
          /\ TransformSender(Kind, step, f[i]) = Stage(f[i], o, step.sock, Adds(o), Gives(o))
          /\ Required[step.tag].value = Gives(o)
          /\ Required[step.tag].stopped = Adds(o) \ {"error"}
    BY StageOfStep
  <2>6. Sound(f[i], i, just)
    BY TransformedIsSound
  <2>7. f[i + 1].sigs = (f[i].sigs \ {"void", "size"}) \cup Adds(o) \cup Gives(o)
    BY <2>4, <2>5, <2>6 DEF Sound, Stage, make_completion_signatures
  <2>8. /\ g[i + 1].sigs = (g[i].sigs \ {"void", "size"}) \cup (Adds(o) \ {"error"}) \cup Gives(o)
        /\ g[i + 1] = [ops |-> g[i + 1].ops, sigs |-> g[i + 1].sigs, domain |-> "none"]
    <3>1. PICK u, t : u = g[i] /\ t = MakeSenderPackage(step, u)
      OBVIOUS
    <3>2. u = [ops |-> u.ops, sigs |-> u.sigs, domain |-> u.domain] /\ u.domain = "none"
      BY <2>1, <3>1
    <3>3. /\ t.ops = Append(u.ops, [op |-> "package", sock |-> step.sock]) /\ t.domain = u.domain
          /\ t.sigs = (u.sigs \ {"void", "size"}) \cup (Adds(o) \ {"error"}) \cup Gives(o)
          /\ t = [ops |-> t.ops, sigs |-> t.sigs, domain |-> t.domain]
      BY <2>5, <3>1, <3>2 DEF MakeSenderPackage, GetCompSigs, make_completion_signatures
    <3>4. QED
      BY <2>4, <3>1, <3>2, <3>3
  <2>9. "error" \notin Gives(o)
    BY DEF Gives
  <2>10. g[i + 1].sigs = f[i + 1].sigs \ {"error"}
    BY <2>1, <2>7, <2>8, <2>9
  <2>11. QED
    BY <2>1, <2>8, <2>10
<1> HIDE DEF S
<1>3. 0..N \subseteq S
  <2> HIDE DEF N
  <2> QED BY <1>0, <1>1, <1>2, UpTo
<1>4. N \in S
  BY <1>0, <1>3
<1>5. Same(N)
  BY <1>4 DEF S
<1>6. QED
  BY <1>5

(* What connecting a chain gives, and what it has declared before. *)
LEMMA ConnectedIsSound ==
  ASSUME NEW p \in Pipelines
  PROVE  \E s : /\ Sound(s, Len(Chain[p]), First[p])
               /\ Ops(p) = s.ops /\ Declared(p) = s.sigs
               /\ Packaged[p] \ {"error"} = s.sigs \ {"error"}
<1>1. PICK first \in {just, TScheduleSender}, steps \in Seq(Steps) : first = First[p] /\ steps = Chain[p]
  BY ChainsAssumption
<1>2. Len(steps) \in Nat /\ Len(steps) \in 0..Len(steps)
  OBVIOUS
<1>3. PICK g : Senders(g, FALSE, first, steps) /\ Pipe(Kind, first, steps) = g[Len(steps)]
  BY <1>2, PipeUnfolds
<1>4. /\ Packaged[p] = g[Len(steps)].sigs
      /\ Ops(p) = Connect(Kind, first, steps, "loop").ops
      /\ Declared(p) = Connect(Kind, first, steps, "loop").sigs
  BY <1>1, <1>3 DEF Packaged, Ops, Declared, Connected
<1>5. CASE first.domain = "loop"
  <2>1. Connect(Kind, first, steps, "loop") = Pipe(Kind, first, steps)
    BY <1>5, Zenon DEF Connect, GetEarlyDomain
  <2>2. Sound(g[Len(steps)], Len(steps), first)
    BY <1>2, <1>3, <1>5, TransformedIsSound
  <2>3. QED
    BY <1>1, <1>3, <1>4, <2>1, <2>2
<1>6. CASE first.domain # "loop"
  <2>1. first = just
    BY <1>6 DEF TScheduleSender
  <2>2. PICK f : /\ Senders(f, TRUE, first, steps)
                 /\ Connect(Kind, first, steps, "loop") = [f[Len(steps)] EXCEPT !.domain = "loop"]
    BY <1>2, <1>6, ConnectUnfolds
  <2>3. Sound(f[Len(steps)], Len(steps), first)
    BY <1>2, <2>2, TransformedIsSound
  <2>4. PICK s, c : s = f[Len(steps)] /\ c = Connect(Kind, first, steps, "loop")
    OBVIOUS
  <2>5. s = [ops |-> s.ops, sigs |-> s.sigs, domain |-> s.domain]
    BY <2>3, <2>4 DEF Sound
  <2>6. c.ops = s.ops /\ c.sigs = s.sigs
    BY <2>2, <2>4, <2>5
  <2>7. g[Len(steps)].sigs = s.sigs \ {"error"}
    BY <1>3, <2>1, <2>2, <2>4, PackagesDeclare
  <2>8. QED
    BY <1>1, <1>4, <2>3, <2>4, <2>6, <2>7
<1>7. QED
  BY <1>5, <1>6

(* Every algorithm of a chain is a stage that the model knows, and those of sockets have one. *)
LEMMA Stages ==
  ASSUME NEW p \in Pipelines
  PROVE  /\ Ops(p) \in Seq(StageOps) /\ Len(Ops(p)) \in Nat /\ Len(Ops(p)) > 0
         /\ \A i \in 1..Len(Ops(p)) :
              Ops(p)[i].op \in Reads \cup Requests \cup {"close"} => Ops(p)[i].sock \in Sockets
<1>1. PICK s : Sound(s, Len(Chain[p]), First[p]) /\ Ops(p) = s.ops
  BY ConnectedIsSound
<1>2. Chain[p] \in Seq(Steps) /\ Chain[p] # <<>>
  BY ChainsAssumption
<1>3. Len(Chain[p]) \in Nat /\ Len(Chain[p]) > 0
  BY <1>2
<1>4. QED
  BY <1>1, <1>3 DEF Sound

(* The signatures hold what each stage can end with, and the value of the last one. *)
LEMMA Signatures ==
  ASSUME NEW p \in Pipelines
  PROVE  /\ \A i \in 1..Len(Ops(p)) : Adds(Ops(p)[i].op) \subseteq Declared(p)
         /\ First[p].domain = "loop" => "stopped" \in Declared(p)
         /\ Declared(p) \cap {"void", "size"} = Gives(Ops(p)[Len(Ops(p))].op)
         /\ Packaged[p] \ {"error"} = Declared(p) \ {"error"}
<1>1. PICK s : /\ Sound(s, Len(Chain[p]), First[p])
               /\ Ops(p) = s.ops /\ Declared(p) = s.sigs
               /\ Packaged[p] \ {"error"} = s.sigs \ {"error"}
  BY ConnectedIsSound
<1>2. Len(Ops(p)) = Len(Chain[p]) /\ Len(Ops(p)) > 0
  BY <1>1, Stages DEF Sound
<1>3. QED
  BY <1>1, <1>2 DEF Sound

-----------------------------------------------------------------------------
(* The invariant of the chains on their loop.                              *)


Live(p) == state[p] \in {"running", "pending"}

(* A chain that is running or waits is at one of its stages. *)
StageInv(p) ==
  /\ state[p] \in {"new", "queued"} => pos[p] = 0
  /\ Live(p) => pos[p] \in 1..Len(Ops(p))
  /\ p \notin EmptySends => completions[p] = IF state[p] = "done" THEN 1 ELSE 0

(* libuv polls and closes only open and closing sockets, for an operation that waits. *)
SocketInv(s) ==
  /\ s \in reading =>
       /\ life[s] = "open" /\ data[s] # NULL
       /\ At(data[s], "pending", Reads) /\ sock(data[s]) = s
  /\ life[s] = "closing" =>
       data[s] # NULL /\ At(data[s], "pending", {"close"}) /\ sock(data[s]) = s

(* Who has lost the race for Used is in no stop source, and who has won it is in the loop's list. *)
StopInv(p) ==
  /\ p \in callback \cup stopQueued => At(p, "pending", Reads \cup Events)
  /\ p \in stopQueued => p \in Used
  /\ p \in callback => p \notin Used

IInv ==
  /\ TypeOK
  /\ \A p \in Pipelines : StageInv(p) /\ StopInv(p)
  /\ \A s \in Sockets : SocketInv(s)
  /\ resent \subseteq EmptySends

(* The operation of chain p is not the target of any pointer. *)
Unreferenced(p) ==
  /\ p \notin callback' \cup stopQueued'
  /\ \A s \in Sockets : s \in reading' \/ life'[s] = "closing" => data'[s] # p

-----------------------------------------------------------------------------
(* The end of a stage concerns the chain itself only. *)
LEMMA EndStageEffect ==
  ASSUME IInv, NEW p \in Pipelines, state[p] # "done",
         NEW how \in {"value", "error", "stopped"}, EndStage(p, how)
  PROVE  /\ state' \in [Pipelines -> {"new", "queued", "running", "pending", "done"}]
         /\ pos' \in [Pipelines -> Nat]
         /\ result' \in [Pipelines -> {"none", "value", "error", "stopped"}]
         /\ completions' \in [Pipelines -> Nat]
         /\ StageInv(p)' /\ state'[p] \in {"running", "done"}
         /\ \A q \in Pipelines \ {p} :
              state'[q] = state[q] /\ pos'[q] = pos[q] /\ completions'[q] = completions[q]
<1> USE DEF IInv, TypeOK
<1>0. /\ pos[p] \in Nat /\ Len(Ops(p)) \in Nat /\ StageInv(p)
      /\ p \notin EmptySends => completions[p] = 0
  BY Stages DEF StageInv
<1>1. CASE how = "value" /\ pos[p] < Len(Ops(p))
  <2>1. /\ pos' = [pos EXCEPT ![p] = @ + 1] /\ state' = [state EXCEPT ![p] = "running"]
        /\ result' = result /\ completions' = completions
    BY <1>1 DEF EndStage, doneVars
  <2>2. pos'[p] = pos[p] + 1 /\ state'[p] = "running" /\ pos'[p] \in 1..Len(Ops(p))
    BY <1>0, <1>1, <2>1
  <2>3. StageInv(p)'
    BY <1>0, <2>1, <2>2 DEF StageInv, Live
  <2>4. QED
    BY <2>1, <2>2, <2>3
<1>2. CASE ~(how = "value" /\ pos[p] < Len(Ops(p)))
  <2>1. /\ state' = [state EXCEPT ![p] = "done"] /\ result' = [result EXCEPT ![p] = how]
        /\ completions' = [completions EXCEPT ![p] = @ + 1] /\ pos' = pos
    BY <1>2 DEF EndStage
  <2>2. state'[p] = "done" /\ completions'[p] = completions[p] + 1
    BY <2>1
  <2>3. StageInv(p)'
    BY <1>0, <2>1, <2>2 DEF StageInv, Live
  <2>4. QED
    BY <2>1, <2>2, <2>3
<1>3. QED
  BY <1>1, <1>2

(* What an action does to the stops and sockets of everyone else. *)
Frame(p) ==
  /\ requested' \in SUBSET Pipelines /\ callback' \in SUBSET Pipelines
  /\ Used' \in SUBSET Pipelines /\ stopQueued' \in SUBSET Pipelines
  /\ resent' \in SUBSET Pipelines /\ resent' \subseteq EmptySends
  /\ data' \in [Sockets -> Pipelines \cup {NULL}]
  /\ reading' \in SUBSET Sockets
  /\ life' \in [Sockets -> {"open", "closing", "closed"}]
  /\ \A q \in Pipelines \ {p} :
       /\ q \in callback' => q \in callback
       /\ q \in stopQueued' => q \in stopQueued
       /\ q \in Used' <=> q \in Used

(* What is still polled or closing was so before, for the same operation. *)
SameTarget(s) ==
  /\ s \in reading' => s \in reading /\ data'[s] = data[s] /\ life'[s] = life[s]
  /\ life'[s] = "closing" => life[s] = "closing" /\ data'[s] = data[s]

(* The chains other than p keep what holds of them. *)
LEMMA OthersKeep ==
  ASSUME IInv, NEW p \in Pipelines, Frame(p),
         \A q \in Pipelines \ {p} :
           state'[q] = state[q] /\ pos'[q] = pos[q] /\ completions'[q] = completions[q]
  PROVE  /\ \A q \in Pipelines \ {p} : StageInv(q)' /\ StopInv(q)'
         /\ \A s \in Sockets :
              SameTarget(s) /\ (s \in reading' \/ life'[s] = "closing" => data'[s] # p) => SocketInv(s)'
<1> USE DEF IInv, TypeOK
<1>1. ASSUME NEW q \in Pipelines \ {p} PROVE StageInv(q)'
  BY <1>1 DEF StageInv, Live
<1>2. ASSUME NEW q \in Pipelines \ {p} PROVE op(q)' = op(q) /\ sock(q)' = sock(q)
  BY <1>2 DEF op, sock
<1>3. ASSUME NEW q \in Pipelines \ {p} PROVE StopInv(q)'
  BY <1>2, <1>3 DEF StopInv, At, Frame
<1>4. ASSUME NEW s \in Sockets, SameTarget(s),
             s \in reading' \/ life'[s] = "closing" => data'[s] # p
      PROVE  SocketInv(s)'
  <2>1. CASE s \in reading' \/ life'[s] = "closing"
    <3>1. data'[s] = data[s] /\ data[s] # p /\ SocketInv(s)
      BY <1>4, <2>1 DEF SameTarget
    <3>2. data[s] \in Pipelines \ {p}
      BY <1>4, <2>1, <3>1 DEF SameTarget, SocketInv
    <3>3. Ops(data'[s])[pos'[data'[s]]] = Ops(data[s])[pos[data[s]]] /\ state'[data'[s]] = state[data[s]]
      BY <3>1, <3>2
    <3>4. QED
      BY <1>4, <3>1, <3>3 DEF SameTarget, SocketInv, At, op, sock
  <2>2. CASE ~(s \in reading' \/ life'[s] = "closing")
    BY <2>2 DEF SocketInv
  <2>3. QED
    BY <2>1, <2>2
<1>5. QED
  BY <1>1, <1>3, <1>4

(* A stage that ends leaves no pointer to its operation behind. *)
LEMMA StageEnds ==
  ASSUME IInv, NEW p \in Pipelines, state[p] # "done",
         NEW how \in {"value", "error", "stopped"}, EndStage(p, how),
         Frame(p), Unreferenced(p), \A s \in Sockets : SameTarget(s)
  PROVE  IInv'
<1>1. /\ state' \in [Pipelines -> {"new", "queued", "running", "pending", "done"}]
      /\ pos' \in [Pipelines -> Nat]
      /\ result' \in [Pipelines -> {"none", "value", "error", "stopped"}]
      /\ completions' \in [Pipelines -> Nat]
      /\ StageInv(p)' /\ state'[p] \in {"running", "done"}
      /\ \A q \in Pipelines \ {p} :
           state'[q] = state[q] /\ pos'[q] = pos[q] /\ completions'[q] = completions[q]
  BY EndStageEffect
<1>2. /\ \A q \in Pipelines \ {p} : StageInv(q)' /\ StopInv(q)'
      /\ \A s \in Sockets : SocketInv(s)'
  BY <1>1, OthersKeep DEF Unreferenced
<1>3. StopInv(p)'
  BY DEF Unreferenced, StopInv
<1>4. \A q \in Pipelines : StageInv(q)' /\ StopInv(q)'
  BY <1>1, <1>2, <1>3
<1>5. TypeOK'
  BY <1>1, <1>4 DEF TypeOK, Frame, StageInv, Live
<1>6. QED
  BY <1>2, <1>4, <1>5 DEF IInv, Frame

(* Pointers lead to operations that wait for just that. *)
LEMMA Targets ==
  ASSUME IInv, NEW p \in Pipelines
  PROVE  /\ ~At(p, "pending", Reads \cup Events) => p \notin callback \cup stopQueued
         /\ \A s \in Sockets : s \in reading /\ data[s] = p => At(p, "pending", Reads) /\ sock(p) = s
         /\ \A s \in Sockets : life[s] = "closing" /\ data[s] = p => At(p, "pending", {"close"}) /\ sock(p) = s
BY DEF IInv, StopInv, SocketInv

(* The end of a stage that nobody points to, with nothing else touched. *)
LEMMA QuietEnd ==
  ASSUME IInv, NEW p \in Pipelines, state[p] # "done",
         ~At(p, "pending", Reads \cup Events \cup {"close"}),
         NEW how \in {"value", "error", "stopped"}, EndStage(p, how),
         UNCHANGED <<stopVars, sockVars>>,
         resent' \in SUBSET Pipelines, resent' \subseteq EmptySends
  PROVE  IInv'
<1>1. Frame(p) /\ \A s \in Sockets : SameTarget(s)
  BY DEF IInv, TypeOK, Frame, SameTarget, stopVars, sockVars
<1>2. Unreferenced(p)
  BY Targets DEF Unreferenced, At, stopVars, sockVars
<1>3. QED
  BY <1>1, <1>2, StageEnds

(* A stage that begins to wait. *)
LEMMA StagePends ==
  ASSUME IInv, NEW p \in Pipelines, state[p] = "running", Pend(p), Frame(p),
         StopInv(p)', \A s \in Sockets : SocketInv(s)'
  PROVE  IInv'
<1>1. /\ state' = [state EXCEPT ![p] = "pending"] /\ pos' = pos
      /\ result' = result /\ completions' = completions
  BY DEF Pend, doneVars
<1>2. /\ state'[p] = "pending" /\ state' \in [Pipelines -> {"new", "queued", "running", "pending", "done"}]
      /\ \A q \in Pipelines \ {p} : state'[q] = state[q]
  BY <1>1 DEF IInv, TypeOK
<1>3. \A q \in Pipelines \ {p} : StageInv(q)' /\ StopInv(q)'
  BY <1>1, <1>2, OthersKeep
<1>4. StageInv(p)'
  BY <1>1, <1>2 DEF IInv, StageInv, Live
<1>5. TypeOK'
  BY <1>1, <1>2, <1>3, <1>4 DEF IInv, TypeOK, Frame, StageInv, Live
<1>6. QED
  BY <1>3, <1>4, <1>5 DEF IInv, Frame

(* Setup leaves p in the stop source or in the loop's list, and waiting. *)
LEMMA SetupEffect ==
  ASSUME IInv, NEW p \in Pipelines, state[p] = "running", Pend(p), Setup(p),
         op(p) \in Reads \cup Events
  PROVE  /\ callback' \in SUBSET Pipelines /\ Used' \in SUBSET Pipelines
         /\ stopQueued' \in SUBSET Pipelines
         /\ \A q \in Pipelines \ {p} :
              /\ q \in callback' => q \in callback
              /\ q \in stopQueued' => q \in stopQueued
              /\ q \in Used' <=> q \in Used
         /\ StopInv(p)'
<1>1. p \notin callback \cup stopQueued
  BY Targets DEF At
<1>2. At(p, "pending", Reads \cup Events)'
  BY DEF Pend, At, op, IInv, TypeOK
<1>3. QED
  BY <1>1, <1>2 DEF Setup, StopInv, IInv, TypeOK

(* The other chain cannot have a read or a close on a socket that p reads or closes. *)
LEMMA SocketIsFree ==
  ASSUME IInv, NEW p \in Pipelines, At(p, "running", Reads \cup {"close"})
  PROVE  sock(p) \in Sockets /\ sock(p) \notin reading /\ life[sock(p)] # "closing"
<1>1. pos[p] \in 1..Len(Ops(p)) /\ sock(p) \in Sockets
  BY Stages DEF IInv, StageInv, Live, At, op, sock
<1>2. ASSUME sock(p) \in reading \/ life[sock(p)] = "closing" PROVE FALSE
  <2>1. /\ data[sock(p)] \in Pipelines /\ At(data[sock(p)], "pending", Reads \cup {"close"})
        /\ sock(data[sock(p)]) = sock(p)
    BY <1>1, <1>2 DEF IInv, TypeOK, SocketInv, At
  <2> DEFINE q == data[sock(p)]
  <2>2. pos[q] \in 1..Len(Ops(q))
    BY <2>1 DEF IInv, StageInv, Live, At
  <2>3. p = q
    BY <1>1, <2>1, <2>2, OneReader DEF At, op, sock
  <2>4. QED
    BY <2>1, <2>3 DEF At
<1>3. QED
  BY <1>1, <1>2

-----------------------------------------------------------------------------
(* read_some, read_until, receive and receive_from. *)
LEMMA StartReadKeeps ==
  ASSUME IInv, NEW p \in Pipelines, At(p, "running", Reads), StartRead(p)
  PROVE  IInv'
<1>0. PICK s \in Sockets : s = sock(p)
  BY SocketIsFree DEF At
<1>1. s \in Sockets /\ s \notin reading /\ life[s] # "closing" /\ state[p] = "running"
  BY <1>0, SocketIsFree DEF At
<1>2. /\ data' = [data EXCEPT ![s] = p] /\ requested' = requested /\ resent' = resent /\ life' = life
      /\ data' \in [Sockets -> Pipelines \cup {NULL}]
  BY <1>0, <1>1 DEF StartRead, IInv, TypeOK
<1>3. CASE ReadStart(s) /\ Pend(p) /\ Setup(p)
  <2>1. life[s] = "open" /\ reading' = reading \cup {s}
    BY <1>3 DEF ReadStart
  <2>2. StopInv(p)' /\ Frame(p)
    BY <1>1, <1>2, <1>3, <2>1, SetupEffect DEF Frame, At, IInv, TypeOK
  <2>3. SocketInv(s)'
    <3>1. data'[s] = p /\ s \in reading' /\ life'[s] = "open" /\ state'[p] = "pending" /\ pos' = pos
      BY <1>1, <1>2, <1>3, <2>1 DEF Pend, IInv, TypeOK
    <3>2. p # NULL
      BY NullIsNoPipeline
    <3>3. QED
      BY <1>0, <3>1, <3>2 DEF SocketInv, At, op, sock
  <2>4. ASSUME NEW t \in Sockets \ {s} PROVE SocketInv(t)'
    <3>1. SameTarget(t) /\ (t \in reading' \/ life'[t] = "closing" => data'[t] # p)
      BY <1>1, <1>2, <2>1, <2>4, Targets DEF SameTarget, At, IInv, TypeOK
    <3>2. \A q \in Pipelines \ {p} :
             state'[q] = state[q] /\ pos'[q] = pos[q] /\ completions'[q] = completions[q]
      BY <1>3 DEF Pend, doneVars, IInv, TypeOK
    <3>3. QED
      BY <2>2, <3>1, <3>2, OthersKeep
  <2>5. \A t \in Sockets : SocketInv(t)'
    BY <2>3, <2>4
  <2>6. QED
    BY <1>1, <1>3, <2>2, <2>5, StagePends
<1>4. CASE EndStage(p, "error") /\ UNCHANGED <<reading, callback, Used, stopQueued>>
  <2>1. Frame(p)
    BY <1>2, <1>4 DEF Frame, IInv, TypeOK
  <2>2. \A t \in Sockets : SameTarget(t)
    BY <1>1, <1>2, <1>4 DEF SameTarget, IInv, TypeOK
  <2>3. Unreferenced(p)
    BY <1>1, <1>2, <1>4, Targets DEF Unreferenced, At, IInv, TypeOK
  <2>4. QED
    BY <1>1, <1>4, <2>1, <2>2, <2>3, StageEnds
<1>5. QED
  BY <1>0, <1>3, <1>4 DEF StartRead

(* A callback of libuv for a read, which data points to. *)
LEMMA CompleteReadKeeps ==
  ASSUME IInv, NEW s \in Sockets, s \in reading, NEW how \in {"value", "error"}, CompleteRead(s, how)
  PROVE  IInv'
<1> DEFINE p == data[s]
<1>1. p \in Pipelines /\ At(p, "pending", Reads) /\ sock(p) = s /\ p \notin Used
  BY DEF IInv, TypeOK, SocketInv, CompleteRead
<1>2. /\ Used' = Used \cup {p} /\ callback' = callback \ {p} /\ reading' = reading \ {s}
      /\ requested' = requested /\ stopQueued' = stopQueued /\ resent' = resent
      /\ data' = data /\ life' = life /\ EndStage(p, how)
  BY DEF CompleteRead, ReadStop
<1>3. p \notin stopQueued
  BY <1>1 DEF IInv, StopInv
<1>4. Frame(p) /\ \A t \in Sockets : SameTarget(t)
  BY <1>1, <1>2 DEF Frame, SameTarget, IInv, TypeOK
<1>5. Unreferenced(p)
  <2>1. ASSUME NEW t \in Sockets, t \in reading' \/ life'[t] = "closing" PROVE data'[t] # p
    BY <1>1, <1>2, <2>1, Targets DEF At, Reads
  <2>2. QED
    BY <1>2, <1>3, <2>1 DEF Unreferenced
<1>6. QED
  BY <1>1, <1>2, <1>4, <1>5, StageEnds DEF At

(* A pointer that stays where it is keeps its target when a stage begins to wait. *)
LEMMA QuietPend ==
  ASSUME IInv, NEW p \in Pipelines, state[p] = "running", Pend(p), Frame(p), StopInv(p)',
         UNCHANGED sockVars
  PROVE  IInv'
<1>1. \A s \in Sockets :
         SameTarget(s) /\ (s \in reading' \/ life'[s] = "closing" => data'[s] # p)
  BY Targets DEF SameTarget, At, sockVars
<1>2. \A q \in Pipelines \ {p} :
         state'[q] = state[q] /\ pos'[q] = pos[q] /\ completions'[q] = completions[q]
  BY DEF Pend, doneVars, IInv, TypeOK
<1>3. \A s \in Sockets : SocketInv(s)'
  BY <1>1, <1>2, OthersKeep
<1>4. QED
  BY <1>3, StagePends

(* write, send, send_to, connect and shutdown. *)
LEMMA StartRequestKeeps ==
  ASSUME IInv, NEW p \in Pipelines, At(p, "running", Requests), StartRequest(p)
  PROVE  IInv'
<1>1. state[p] = "running" /\ UNCHANGED <<stopVars, resent, sockVars>>
  BY DEF At, StartRequest
<1>2. CASE Pend(p)
  <2>1. Frame(p)
    BY <1>1 DEF Frame, IInv, TypeOK, stopVars, sockVars
  <2>2. StopInv(p)'
    BY <1>1, Targets DEF StopInv, At, stopVars
  <2>3. QED
    BY <1>1, <1>2, <2>1, <2>2, QuietPend
<1>3. CASE EndStage(p, "error")
  BY <1>1, <1>3, QuietEnd DEF At, IInv, TypeOK
<1>4. QED
  BY <1>2, <1>3 DEF StartRequest

(* The callback of a request, which nothing but libuv refers to. *)
LEMMA CompleteRequestKeeps ==
  ASSUME IInv, NEW p \in Pipelines, At(p, "pending", Requests), CompleteRequest(p)
  PROVE  IInv'
<1>1. PICK how \in {"value", "error"} : EndStage(p, how)
  BY DEF CompleteRequest
<1>2. ~At(p, "pending", Reads \cup Events \cup {"close"}) /\ state[p] # "done"
  BY DEF At, Reads, Requests, Events
<1>3. UNCHANGED <<stopVars, resent, sockVars>>
  BY DEF CompleteRequest
<1>4. QED
  BY <1>1, <1>2, <1>3, QuietEnd DEF IInv, TypeOK

(* close takes a data pointer that no read uses. *)
LEMMA CloseKeeps ==
  ASSUME IInv, NEW p \in Pipelines, Close(p)
  PROVE  IInv'
<1>0. PICK s \in Sockets : s = sock(p)
  BY SocketIsFree DEF Close, At
<1>1. s \in Sockets /\ s \notin reading /\ life[s] = "open" /\ state[p] = "running" /\ op(p) = "close"
  BY <1>0, SocketIsFree DEF Close, At
<1>2. /\ data' = [data EXCEPT ![s] = p] /\ life' = [life EXCEPT ![s] = "closing"]
      /\ reading' = reading \ {s} /\ Pend(p)
      /\ requested' = requested /\ callback' = callback /\ Used' = Used
      /\ stopQueued' = stopQueued /\ resent' = resent
  BY <1>0 DEF Close, ReadStop, stopVars
<1>3. Frame(p)
  BY <1>1, <1>2 DEF Frame, IInv, TypeOK
<1>4. StopInv(p)'
  BY <1>1, <1>2, Targets DEF StopInv, At
<1>5. SocketInv(s)'
  <2>1. data'[s] = p /\ s \notin reading' /\ life'[s] = "closing" /\ state'[p] = "pending" /\ pos' = pos
    BY <1>1, <1>2 DEF Pend, IInv, TypeOK
  <2>2. p # NULL
    BY NullIsNoPipeline
  <2>3. QED
    BY <1>0, <1>1, <2>1, <2>2 DEF SocketInv, At, op, sock
<1>6. ASSUME NEW t \in Sockets \ {s} PROVE SocketInv(t)'
  <2>1. SameTarget(t) /\ (t \in reading' \/ life'[t] = "closing" => data'[t] # p)
    BY <1>1, <1>2, <1>6, Targets DEF SameTarget, At, IInv, TypeOK
  <2>2. \A q \in Pipelines \ {p} :
           state'[q] = state[q] /\ pos'[q] = pos[q] /\ completions'[q] = completions[q]
    BY <1>2 DEF Pend, doneVars, IInv, TypeOK
  <2>3. QED
    BY <1>3, <2>1, <2>2, OthersKeep
<1>7. \A t \in Sockets : SocketInv(t)'
  BY <1>5, <1>6
<1>8. QED
  BY <1>1, <1>2, <1>3, <1>4, <1>7, StagePends

(* The callback of uv_close ends the stage that closed. *)
LEMMA CloseCallbackKeeps ==
  ASSUME IInv, NEW s \in Sockets, CloseCallback(s)
  PROVE  IInv'
<1> DEFINE p == data[s]
<1>1. p \in Pipelines /\ At(p, "pending", {"close"}) /\ sock(p) = s
  BY DEF IInv, TypeOK, SocketInv, CloseCallback
<1>2. /\ life' = [life EXCEPT ![s] = "closed"] /\ EndStage(p, "value")
      /\ requested' = requested /\ callback' = callback /\ Used' = Used
      /\ stopQueued' = stopQueued /\ resent' = resent /\ data' = data /\ reading' = reading
  BY DEF CloseCallback, stopVars
<1>3. s \notin reading
  BY DEF IInv, SocketInv, CloseCallback
<1>4. Frame(p) /\ \A t \in Sockets : SameTarget(t)
  BY <1>1, <1>2, <1>3 DEF Frame, SameTarget, IInv, TypeOK
<1>5. Unreferenced(p)
  <2>1. p \notin callback \cup stopQueued
    BY <1>1, Targets DEF At, Reads, Events
  <2>2. ASSUME NEW t \in Sockets, t \in reading' \/ life'[t] = "closing" PROVE data'[t] # p
    BY <1>1, <1>2, <1>3, <2>2, Targets DEF At, Reads, IInv, TypeOK
  <2>3. QED
    BY <1>2, <2>1, <2>2 DEF Unreferenced
<1>6. QED
  BY <1>1, <1>2, <1>4, <1>5, StageEnds DEF At

(* Timers, signals and accepts. *)
LEMMA StartEventKeeps ==
  ASSUME IInv, NEW p \in Pipelines, StartEvent(p)
  PROVE  IInv'
<1>1. /\ At(p, "running", Events) /\ state[p] = "running"
      /\ requested' = requested /\ resent' = resent /\ UNCHANGED sockVars
  BY DEF StartEvent, At
<1>2. CASE Pend(p) /\ Setup(p)
  <2>1. Frame(p) /\ StopInv(p)'
    BY <1>1, <1>2, SetupEffect DEF Frame, At, IInv, TypeOK, sockVars
  <2>2. QED
    BY <1>1, <1>2, <2>1, QuietPend
<1>3. CASE EndStage(p, "error") /\ UNCHANGED <<callback, Used, stopQueued>>
  <2>1. UNCHANGED stopVars
    BY <1>1, <1>3 DEF stopVars
  <2>2. QED
    BY <1>1, <1>3, <2>1, QuietEnd DEF At, IInv, TypeOK
<1>4. QED
  BY <1>2, <1>3 DEF StartEvent

(* The event of a timer, signal or accept. *)
LEMMA EventCallbackKeeps ==
  ASSUME IInv, NEW p \in Pipelines, EventCallback(p)
  PROVE  IInv'
<1>1. /\ At(p, "pending", Events) /\ p \notin Used
      /\ Used' = Used \cup {p} /\ callback' = callback \ {p} /\ requested' = requested
      /\ stopQueued' = stopQueued /\ resent' = resent
      /\ data' = data /\ reading' = reading /\ life' = life
  BY DEF EventCallback, sockVars
<1>2. PICK how \in {"value", "error"} : EndStage(p, how)
  BY DEF EventCallback
<1>3. Frame(p) /\ \A t \in Sockets : SameTarget(t)
  BY <1>1 DEF Frame, SameTarget, IInv, TypeOK
<1>4. Unreferenced(p)
  <2>1. p \notin stopQueued
    BY <1>1 DEF IInv, StopInv
  <2>2. \A t \in Sockets : t \in reading \/ life[t] = "closing" => data[t] # p
    BY <1>1, Targets DEF At, Reads, Events
  <2>3. QED
    BY <1>1, <2>1, <2>2 DEF Unreferenced
<1>5. QED
  BY <1>1, <1>2, <1>3, <1>4, StageEnds DEF At

(* The stop that was queued stops the polling of a read. *)
LEMMA ApplyStopKeeps ==
  ASSUME IInv, NEW p \in Pipelines, ApplyStop(p)
  PROVE  IInv'
<1>1. /\ p \in stopQueued /\ stopQueued' = stopQueued \ {p}
      /\ requested' = requested /\ callback' = callback /\ Used' = Used /\ resent' = resent
      /\ data' = data /\ life' = life /\ EndStage(p, "stopped")
      /\ reading' = IF op(p) \in Reads THEN reading \ {sock(p)} ELSE reading
  BY DEF ApplyStop, ReadStop
<1>2. At(p, "pending", Reads \cup Events) /\ p \in Used /\ p \notin callback
  BY <1>1 DEF IInv, StopInv
<1>3. Frame(p) /\ \A t \in Sockets : SameTarget(t)
  BY <1>1 DEF Frame, SameTarget, IInv, TypeOK
<1>4. Unreferenced(p)
  <2>1. ASSUME NEW t \in Sockets, t \in reading' PROVE data'[t] # p
    BY <1>1, <1>2, <2>1, Targets DEF At
  <2>2. ASSUME NEW t \in Sockets, life'[t] = "closing" PROVE data'[t] # p
    BY <1>1, <1>2, <2>2, Targets DEF At, Reads, Events
  <2>3. QED
    BY <1>1, <1>2, <2>1, <2>2 DEF Unreferenced
<1>5. QED
  BY <1>1, <1>2, <1>3, <1>4, StageEnds DEF At

-----------------------------------------------------------------------------
(* A value of just or of schedule, a refusal of connect on a datagram socket, an empty send. *)
LEMMA QuietStepKeeps ==
  ASSUME IInv, NEW p \in Pipelines,
         StartJust(p) \/ ApplySchedule(p) \/ ConnectSocket(p) \/ SendEmpty(p)
  PROVE  IInv'
<1>1. CASE StartJust(p)
  <2>1. /\ state[p] = "new" /\ EndStage(p, "value") /\ UNCHANGED <<stopVars, sockVars>>
        /\ resent' = resent
    BY <1>1 DEF StartJust
  <2>2. QED
    BY <2>1, QuietEnd DEF At, IInv, TypeOK
<1>2. CASE ApplySchedule(p)
  <2>1. PICK how \in {"value", "stopped"} : EndStage(p, how)
    BY <1>2 DEF ApplySchedule
  <2>2. state[p] = "queued" /\ UNCHANGED <<stopVars, sockVars>> /\ resent' = resent
    BY <1>2 DEF ApplySchedule
  <2>3. QED
    BY <2>1, <2>2, QuietEnd DEF At, IInv, TypeOK
<1>3. CASE ConnectSocket(p)
  <2>1. At(p, "running", Requests)
    BY <1>3 DEF ConnectSocket, At, Requests
  <2>2. CASE StartRequest(p)
    BY <2>1, <2>2, StartRequestKeeps
  <2>3. CASE /\ \E how \in {"value", "error"} : EndStage(p, how)
             /\ UNCHANGED <<stopVars, resent, sockVars>>
    BY <2>1, <2>3, QuietEnd DEF At, IInv, TypeOK
  <2>4. QED
    BY <1>3, <2>2, <2>3 DEF ConnectSocket
<1>4. CASE SendEmpty(p)
  <2>1. /\ state[p] = "running" /\ p \in EmptySends /\ EndStage(p, "value")
        /\ resent' = resent \cup {p} /\ UNCHANGED <<stopVars, sockVars>>
    BY <1>4 DEF SendEmpty, At, IsEmpty
  <2>2. resent' \in SUBSET Pipelines /\ resent' \subseteq EmptySends
    BY <2>1 DEF IInv, TypeOK
  <2>3. QED
    BY <2>1, <2>2, QuietEnd DEF At
<1>5. QED
  BY <1>1, <1>2, <1>3, <1>4

(* The start of a scheduled chain, a stop request and the second end of an empty send. *)
LEMMA OutsideStepKeeps ==
  ASSUME IInv, NEW p \in Pipelines, StartScheduled(p) \/ RequestStop(p) \/ SendEmptyAgain(p)
  PROVE  IInv'
<1> USE DEF IInv, TypeOK
<1>1. CASE StartScheduled(p)
  <2>1. /\ state' = [state EXCEPT ![p] = "queued"] /\ state[p] = "new" /\ pos' = pos
        /\ UNCHANGED <<stopVars, resent, doneVars, sockVars>>
    BY <1>1 DEF StartScheduled
  <2>2. state'[p] = "queued" /\ \A q \in Pipelines \ {p} : state'[q] = state[q]
    BY <2>1
  <2>3. Frame(p) /\ \A s \in Sockets : SameTarget(s) /\ (s \in reading' \/ life'[s] = "closing" => data'[s] # p)
    BY <2>1, Targets DEF Frame, SameTarget, At, stopVars, sockVars
  <2>4. /\ \A q \in Pipelines \ {p} : StageInv(q)' /\ StopInv(q)'
        /\ \A s \in Sockets : SocketInv(s)'
    BY <2>1, <2>2, <2>3, OthersKeep DEF doneVars
  <2>5. StageInv(p)' /\ StopInv(p)'
    BY <2>1, <2>2, Targets DEF StageInv, StopInv, Live, At, stopVars, doneVars
  <2>6. \A q \in Pipelines : StageInv(q)' /\ StopInv(q)'
    BY <2>4, <2>5
  <2>7. TypeOK'
    BY <2>1, <2>2, <2>6 DEF StageInv, Live, stopVars, doneVars, sockVars
  <2>8. QED
    BY <2>1, <2>4, <2>6, <2>7
<1>2. CASE RequestStop(p)
  <2>1. /\ requested' \in SUBSET Pipelines /\ callback' = callback \ {p}
        /\ Used' = (IF p \in callback THEN Used \cup {p} ELSE Used)
        /\ stopQueued' = (IF p \in callback THEN stopQueued \cup {p} ELSE stopQueued)
        /\ state' = state /\ pos' = pos /\ resent' = resent /\ UNCHANGED <<doneVars, sockVars>>
    BY <1>2 DEF RequestStop
  <2>2. ASSUME NEW q \in Pipelines PROVE StopInv(q)' /\ StageInv(q)'
    BY <2>1, <2>2 DEF StopInv, StageInv, Live, At, op, doneVars
  <2>3. ASSUME NEW s \in Sockets PROVE SocketInv(s)'
    BY <2>1, <2>3 DEF SocketInv, At, op, sock, sockVars
  <2>4. TypeOK'
    BY <2>1 DEF doneVars, sockVars
  <2>5. QED
    BY <2>1, <2>2, <2>3, <2>4
<1>3. CASE SendEmptyAgain(p)
  <2>1. /\ p \in EmptySends /\ resent' = resent \ {p}
        /\ completions' = [completions EXCEPT ![p] = @ + 1]
        /\ UNCHANGED <<state, pos, stopVars, result, sockVars>>
    BY <1>3 DEF SendEmptyAgain
  <2>2. ASSUME NEW q \in Pipelines PROVE StopInv(q)' /\ StageInv(q)'
    BY <2>1, <2>2 DEF StopInv, StageInv, Live, At, op, stopVars
  <2>3. ASSUME NEW s \in Sockets PROVE SocketInv(s)'
    BY <2>1, <2>3 DEF SocketInv, At, op, sock, sockVars
  <2>4. TypeOK'
    BY <2>1 DEF stopVars, sockVars
  <2>5. QED
    BY <2>1, <2>2, <2>3, <2>4
<1>4. QED
  BY <1>1, <1>2, <1>3

(* The four reads hear from libuv. *)
LEMMA ReadCallbackKeeps ==
  ASSUME IInv, NEW s \in Sockets, ReadCallback(s)
  PROVE  IInv'
<1>1. CASE ReadSomeCallback(s)
  BY <1>1, CompleteReadKeeps DEF ReadSomeCallback, Polled
<1>2. CASE ReadUntilCallback(s)
  <2>1. PICK nrd \in {"data", "eof", "error"} : CompleteRead(s, IF nrd = "error" THEN "error" ELSE "value")
    BY <1>2 DEF ReadUntilCallback
  <2>2. s \in reading
    BY <1>2 DEF ReadUntilCallback, Polled
  <2>3. QED
    BY <2>1, <2>2, CompleteReadKeeps
<1>3. CASE ReceiveCallback(s)
  BY <1>3, CompleteReadKeeps DEF ReceiveCallback, Polled
<1>4. CASE ReceiveFromCallback(s)
  BY <1>4, CompleteReadKeeps DEF ReceiveFromCallback, Polled, CopyAddress
<1>5. QED
  BY <1>1, <1>2, <1>3, <1>4 DEF ReadCallback

(* The inductive invariant of chains of any length. *)
THEOREM PipelineInvariant == Spec => []IInv
<1>1. Init => IInv
  <2> SUFFICES ASSUME Init PROVE IInv
    OBVIOUS
  <2>1. TypeOK
    BY DEF Init, TypeOK
  <2>2. ASSUME NEW p \in Pipelines PROVE StageInv(p) /\ StopInv(p)
    BY <2>2 DEF Init, StageInv, StopInv, Live
  <2>3. ASSUME NEW s \in Sockets PROVE SocketInv(s)
    BY <2>3 DEF Init, SocketInv
  <2>4. resent \subseteq EmptySends
    BY DEF Init
  <2>5. QED
    BY <2>1, <2>2, <2>3, <2>4 DEF IInv
<1>2. ASSUME IInv, [Next]_vars PROVE IInv'
  <2>1. ASSUME NEW p \in Pipelines, SetValue(p) PROVE IInv'
    <3>1. CASE ReadSome(p) \/ ReadUntil(p) \/ Receive(p) \/ ReceiveFrom(p)
      <4>1. At(p, "running", Reads) /\ StartRead(p)
        BY <3>1 DEF ReadSome, ReadUntil, Receive, ReceiveFrom, At, Reads
      <4>2. QED
        BY <1>2, <4>1, StartReadKeeps
    <3>2. CASE Write(p) \/ Send(p) \/ SendTo(p) \/ Shutdown(p)
      <4>1. At(p, "running", Requests) /\ StartRequest(p)
        BY <3>2 DEF Write, Send, SendTo, Shutdown, At, Requests
      <4>2. QED
        BY <1>2, <4>1, StartRequestKeeps
    <3>3. CASE ConnectSocket(p) \/ SendEmpty(p)
      BY <1>2, <3>3, QuietStepKeeps
    <3>4. CASE Close(p)
      BY <1>2, <3>4, CloseKeeps
    <3>5. CASE StartEvent(p)
      BY <1>2, <3>5, StartEventKeeps
    <3>6. QED
      BY <2>1, <3>1, <3>2, <3>3, <3>4, <3>5 DEF SetValue
  <2>2. ASSUME NEW p \in Pipelines, RequestCallback(p) PROVE IInv'
    <3>1. At(p, "pending", Requests) /\ CompleteRequest(p)
      BY <2>2 DEF RequestCallback, WriteCallback, SendCallback, SendToCallback, ConnectCallback,
                  ShutdownCallback, At, Requests
    <3>2. QED
      BY <1>2, <3>1, CompleteRequestKeeps
  <2>3. ASSUME NEW p \in Pipelines, StartJust(p) \/ ApplySchedule(p) PROVE IInv'
    BY <1>2, <2>3, QuietStepKeeps
  <2>4. ASSUME NEW p \in Pipelines, StartScheduled(p) \/ RequestStop(p) \/ SendEmptyAgain(p) PROVE IInv'
    BY <1>2, <2>4, OutsideStepKeeps
  <2>5. ASSUME NEW p \in Pipelines, EventCallback(p) PROVE IInv'
    BY <1>2, <2>5, EventCallbackKeeps
  <2>6. ASSUME NEW p \in Pipelines, ApplyStop(p) PROVE IInv'
    BY <1>2, <2>6, ApplyStopKeeps
  <2>7. ASSUME NEW s \in Sockets, ReadCallback(s) PROVE IInv'
    BY <1>2, <2>7, ReadCallbackKeeps
  <2>8. ASSUME NEW s \in Sockets, CloseCallback(s) PROVE IInv'
    BY <1>2, <2>8, CloseCallbackKeeps
  <2>9. CASE UNCHANGED vars
    <3> USE DEF vars, stopVars, doneVars, sockVars
    <3>1. ASSUME NEW p \in Pipelines PROVE StageInv(p)' /\ StopInv(p)'
      BY <1>2, <2>9, <3>1 DEF IInv, StageInv, StopInv, Live, At, op
    <3>2. ASSUME NEW s \in Sockets PROVE SocketInv(s)'
      BY <1>2, <2>9, <3>2 DEF IInv, SocketInv, At, op, sock
    <3>3. TypeOK' /\ resent' \subseteq EmptySends
      BY <1>2, <2>9 DEF IInv, TypeOK
    <3>4. QED
      BY <3>1, <3>2, <3>3 DEF IInv
  <2>10. QED
    BY <1>2, <2>1, <2>2, <2>3, <2>4, <2>5, <2>6, <2>7, <2>8, <2>9 DEF Next
<1>3. QED
  BY <1>1, <1>2, PTL DEF Spec

(* A chain never runs a stage it does not have. *)
THEOREM TypeCorrect == Spec => []TypeOK
<1>1. IInv => TypeOK
  BY DEF IInv
<1>2. QED
  BY <1>1, PipelineInvariant, PTL

(***************************************************************************)
(* The handle's data, the stop sources and the loop's list lead callbacks  *)
(* to the operation that waits for them, and to no stage that has ended.   *)
(***************************************************************************)
THEOREM PointersAreSound == Spec => []CallbackFindsItsOperation
<1>1. IInv => CallbackFindsItsOperation
  <2> SUFFICES ASSUME IInv PROVE CallbackFindsItsOperation
    OBVIOUS
  <2>1. \A s \in reading : data[s] # NULL /\ At(data[s], "pending", Reads) /\ sock(data[s]) = s
    BY DEF IInv, TypeOK, SocketInv
  <2>2. \A s \in Sockets : life[s] = "closing" =>
          data[s] # NULL /\ At(data[s], "pending", {"close"}) /\ sock(data[s]) = s
    BY DEF IInv, SocketInv
  <2>3. \A p \in callback \cup stopQueued : At(p, "pending", Reads \cup Events)
    BY DEF IInv, TypeOK, StopInv
  <2>4. QED
    BY <2>1, <2>2, <2>3 DEF CallbackFindsItsOperation
<1>2. QED
  BY <1>1, PipelineInvariant, PTL

(* A chain without an empty datagram completes its receiver once. *)
THEOREM OneCompletion == Spec => []CompletesOnce
<1>1. IInv => CompletesOnce
  BY DEF IInv, StageInv, CompletesOnce
<1>2. QED
  BY <1>1, PipelineInvariant, PTL

-----------------------------------------------------------------------------
(***************************************************************************)
(* Who may complete how: an error comes from a stage other than close, a   *)
(* stop from schedule or from a stage that can be stopped.                 *)
(***************************************************************************)
MayFail(p) == \E i \in 1..Len(Ops(p)) : Ops(p)[i].op # "close"
MayStop(p) ==
  First[p].domain = "loop" \/ \E i \in 1..Len(Ops(p)) : Ops(p)[i].op \in Reads \cup Events

ResultInv(p) ==
  /\ state[p] = "queued" => First[p].domain = "loop"
  /\ result[p] = "error" => MayFail(p)
  /\ result[p] = "stopped" => MayStop(p)

(* A stage that ends as it may. *)
LEMMA EndsAsItMay ==
  ASSUME IInv, \A q \in Pipelines : ResultInv(q), NEW p \in Pipelines, state[p] # "done",
         NEW how \in {"value", "error", "stopped"}, EndStage(p, how),
         how = "error" => MayFail(p), how = "stopped" => MayStop(p)
  PROVE  \A q \in Pipelines : ResultInv(q)'
<1> SUFFICES ASSUME NEW q \in Pipelines PROVE ResultInv(q)'
  OBVIOUS
<1>1. (MayFail(q)' <=> MayFail(q)) /\ (MayStop(q)' <=> MayStop(q))
  BY DEF MayFail, MayStop
<1>2. state'[p] \in {"running", "done"} /\ (q # p => state'[q] = state[q])
  BY EndStageEffect
<1>3. result'[q] = result[q] \/ (q = p /\ result'[q] = how)
  BY DEF EndStage, doneVars, IInv, TypeOK
<1>4. QED
  BY <1>1, <1>2, <1>3 DEF ResultInv

(* A step that completes no chain and queues none. *)
LEMMA NothingEnds ==
  ASSUME \A q \in Pipelines : ResultInv(q), result' = result,
         \A q \in Pipelines : state'[q] = "queued" => state[q] = "queued"
  PROVE  \A q \in Pipelines : ResultInv(q)'
BY DEF ResultInv, MayFail, MayStop

(* The stage that a chain is at shows how it may end. *)
LEMMA StageMay ==
  ASSUME IInv, NEW p \in Pipelines, Live(p)
  PROVE  /\ op(p) # "close" => MayFail(p)
         /\ op(p) \in Reads \cup Events => MayStop(p)
<1>1. pos[p] \in 1..Len(Ops(p))
  BY DEF IInv, StageInv
<1>2. QED
  BY <1>1 DEF MayFail, MayStop, op

(* A stage that begins to wait completes nothing. *)
LEMMA PendQueuesNone ==
  ASSUME IInv, NEW p \in Pipelines, Pend(p)
  PROVE  result' = result /\ \A q \in Pipelines : state'[q] = "queued" => state[q] = "queued"
BY DEF Pend, doneVars, IInv, TypeOK

(* Each step completes a chain only in a way that its stage may. *)
LEMMA StepEndsAsItMay ==
  ASSUME IInv, \A q \in Pipelines : ResultInv(q), Next
  PROVE  \A q \in Pipelines : ResultInv(q)'
<1>1. ASSUME NEW p \in Pipelines, SetValue(p) PROVE \A q \in Pipelines : ResultInv(q)'
  <2>1. state[p] = "running" /\ Live(p)
    BY <1>1 DEF SetValue, ReadSome, ReadUntil, Receive, ReceiveFrom, Write, Send, SendEmpty, SendTo,
                ConnectSocket, Shutdown, Close, StartEvent, At, Live
  <2>2. CASE Pend(p)
    BY <2>2, PendQueuesNone, NothingEnds
  <2>3. CASE EndStage(p, "error") /\ op(p) # "close"
    BY <2>1, <2>3, StageMay, EndsAsItMay
  <2>4. CASE EndStage(p, "value")
    BY <2>1, <2>4, EndsAsItMay
  <2>5. Pend(p) \/ (EndStage(p, "error") /\ op(p) # "close") \/ EndStage(p, "value")
    BY <1>1 DEF SetValue, ReadSome, ReadUntil, Receive, ReceiveFrom, Write, Send, SendEmpty, SendTo,
                ConnectSocket, Shutdown, Close, StartEvent, StartRead, StartRequest, At, Events
  <2>6. QED
    BY <2>2, <2>3, <2>4, <2>5
<1>2. ASSUME NEW p \in Pipelines, RequestCallback(p) \/ EventCallback(p)
      PROVE  \A q \in Pipelines : ResultInv(q)'
  <2>1. state[p] = "pending" /\ Live(p) /\ op(p) # "close"
    BY <1>2 DEF RequestCallback, WriteCallback, SendCallback, SendToCallback, ConnectCallback,
                ShutdownCallback, EventCallback, At, Events, Live
  <2>2. PICK how \in {"value", "error"} : EndStage(p, how)
    BY <1>2 DEF RequestCallback, WriteCallback, SendCallback, SendToCallback, ConnectCallback,
                ShutdownCallback, EventCallback, CompleteRequest
  <2>3. QED
    BY <2>1, <2>2, StageMay, EndsAsItMay
<1>3. ASSUME NEW p \in Pipelines, ApplyStop(p) PROVE \A q \in Pipelines : ResultInv(q)'
  <2>1. state[p] = "pending" /\ Live(p) /\ op(p) \in Reads \cup Events /\ EndStage(p, "stopped")
    BY <1>3 DEF ApplyStop, IInv, StopInv, At, Live
  <2>2. QED
    BY <2>1, StageMay, EndsAsItMay
<1>4. ASSUME NEW p \in Pipelines, StartJust(p) \/ ApplySchedule(p)
      PROVE  \A q \in Pipelines : ResultInv(q)'
  <2>1. CASE StartJust(p)
    BY <2>1, EndsAsItMay DEF StartJust
  <2>2. CASE ApplySchedule(p)
    <3>1. PICK how \in {"value", "stopped"} : EndStage(p, how)
      BY <2>2 DEF ApplySchedule
    <3>2. state[p] # "done" /\ MayStop(p)
      BY <2>2 DEF ApplySchedule, ResultInv, MayStop
    <3>3. QED
      BY <3>1, <3>2, EndsAsItMay
  <2>3. QED
    BY <1>4, <2>1, <2>2
<1>5. ASSUME NEW p \in Pipelines, StartScheduled(p) PROVE \A q \in Pipelines : ResultInv(q)'
  <2>1. result' = result /\ First[p].domain = "loop" /\ \A q \in Pipelines : q # p => state'[q] = state[q]
    BY <1>5 DEF StartScheduled, doneVars, IInv, TypeOK
  <2>2. QED
    BY <2>1 DEF ResultInv, MayFail, MayStop
<1>6. ASSUME NEW p \in Pipelines, RequestStop(p) \/ SendEmptyAgain(p)
      PROVE  \A q \in Pipelines : ResultInv(q)'
  BY <1>6, NothingEnds DEF RequestStop, SendEmptyAgain, doneVars
<1>7. ASSUME NEW s \in Sockets, ReadCallback(s) PROVE \A q \in Pipelines : ResultInv(q)'
  <2>1. PICK how \in {"value", "error"} : CompleteRead(s, how)
    BY <1>7 DEF ReadCallback, ReadSomeCallback, ReadUntilCallback, ReceiveCallback,
                ReceiveFromCallback, CopyAddress
  <2>2. s \in reading
    BY <1>7 DEF ReadCallback, ReadSomeCallback, ReadUntilCallback, ReceiveCallback,
                ReceiveFromCallback, Polled
  <2>3. PICK p \in Pipelines : p = data[s] /\ At(p, "pending", Reads)
    BY <2>2 DEF IInv, TypeOK, SocketInv
  <2>4. EndStage(p, how) /\ state[p] = "pending" /\ Live(p) /\ op(p) # "close"
    BY <2>1, <2>3 DEF CompleteRead, At, Live, Reads
  <2>5. QED
    BY <2>4, StageMay, EndsAsItMay
<1>8. ASSUME NEW s \in Sockets, CloseCallback(s) PROVE \A q \in Pipelines : ResultInv(q)'
  <2>1. PICK p \in Pipelines : p = data[s] /\ At(p, "pending", {"close"})
    BY <1>8 DEF CloseCallback, IInv, TypeOK, SocketInv
  <2>2. EndStage(p, "value") /\ state[p] # "done"
    BY <1>8, <2>1 DEF CloseCallback, At
  <2>3. QED
    BY <2>2, EndsAsItMay
<1>9. QED
  BY <1>1, <1>2, <1>3, <1>4, <1>5, <1>6, <1>7, <1>8 DEF Next

(***************************************************************************)
(* A chain of any length delivers only what its senders declare, and, but  *)
(* for its errors, what its packages declared before it was connected.     *)
(***************************************************************************)
THEOREM DeliversAsDeclared == Spec => []DeclaredCompletion
<1> DEFINE Results == \A q \in Pipelines : ResultInv(q)
<1>1. Init => Results
  BY DEF Init, ResultInv
<1>2. ASSUME IInv, Results, [Next]_vars PROVE Results'
  <2>1. CASE Next
    BY <1>2, <2>1, StepEndsAsItMay
  <2>2. CASE UNCHANGED vars
    BY <1>2, <2>2, NothingEnds DEF vars, doneVars
  <2>3. QED
    BY <1>2, <2>1, <2>2
<1>3. Results => DeclaredCompletion
  <2> SUFFICES ASSUME Results, NEW p \in Pipelines
               PROVE  /\ result[p] = "error" => "error" \in Declared(p)
                      /\ result[p] = "stopped" => "stopped" \in Declared(p) \cap Packaged[p]
                      /\ \A sigs \in {Declared(p), Packaged[p]} :
                           sigs \cap {"void", "size"} = Gives(Ops(p)[Len(Ops(p))].op)
    BY DEF DeclaredCompletion, Gives
  <2>1. ResultInv(p)
    OBVIOUS
  <2>2. ASSUME MayFail(p) PROVE "error" \in Declared(p)
    <3>1. PICK i \in 1..Len(Ops(p)) : Ops(p)[i].op # "close"
      BY <2>2 DEF MayFail
    <3>2. "error" \in Adds(Ops(p)[i].op)
      BY <3>1 DEF Adds
    <3>3. QED
      BY <3>2, Signatures
  <2>3. ASSUME MayStop(p) PROVE "stopped" \in Declared(p)
    <3>1. CASE First[p].domain = "loop"
      BY <3>1, Signatures
    <3>2. CASE \E i \in 1..Len(Ops(p)) : Ops(p)[i].op \in Reads \cup Events
      <4>1. PICK i \in 1..Len(Ops(p)) : Ops(p)[i].op \in Reads \cup Events
        BY <3>2
      <4>2. "stopped" \in Adds(Ops(p)[i].op)
        BY <4>1 DEF Adds, Reads, Requests, Events
      <4>3. QED
        BY <4>2, Signatures
    <3>3. QED
      BY <2>3, <3>1, <3>2 DEF MayStop
  <2>4. /\ Declared(p) \cap {"void", "size"} = Gives(Ops(p)[Len(Ops(p))].op)
        /\ Packaged[p] \ {"error"} = Declared(p) \ {"error"}
    BY Signatures
  <2>5. QED
    BY <2>1, <2>2, <2>3, <2>4 DEF ResultInv
<1>4. QED
  BY <1>1, <1>2, <1>3, PipelineInvariant, PTL DEF Spec

-----------------------------------------------------------------------------
(***************************************************************************)
(* No stop request is lost: a read, timer, signal or accept that waits has *)
(* its callback in the stop source until stop is requested, and from then  *)
(* on its stop operation in the loop's list.  This is what lets a stop end *)
(* every wait, whichever way Setup and the request met.                    *)
(***************************************************************************)
Heard(p) ==
  At(p, "pending", Reads \cup Events) => IF p \in requested THEN p \in stopQueued ELSE p \in callback

StopIsHeard == \A p \in Pipelines : Heard(p)

(* A step that is nothing to chain q. *)
Aside(q) ==
  /\ state'[q] = state[q] /\ pos'[q] = pos[q]
  /\ q \in requested' <=> q \in requested
  /\ q \in callback' <=> q \in callback
  /\ q \in stopQueued' <=> q \in stopQueued

(* What is nothing to a chain does not lose its stop. *)
LEMMA AsideKeepsHeard ==
  ASSUME NEW q \in Pipelines, Heard(q), Aside(q)
  PROVE  Heard(q)'
BY DEF Heard, Aside, At, op

(* A stage that ends does not wait any more. *)
LEMMA EndIsHeard ==
  ASSUME IInv, StopIsHeard, NEW p \in Pipelines, state[p] # "done",
         NEW how \in {"value", "error", "stopped"}, EndStage(p, how), requested' = requested,
         \A q \in Pipelines \ {p} : (q \in callback' <=> q \in callback) /\ (q \in stopQueued' <=> q \in stopQueued)
  PROVE  StopIsHeard'
<1>1. /\ state'[p] \in {"running", "done"}
      /\ \A q \in Pipelines \ {p} : state'[q] = state[q] /\ pos'[q] = pos[q]
  BY EndStageEffect
<1>2. Heard(p)'
  BY <1>1 DEF Heard, At
<1>3. ASSUME NEW q \in Pipelines \ {p} PROVE Heard(q)'
  BY <1>1, <1>3, AsideKeepsHeard DEF Aside, StopIsHeard
<1>4. QED
  BY <1>2, <1>3 DEF StopIsHeard

(* A stage that begins to wait has been set up, or cannot be stopped. *)
LEMMA PendIsHeard ==
  ASSUME IInv, StopIsHeard, NEW p \in Pipelines, Pend(p), requested' = requested,
         Setup(p) \/ (op(p) \notin Reads \cup Events /\ callback' = callback /\ stopQueued' = stopQueued)
  PROVE  StopIsHeard'
<1>1. state' = [state EXCEPT ![p] = "pending"] /\ pos' = pos
  BY DEF Pend
<1>2. Heard(p)'
  BY <1>1 DEF Heard, Setup, At, op
<1>3. ASSUME NEW q \in Pipelines \ {p} PROVE Heard(q)'
  <2>1. Aside(q)
    BY <1>1, <1>3 DEF Aside, Setup, IInv, TypeOK
  <2>2. QED
    BY <1>3, <2>1, AsideKeepsHeard DEF StopIsHeard
<1>4. QED
  BY <1>2, <1>3 DEF StopIsHeard

(* No step loses the stop of a stage that waits. *)
LEMMA StepIsHeard ==
  ASSUME IInv, StopIsHeard, Next
  PROVE  StopIsHeard'
<1>1. ASSUME NEW p \in Pipelines, ReadSome(p) \/ ReadUntil(p) \/ Receive(p) \/ ReceiveFrom(p) \/ StartEvent(p)
      PROVE  StopIsHeard'
  <2>1. state[p] = "running" /\ requested' = requested
    BY <1>1 DEF ReadSome, ReadUntil, Receive, ReceiveFrom, StartRead, StartEvent, At
  <2>2. \/ Pend(p) /\ Setup(p)
        \/ EndStage(p, "error") /\ callback' = callback /\ stopQueued' = stopQueued
    BY <1>1 DEF ReadSome, ReadUntil, Receive, ReceiveFrom, StartRead, StartEvent
  <2>3. QED
    BY <2>1, <2>2, PendIsHeard, EndIsHeard
<1>2. ASSUME NEW p \in Pipelines,
             Write(p) \/ Send(p) \/ SendEmpty(p) \/ SendTo(p) \/ ConnectSocket(p) \/ Shutdown(p) \/ Close(p)
      PROVE  StopIsHeard'
  <2>1. /\ state[p] = "running" /\ op(p) \notin Reads \cup Events
        /\ requested' = requested /\ callback' = callback /\ stopQueued' = stopQueued
    BY <1>2 DEF Write, Send, SendEmpty, SendTo, ConnectSocket, Shutdown, Close, StartRequest, At, Reads, Events,
                stopVars
  <2>2. Pend(p) \/ EndStage(p, "error") \/ EndStage(p, "value")
    BY <1>2 DEF Write, Send, SendEmpty, SendTo, ConnectSocket, Shutdown, Close, StartRequest
  <2>3. QED
    BY <2>1, <2>2, PendIsHeard, EndIsHeard
<1>3. ASSUME NEW p \in Pipelines, RequestCallback(p) \/ EventCallback(p) PROVE StopIsHeard'
  <2>1. /\ state[p] = "pending" /\ requested' = requested /\ stopQueued' = stopQueued
        /\ callback' \in {callback, callback \ {p}}
    BY <1>3 DEF RequestCallback, WriteCallback, SendCallback, SendToCallback, ConnectCallback,
                ShutdownCallback, EventCallback, CompleteRequest, At, stopVars
  <2>2. PICK how \in {"value", "error"} : EndStage(p, how)
    BY <1>3 DEF RequestCallback, WriteCallback, SendCallback, SendToCallback, ConnectCallback,
                ShutdownCallback, EventCallback, CompleteRequest
  <2>3. QED
    BY <2>1, <2>2, EndIsHeard
<1>4. ASSUME NEW p \in Pipelines, ApplyStop(p) PROVE StopIsHeard'
  <2>1. /\ state[p] = "pending" /\ EndStage(p, "stopped") /\ requested' = requested
        /\ callback' = callback /\ stopQueued' = stopQueued \ {p}
    BY <1>4 DEF ApplyStop, IInv, StopInv, At
  <2>2. QED
    BY <2>1, EndIsHeard
<1>5. ASSUME NEW p \in Pipelines, StartJust(p) \/ ApplySchedule(p) PROVE StopIsHeard'
  <2>1. PICK how \in {"value", "stopped"} : EndStage(p, how)
    BY <1>5 DEF StartJust, ApplySchedule
  <2>2. state[p] # "done" /\ requested' = requested /\ callback' = callback /\ stopQueued' = stopQueued
    BY <1>5 DEF StartJust, ApplySchedule, stopVars
  <2>3. QED
    BY <2>1, <2>2, EndIsHeard
<1>6. ASSUME NEW p \in Pipelines, StartScheduled(p) PROVE StopIsHeard'
  <2>1. /\ state' = [state EXCEPT ![p] = "queued"] /\ pos' = pos
        /\ requested' = requested /\ callback' = callback /\ stopQueued' = stopQueued
    BY <1>6 DEF StartScheduled, stopVars
  <2>2. ASSUME NEW q \in Pipelines PROVE Heard(q)'
    BY <2>1, <2>2 DEF Heard, At, op, StopIsHeard, IInv, TypeOK
  <2>3. QED
    BY <2>2 DEF StopIsHeard
<1>7. ASSUME NEW p \in Pipelines, RequestStop(p) PROVE StopIsHeard'
  <2>1. /\ state' = state /\ pos' = pos /\ p \notin requested
        /\ requested' = requested \cup {p} /\ callback' = callback \ {p}
        /\ stopQueued' = IF p \in callback THEN stopQueued \cup {p} ELSE stopQueued
    BY <1>7 DEF RequestStop
  <2>2. ASSUME NEW q \in Pipelines PROVE Heard(q)'
    BY <2>1, <2>2 DEF Heard, At, op, StopIsHeard
  <2>3. QED
    BY <2>2 DEF StopIsHeard
<1>8. ASSUME NEW p \in Pipelines, SendEmptyAgain(p) PROVE StopIsHeard'
  BY <1>8, AsideKeepsHeard DEF SendEmptyAgain, stopVars, Aside, StopIsHeard
<1>9. ASSUME NEW s \in Sockets, ReadCallback(s) PROVE StopIsHeard'
  <2>1. PICK how \in {"value", "error"} : CompleteRead(s, how)
    BY <1>9 DEF ReadCallback, ReadSomeCallback, ReadUntilCallback, ReceiveCallback,
                ReceiveFromCallback, CopyAddress
  <2>2. s \in reading
    BY <1>9 DEF ReadCallback, ReadSomeCallback, ReadUntilCallback, ReceiveCallback,
                ReceiveFromCallback, Polled
  <2>3. PICK p \in Pipelines : p = data[s] /\ At(p, "pending", Reads)
    BY <2>2 DEF IInv, TypeOK, SocketInv
  <2>4. /\ EndStage(p, how) /\ state[p] = "pending" /\ requested' = requested
        /\ callback' = callback \ {p} /\ stopQueued' = stopQueued
    BY <2>1, <2>3 DEF CompleteRead, At
  <2>5. QED
    BY <2>4, EndIsHeard
<1>10. ASSUME NEW s \in Sockets, CloseCallback(s) PROVE StopIsHeard'
  <2>1. PICK p \in Pipelines : p = data[s] /\ At(p, "pending", {"close"})
    BY <1>10 DEF CloseCallback, IInv, TypeOK, SocketInv
  <2>2. /\ EndStage(p, "value") /\ state[p] = "pending" /\ requested' = requested
        /\ callback' = callback /\ stopQueued' = stopQueued
    BY <1>10, <2>1 DEF CloseCallback, At, stopVars
  <2>3. QED
    BY <2>2, EndIsHeard
<1>11. QED
  BY <1>1, <1>2, <1>3, <1>4, <1>5, <1>6, <1>7, <1>8, <1>9, <1>10 DEF Next, SetValue

(* The safety half of StopEndsWait: the loop's list holds the end of every wait that was stopped. *)
THEOREM NoStopIsLost == Spec => []StopIsHeard
<1>1. Init => StopIsHeard
  BY DEF Init, StopIsHeard, Heard, At
<1>2. ASSUME IInv, StopIsHeard, [Next]_vars PROVE StopIsHeard'
  <2>1. CASE Next
    BY <1>2, <2>1, StepIsHeard
  <2>2. CASE UNCHANGED vars
    BY <1>2, <2>2, AsideKeepsHeard DEF vars, stopVars, Aside, StopIsHeard
  <2>3. QED
    BY <1>2, <2>1, <2>2
<1>3. QED
  BY <1>1, <1>2, PipelineInvariant, PTL DEF Spec
=============================================================================
