----------------------------- MODULE Algorithms -----------------------------
(***************************************************************************)
(* How uvexec builds a chain of senders: the customisation points package  *)
(* an algorithm with its upstream and its socket, the domain of the loop   *)
(* turns a package into the sender for that kind of socket, at once when   *)
(* the upstream knows the loop and otherwise when the chain is connected,  *)
(* and each sender declares its completions.                               *)
(*                                                                         *)
(* A sender is what it will run (ops, one operation state per stage), what *)
(* it declares (sigs) and the domain of its environment.  Completions are  *)
(* "void" and "size" (set_value without and with a length), "error" and    *)
(* "stopped".                                                              *)
(***************************************************************************)
EXTENDS Naturals, Sequences

-----------------------------------------------------------------------------
(* completion_signatures.hpp.                                              *)

TVoidValueCompletionSignatures == {"void"}
TLengthValueCompletionSignatures == {"size"}
TAlgorithmCompletionSignatures == {"error"}
TCancellableAlgorithmCompletionSignatures == {"error", "stopped"}
TScheduleCompletionSignatures == {"void", "stopped"}

(* The upstream's errors and stops are passed on, its value is consumed. *)
make_completion_signatures(sender, extra, value) ==
  (sender.sigs \ {"void", "size"}) \cup extra \cup value

Stage(sender, op, sock, extra, value) ==
  [sender EXCEPT !.ops = Append(@, [op |-> op, sock |-> sock]),
                 !.sigs = make_completion_signatures(sender, extra, value)]

-----------------------------------------------------------------------------
(* The senders.  Each forwards the environment of its upstream.            *)

just == [ops |-> <<>>, sigs |-> {"void"}, domain |-> "none"]

TScheduleSender == [ops |-> <<>>, sigs |-> TScheduleCompletionSignatures, domain |-> "loop"]

TAfterSender(s, tag) ==
  Stage(s, tag, "none", TCancellableAlgorithmCompletionSignatures, TVoidValueCompletionSignatures)

TUponSignalSender(s) ==
  Stage(s, "upon_signal", "none", TCancellableAlgorithmCompletionSignatures, TVoidValueCompletionSignatures)

TConnectSender(s, sock) ==
  Stage(s, "connect", sock, TAlgorithmCompletionSignatures, TVoidValueCompletionSignatures)

TTcpAcceptSender(s, sock) ==
  Stage(s, "accept", sock, TCancellableAlgorithmCompletionSignatures, TVoidValueCompletionSignatures)

TShutdownSender(s, sock) ==
  Stage(s, "shutdown", sock, TAlgorithmCompletionSignatures, TVoidValueCompletionSignatures)

(* Bug: close declares only its own value. *)
CloseForgetsUpstream(s, sock) ==
  [Stage(s, "close", sock, {}, TVoidValueCompletionSignatures) EXCEPT !.sigs = TVoidValueCompletionSignatures]

TCloseSender(s, sock) == Stage(s, "close", sock, {}, TVoidValueCompletionSignatures)

TReadSomeSender(s, sock) ==
  Stage(s, "read_some", sock, TCancellableAlgorithmCompletionSignatures, TLengthValueCompletionSignatures)

TReadUntilSender(s, sock) ==
  Stage(s, "read_until", sock, TCancellableAlgorithmCompletionSignatures, TLengthValueCompletionSignatures)

TReceiveSender(s, sock) ==
  Stage(s, "receive", sock, TCancellableAlgorithmCompletionSignatures, TLengthValueCompletionSignatures)

TReceiveFromSender(s, sock) ==
  Stage(s, "receive_from", sock, TCancellableAlgorithmCompletionSignatures, TLengthValueCompletionSignatures)

TWriteSender(s, sock) ==
  Stage(s, "write", sock, TAlgorithmCompletionSignatures, TVoidValueCompletionSignatures)

TSendSender(s, sock) ==
  Stage(s, "send", sock, TAlgorithmCompletionSignatures, TVoidValueCompletionSignatures)

TSendToSender(s, sock) ==
  Stage(s, "send_to", sock, TAlgorithmCompletionSignatures, TVoidValueCompletionSignatures)

-----------------------------------------------------------------------------
(* tag_invoke(TDomain, package): which sender an algorithm is on a socket. *)

TTcpSocket(tag, s, sock) ==
  CASE tag = "close" -> TCloseSender(s, sock)
    [] tag = "connect" -> TConnectSender(s, sock)
    [] tag = "shutdown" -> TShutdownSender(s, sock)
    [] tag \in {"send", "write_some"} -> TWriteSender(s, sock)
    [] tag \in {"receive", "read_some"} -> TReadSomeSender(s, sock)
    [] tag = "read_until" -> TReadUntilSender(s, sock)

TUdpSocket(tag, s, sock) ==
  CASE tag = "close" -> TCloseSender(s, sock)
    [] tag = "connect" -> TConnectSender(s, sock)
    [] tag = "send_to" -> TSendToSender(s, sock)
    [] tag = "receive_from" -> TReceiveFromSender(s, sock)
    [] tag = "receive" -> TReceiveSender(s, sock)
    [] tag = "send" -> TSendSender(s, sock)

TTcpListener(tag, s, sock) ==
  CASE tag = "close" -> TCloseSender(s, sock)
    [] tag = "accept" -> TTcpAcceptSender(s, sock)

(* The algorithms without a socket take the loop from the environment. *)
TLoopTimer(tag, s) ==
  IF tag = "upon_signal" THEN TUponSignalSender(s) ELSE TAfterSender(s, tag)

(* The algorithms that need only the loop, and those that each kind of socket customises. *)
LoopAlgorithms == {"after", "at", "upon_signal"}

SocketAlgorithms ==
  [tcp |-> {"close", "connect", "shutdown", "send", "write_some", "receive", "read_some", "read_until"},
   udp |-> {"close", "connect", "send_to", "receive_from", "receive", "send"},
   listener |-> {"close", "accept"}]

(***************************************************************************)
(* What a package declares that no domain has customised: the required     *)
(* signatures of the algorithm's tag, in which errors are not known.       *)
(***************************************************************************)
after_t == [value |-> {"void"}, stopped |-> {"stopped"}]
at_t == [value |-> {"void"}, stopped |-> {"stopped"}]
upon_signal_t == [value |-> {"void"}, stopped |-> {"stopped"}]
connect_t == [value |-> {"void"}, stopped |-> {}]
accept_t == [value |-> {"void"}, stopped |-> {"stopped"}]
shutdown_t == [value |-> {"void"}, stopped |-> {}]
close_t == [value |-> {"void"}, stopped |-> {}]
receive_t == [value |-> {"size"}, stopped |-> {"stopped"}]
read_some_t == [value |-> {"size"}, stopped |-> {"stopped"}]
read_until_t == [value |-> {"size"}, stopped |-> {"stopped"}]
receive_from_t == [value |-> {"size"}, stopped |-> {"stopped"}]
send_t == [value |-> {"void"}, stopped |-> {}]
write_some_t == [value |-> {"void"}, stopped |-> {}]
send_to_t == [value |-> {"void"}, stopped |-> {}]

Required ==
  [after |-> after_t, at |-> at_t, upon_signal |-> upon_signal_t, connect |-> connect_t,
   accept |-> accept_t, shutdown |-> shutdown_t, close |-> close_t, receive |-> receive_t,
   read_some |-> read_some_t, read_until |-> read_until_t, receive_from |-> receive_from_t,
   send |-> send_t, write_some |-> write_some_t, send_to |-> send_to_t]

(* GetCompSigs of a package whose algorithm has no default implementation. *)
GetCompSigs(tag, s) ==
  make_completion_signatures(s, Required[tag].stopped, Required[tag].value)

(* TDomain::transform_sender. *)
TransformSender(kind, step, s) ==
  IF step.sock = "none"
  THEN TLoopTimer(step.tag, s)
  ELSE CASE kind[step.sock] = "tcp" -> TTcpSocket(step.tag, s, step.sock)
         [] kind[step.sock] = "listener" -> TTcpListener(step.tag, s, step.sock)
         [] kind[step.sock] = "udp" -> TUdpSocket(step.tag, s, step.sock)

(* A package that is not transformed waits for the receiver's environment. *)
MakeSenderPackage(step, s) ==
  [s EXCEPT !.ops = Append(@, [op |-> "package", sock |-> step.sock]),
            !.sigs = GetCompSigs(step.tag, s)]

GetEarlyDomain(s) == s.domain

(* A customisation point applied to its upstream. *)
Algorithm(kind, step, s) ==
  IF GetEarlyDomain(s) = "loop" THEN TransformSender(kind, step, s) ELSE MakeSenderPackage(step, s)

(* The chain first | steps[1] | ... | steps[n]. *)
Pipe(kind, first, steps) ==
  LET piped[i \in 0..Len(steps)] ==
        IF i = 0 THEN first ELSE Algorithm(kind, steps[i], piped[i - 1])
  IN  piped[Len(steps)]

(***************************************************************************)
(* connect: packages are transformed in the domain of the receiver, from   *)
(* the outside in, each upstream when it is connected in its turn; the     *)
(* environment of an inner receiver is that of the outermost one.          *)
(***************************************************************************)
Connect(kind, first, steps, receiverDomain) ==
  LET sender == Pipe(kind, first, steps)
      connected[i \in 0..Len(steps)] ==
        IF i = 0 THEN first ELSE TransformSender(kind, steps[i], connected[i - 1])
  IN  IF GetEarlyDomain(first) = "loop"
      THEN sender
      ELSE IF receiverDomain = "loop"
           THEN [connected[Len(steps)] EXCEPT !.domain = "loop"]
           ELSE [sender EXCEPT !.ops = <<[op |-> "TFatalOpState", sock |-> "none"]>>]
=============================================================================
