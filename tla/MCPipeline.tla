----------------------------- MODULE MCPipeline -----------------------------
(* Four chains on a stream socket and a datagram socket.                   *)
EXTENDS Pipeline

MCSockets == {"tcp", "udp"}
MCKind == [tcp |-> "tcp", udp |-> "udp"]
MCPipelines == {"client", "writer", "server", "sender"}

Step(tag, s) == [tag |-> tag, sock |-> s]

MCFirst == [client |-> TScheduleSender, writer |-> just, server |-> TScheduleSender, sender |-> just]

MCChain ==
  [client |-> <<Step("connect", "tcp"), Step("receive", "tcp"), Step("read_until", "tcp"),
                Step("shutdown", "tcp"), Step("close", "tcp")>>,
   writer |-> <<Step("after", "none"), Step("write_some", "tcp")>>,
   server |-> <<Step("receive_from", "udp"), Step("receive", "udp"), Step("send_to", "udp"),
                Step("close", "udp")>>,
   sender |-> <<Step("connect", "udp"), Step("send", "udp"), Step("send", "udp")>>]
=============================================================================
