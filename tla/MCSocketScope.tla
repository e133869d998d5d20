--------------------------- MODULE MCSocketScope ---------------------------
(* A server: in its body a listener is bound and a first connection is     *)
(* handled; an accept and a client are spawned into its scope.             *)
EXTENDS SocketScope

MCScopes == {"server", "listener", "first", "next", "client"}

MCKind ==
  [server |-> "async_value", listener |-> "bind_to", first |-> "async_value",
   next |-> "accept_from", client |-> "connect_to"]

MCParent ==
  [server |-> NULL, listener |-> "server", first |-> "server", next |-> "server", client |-> "server"]

MCIn ==
  [server |-> {"value", "errc"}, listener |-> {"value"}, first |-> {"value"},
   next |-> {"value"}, client |-> {"value"}]

MCEnds ==
  [server |-> {"value"}, listener |-> {"value"}, first |-> {"value", "stopped"},
   next |-> {"value"}, client |-> {"value"}]
=============================================================================
