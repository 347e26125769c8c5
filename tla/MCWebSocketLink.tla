-------------------------- MODULE MCWebSocketLink --------------------------
(* A client that pings and sends on a network that may reset it, or that   *)
(* closes; a server that sends more than the client's queue holds while one*)
(* of them closes; two ends that both close; a server that closes while the*)
(* client sends a message of more than max_size.                           *)
EXTENDS WebSocketLink

App(pinging, receiving, closing, fromClient, fromServer, reset) ==
  [pings |-> pinging, receives |-> receiving, closes |-> closing, resets |-> reset,
   sends |-> [s \in Side |-> IF s = "server" THEN fromServer ELSE fromClient]]

MCApplication ==
  {App({"client"}, {"client"}, {}, 1, 1, 1),
   App({"client"}, {}, {"client"}, 0, 0, 0),
   App({}, {"client"}, {"client"}, 0, 2, 0),
   App({}, {"client"}, {"server"}, 0, 2, 0),
   App({}, {}, Side, 0, 1, 0),
   App({}, {"server"}, {"server"}, 2, 0, 0)}

MCTooBig == {<<"client", 2>>}
=============================================================================
