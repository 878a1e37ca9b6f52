--------------------------- MODULE MCSocketTable ---------------------------
(* Small instances of SocketTable for TLC.                                 *)
EXTENDS SocketTable

Socket(type, srv, data, tls, port) ==
  [conType |-> type, server |-> srv, dataMode |-> data, tlsMode |-> tls,
   localPort |-> port]

DataServer == Socket("TCP", TRUE, TRUE, "N", 1)
Server == Socket("TCP", TRUE, FALSE, "N", 1)
SecureServer == Socket("TCP", TRUE, FALSE, "S", 1)
Client == Socket("TCP", FALSE, FALSE, "N", 0)
UdpServer == Socket("UDP", TRUE, FALSE, "N", 2)

MCPorts == {1, 2}
ListenRequests == {Server}
ServerRequests == {DataServer, Server}
PacedRequests == {DataServer, SecureServer, Client}
\* Option 9 opens listeners that are not in data mode on the port of DataServer.
WideRequests == {DataServer, UdpServer}

\* A bound on the run without pacing: one thread closes sockets at a time, and
\* AT+SSEND does not run.
OneAtATime ==
  /\ closer["main"].pc = "idle" \/ closer["net"].pc = "idle"
  /\ sending = NoScid
=============================================================================
