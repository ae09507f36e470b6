\* The comment of tcpip_extensions.c:129: accept waits for a connection.
CONSTANTS
  Pcbs = {c1, c2}
  ListenPcbs = {l1}
  Ports = {p1}
  NULL = NULL
  MAX_TCPIP_SOCKET_HANDLES = 2
  MaxInit = 3
SPECIFICATION SocketSpec
INVARIANTS
  AcceptedIsEstablished
