\* Two sockets, initialised up to three times, over two connections, a listener
\* and a pool of two nodes.
CONSTANTS
  Pcbs = {c1, c2}
  ListenPcbs = {l1}
  Ports = {p1}
  NULL = NULL
  MAX_TCPIP_SOCKET_HANDLES = 2
  MaxInit = 3
  POOL_SIZE = 2
  CNT_MOD = 3
  Pbufs = {b1, b2}
SPECIFICATION ApiSpec
SYMMETRY ApiSymmetry
INVARIANTS
  ApiTypeOK
  ServedIsCounted
PROPERTIES
  WaitingIsReturned
