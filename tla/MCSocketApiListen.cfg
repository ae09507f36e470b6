\* The comment of TcpIp.c:305: a listen that reports success listens.
CONSTANTS
  Pcbs = {c1, c2}
  ListenPcbs = {l1}
  Ports = {p1}
  NULL = NULL
  MAX_TCPIP_SOCKET_HANDLES = 2
  MaxInit = 3
  POOL_SIZE = 1
  CNT_MOD = 2
  Pbufs = {b1}
SPECIFICATION ApiSpec
PROPERTIES
  ListenedMeansListening
