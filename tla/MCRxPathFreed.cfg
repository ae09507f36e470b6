\* The comment of TcpIp.c:61: the node is only overhead, the data stays in the pbuf.
CONSTANTS
  POOL_SIZE = 5
  CNT_MOD = 65536
  Pbufs = {b1, b2, b3}
  NULL = NULL
  Conns = {c1, c2}
  TCP_WND = 4
  MaxSeg = 3
SPECIFICATION PathSpec
PROPERTIES
  DeliversWhatWasQueued
