\* The comment of TcpIp.c:107, with a pool of 2 nodes.
CONSTANTS
  POOL_SIZE = 2
  CNT_MOD = 65536
  Pbufs = {b1}
  Readers = {r1}
  NULL = NULL
SPECIFICATION Spec
INVARIANTS
  RestingPoolHasNode
