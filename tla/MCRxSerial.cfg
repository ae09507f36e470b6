\* Calls that do not overlap.  No counter exceeds the pool, so CNT_MOD is never reached.
CONSTANTS
  POOL_SIZE = 3
  CNT_MOD = 5
  Pbufs = {b1, b2}
  Readers = {r1, r2}
  NULL = NULL
SPECIFICATION SerialSpec
INVARIANTS
  RestingPoolHasNode
PROPERTIES
  AtomicSpec
