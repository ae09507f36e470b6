\* Two readers that take turns.  The counter drifts under races, so CNT_MOD is the bound on it.
CONSTANTS
  POOL_SIZE = 3
  CNT_MOD = 4
  Pbufs = {b1, b2}
  Readers = {r1, r2}
  NULL = NULL
SYMMETRY Symmetry
SPECIFICATION TurnsSpec
INVARIANTS
  TypeOK
  HeldByOne
PROPERTIES
  NoOverwrite
  WeakMailboxSpec
