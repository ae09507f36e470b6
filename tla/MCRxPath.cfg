\* Two connections at a time, of three segments each, reordered and repeated.
CONSTANTS
  POOL_SIZE = 2
  CNT_MOD = 65536
  Pbufs = {b1, b2}
  NULL = NULL
  Conns = {c1, c2}
  TCP_WND = 3
  MaxSeg = 3
SPECIFICATION PathSpec
SYMMETRY PathSymmetry
INVARIANTS
  PathTypeOK
  PbufsConserved
  WaitingIsNew
  CloseSendsFin
PROPERTIES
  ServiceSpec
