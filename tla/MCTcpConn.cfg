\* Three connections and two listeners on two ports: pools that run out; lwIP's timers run.
CONSTANTS
  Pcbs = {c1, c2, c3}
  ListenPcbs = {l1, l2}
  Ports = {p1, p2}
  NULL = NULL
SPECIFICATION FairSpec
INVARIANTS
  TypeOK
  RecvWhileOpen
PROPERTIES
  PeerClosedIsFreed
