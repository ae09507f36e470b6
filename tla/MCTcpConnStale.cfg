\* The comment of TcpIp.c:264: closing releases all resources.
CONSTANTS
  Pcbs = {c1, c2}
  ListenPcbs = {l1}
  Ports = {p1}
  NULL = NULL
SPECIFICATION Spec
INVARIANTS
  NoUseAfterClose
