\* The pool of 5 nodes and the 16-bit counter of the code; a reader that keeps polling.
CONSTANTS
  POOL_SIZE = 5
  CNT_MOD = 65536
  Pbufs = {b1, b2, b3}
  NULL = NULL
SPECIFICATION FairSpec
INVARIANTS
  TypeOK
  QueuedIsCounted
  CountBoundedByPool
  EmptyQueueHasNode
PROPERTIES
  MailboxSpec
  WaitingIsDelivered
