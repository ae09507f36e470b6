\* Four units in segments of two, one retransmission, a tick of 1.5 ms and a
\* clock that wraps after four milliseconds.
CONSTANTS
  PBUF_POOL_SIZE = 1
  OS_TICK_DURATION_ns = 3
  NS_PER_MS = 2
  MainPeriod = 1
  INTERVAL = 2
  U32 = 4
  TCP_MSS = 2
  TCP_SND_BUF = 3
  TCP_MAXRTX = 1
  MaxUnits = 4
SPECIFICATION TxSpec
INVARIANTS
  FramesWhole
