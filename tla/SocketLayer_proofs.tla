------------------------- MODULE SocketLayer_proofs -------------------------
(***************************************************************************)
(* Proofs about SocketLayer: it uses TcpIp.c as TcpConn says, for any size *)
(* of the table, and serves no socket that is not counted.                 *)
(***************************************************************************)
EXTENDS SocketLayer, TcpConn_proofs

(* Every step of the socket layer is one service, one event or nothing     *)
(* for TcpConn.                                                            *)
LEMMA TcpConnStep == [SocketNext]_sktVars => [Next]_vars
<1> SUFFICES ASSUME [SocketNext]_sktVars PROVE [Next]_vars
  OBVIOUS
<1>1. CASE UNCHANGED vars
  BY <1>1
<1>2. ASSUME NEW s \in Sockets, NEW q \in Ports, TcpIp_Socket_Bind(s, q) PROVE Next
  BY <1>2 DEF TcpIp_Socket_Bind, Next, Service
<1>3. ASSUME NEW s \in Sockets, TcpIp_Socket_Listen(s) PROVE Next
  BY <1>3 DEF TcpIp_Socket_Listen, Next, Service
<1>4. ASSUME NEW s \in Sockets, TcpIp_Socket_Send(s) PROVE Next
  BY <1>4 DEF TcpIp_Socket_Send, Next, Service
<1>5. CASE Beside
  BY <1>5 DEF Beside, Next, Service
<1>6. ASSUME NEW s, InvalidSocket(s) \/ TcpIp_Socket_Init(s) \/ TcpIp_Socket_Accept(s)
                    \/ OS_WaitEvent_Interruptable(s)
      PROVE  UNCHANGED vars
  BY <1>6 DEF InvalidSocket, TcpIp_Socket_Init, TcpIp_Socket_Accept,
              OS_WaitEvent_Interruptable
<1>7. CASE TcpIp_Socket_Main_Loop \/ SocketUndefined \/ UNCHANGED sktVars
  BY <1>7 DEF TcpIp_Socket_Main_Loop, SocketUndefined, sktVars
<1> QED
  BY <1>1, <1>2, <1>3, <1>4, <1>5, <1>6, <1>7 DEF SocketNext

(* Every behaviour of the socket layer is one of TcpConn, so the theorems  *)
(* about TcpConn hold below the sockets.                                   *)
THEOREM SocketsUseTcpConn == SocketSpec => TcpConnSpec
<1>1. SocketInit => Init
  BY DEF SocketInit
<1> QED
  BY <1>1, TcpConnStep, PTL DEF SocketSpec, TcpConnSpec, Spec

-----------------------------------------------------------------------------
(* The types of the table.                                                 *)
TableTypes ==
  /\ TcpState \in [Sockets -> SocketStates]
  /\ TcpIp_No_Socket_Conn \in 0 .. MaxInit
  /\ waiting \in [Sockets -> BOOLEAN]
  /\ accepted \in Sockets \cup {NULL}
  /\ outside \in BOOLEAN

(* What the main loop reads are states.                                    *)
LEMMA PolledTypes == TypeOK => TcpIp_TcpState \subseteq SocketStates
<1> SUFFICES ASSUME TypeOK PROVE TcpIp_TcpState \subseteq SocketStates
  OBVIOUS
<1>1. CASE ~Usable
  BY <1>1 DEF TcpIp_TcpState, SocketStates
<1>2. CASE Usable
  <2>1. pcb[tcpip_raw_pcb].state \in States \ {"FREE"}
    BY <1>2 DEF Usable, TypeOK, PcbType
  <2>2. States \ {"FREE"} \subseteq SocketStates
    BY DEF States, SocketStates, Serving
  <2> QED
    BY <1>2, <2>1, <2>2 DEF TcpIp_TcpState, SocketStates, Serving
<1> QED
  BY <1>1, <1>2

(* The table keeps its types, and its served entries are counted.          *)
LEMMA TableStep ==
  ASSUME TypeOK, TableTypes, ServedIsCounted, [SocketNext]_sktVars
  PROVE  (TableTypes /\ ServedIsCounted)'
<1>1. ASSUME NEW s \in Sockfds, InvalidSocket(s)
      PROVE  (TableTypes /\ ServedIsCounted)'
  BY <1>1 DEF InvalidSocket, TableTypes, ServedIsCounted, table
<1>2. ASSUME NEW s \in Sockets, TcpIp_Socket_Init(s)
      PROVE  (TableTypes /\ ServedIsCounted)'
  <2>1. "CLOSED" \in SocketStates
    BY DEF SocketStates
  <2>2. TableTypes'
    BY <1>2, <2>1, HandlesAssumption DEF TcpIp_Socket_Init, Running, TableTypes
  <2>3. ServedIsCounted'
    BY <1>2, HandlesAssumption DEF TcpIp_Socket_Init, TableTypes, ServedIsCounted, Sockets
  <2> QED
    BY <2>2, <2>3
<1>3. ASSUME NEW s \in Sockets, TcpIp_Socket_Send(s) \/ \E q \in Ports : TcpIp_Socket_Bind(s, q)
      PROVE  (TableTypes /\ ServedIsCounted)'
  BY <1>3 DEF TcpIp_Socket_Send, TcpIp_Socket_Bind, Running, TableTypes, ServedIsCounted, table
<1>4. ASSUME NEW s \in Sockets, TcpIp_Socket_Listen(s)
      PROVE  (TableTypes /\ ServedIsCounted)'
  <2>1. {"ACCEPT", "LISTEN"} \subseteq SocketStates
    BY DEF SocketStates, Serving
  <2>2. TableTypes'
    BY <1>4, <2>1 DEF TcpIp_Socket_Listen, Running, TableTypes
  <2>3. TcpState[s] # "CLOSED"
    BY <1>4 DEF TcpIp_Socket_Listen
  <2>4. ServedIsCounted'
    BY <1>4, <2>3 DEF TcpIp_Socket_Listen, TableTypes, ServedIsCounted
  <2> QED
    BY <2>2, <2>4
<1>5. ASSUME NEW s \in Sockets, TcpIp_Socket_Accept(s) \/ OS_WaitEvent_Interruptable(s)
      PROVE  (TableTypes /\ ServedIsCounted)'
  BY <1>5 DEF TcpIp_Socket_Accept, OS_WaitEvent_Interruptable, Running, TableTypes,
              ServedIsCounted
<1>6. CASE TcpIp_Socket_Main_Loop
  <2>1. CASE UNCHANGED table /\ accepted' = NULL /\ outside' = TRUE
    BY <2>1 DEF TableTypes, ServedIsCounted, table
  <2>2. ASSUME NEW polled \in [0 .. TcpIp_No_Socket_Conn - 1 -> TcpIp_TcpState],
               TcpState' = [s \in Sockets |-> IF s \in DOMAIN polled THEN polled[s]
                                              ELSE TcpState[s]],
               accepted' = NULL, UNCHANGED <<TcpIp_No_Socket_Conn, waiting, outside>>
        PROVE  (TableTypes /\ ServedIsCounted)'
    <3>1. \A s \in Sockets : TcpState'[s] \in SocketStates
      BY <2>2, PolledTypes DEF TableTypes
    <3>2. TableTypes'
      BY <2>2, <3>1 DEF TableTypes
    <3>3. ServedIsCounted'
      BY <2>2, HandlesAssumption DEF TableTypes, ServedIsCounted, Sockets
    <3> QED
      BY <3>2, <3>3
  <2> QED
    BY <1>6, <2>1, <2>2 DEF TcpIp_Socket_Main_Loop, Running
<1>7. CASE Beside
  BY <1>7 DEF Beside, Running, TableTypes, ServedIsCounted, table
<1>8. CASE SocketUndefined \/ UNCHANGED sktVars
  BY <1>8 DEF SocketUndefined, sktVars, TableTypes, ServedIsCounted
<1> QED
  BY <1>1, <1>2, <1>3, <1>4, <1>5, <1>6, <1>7, <1>8 DEF SocketNext

(* Both hold in every reachable state; TypeOK comes from TcpConn.          *)
LEMMA TableInvariance == SocketSpec => [](TableTypes /\ ServedIsCounted)
<1>1. SocketInit => TableTypes /\ ServedIsCounted
  <2> SUFFICES ASSUME SocketInit PROVE TableTypes /\ ServedIsCounted
    OBVIOUS
  <2>1. TcpState \in [Sockets -> SocketStates]
    BY DEF SocketInit, SocketStates
  <2>2. waiting \in [Sockets -> BOOLEAN] /\ accepted = NULL /\ outside = FALSE
    BY DEF SocketInit
  <2>3. TcpIp_No_Socket_Conn \in 0 .. MaxInit
    BY HandlesAssumption DEF SocketInit
  <2>4. ServedIsCounted
    BY DEF SocketInit, ServedIsCounted
  <2> QED
    BY <2>1, <2>2, <2>3, <2>4 DEF TableTypes
<1>2. SocketSpec => []TypeOK
  BY SocketsUseTcpConn, TypeCorrect, PTL DEF TcpConnSpec
<1>3. TypeOK /\ TableTypes /\ ServedIsCounted /\ [SocketNext]_sktVars
        => (TableTypes /\ ServedIsCounted)'
  BY TableStep
<1> QED
  BY <1>1, <1>2, <1>3, PTL DEF SocketSpec

(* All variables keep their types, for any size of the table.              *)
THEOREM SocketTypeCorrect == SocketSpec => []SocketTypeOK
<1>1. TypeOK /\ TableTypes => SocketTypeOK
  BY DEF SocketTypeOK, TableTypes
<1>2. SocketSpec => []TypeOK
  BY SocketsUseTcpConn, TypeCorrect, PTL DEF TcpConnSpec
<1> QED
  BY <1>1, <1>2, TableInvariance, PTL

(* A socket is served only when there were enough initialisations for its  *)
(* number.                                                                 *)
THEOREM ServedAreCounted == SocketSpec => []ServedIsCounted
  BY TableInvariance, PTL
=============================================================================
