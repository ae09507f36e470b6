-------------------------- MODULE SocketApi_proofs --------------------------
(***************************************************************************)
(* Proofs about SocketApi: it is built from the sockets, the connections   *)
(* and the receive queue without bending one of them, so what is proved of *)
(* each holds of the whole; and a waiting message is what recv returns.    *)
(***************************************************************************)
EXTENDS SocketApi, SocketLayer_proofs

(* A step that does nothing below the sockets looks to them like a call    *)
(* with a negative socket.                                                 *)
LEMMA NothingIsACall == Nothing => SocketNext
<1> SUFFICES ASSUME Nothing PROVE SocketNext
  OBVIOUS
<1>1. -1 \in Sockfds /\ -1 \notin Sockets /\ -1 # MAX_TCPIP_SOCKET_HANDLES
  BY HandlesAssumption DEF Sockfds, Sockets
<1>2. outside' = FALSE
  BY DEF Nothing, Running
<1>3. InvalidSocket(-1)
  BY <1>1, <1>2 DEF Nothing, Running, InvalidSocket
<1> QED
  BY <1>1, <1>3 DEF SocketNext

(* A refused call is one of the two.                                       *)
LEMMA RefusedIsACall ==
  ASSUME NEW s \in Sockfds, NEW S, Refused(s, S)
  PROVE  SocketNext
<1>1. CASE Nothing
  BY <1>1, NothingIsACall
<1>2. CASE InvalidSocket(s)
  BY <1>2 DEF SocketNext
<1> QED
  BY <1>1, <1>2 DEF Refused

(* Every step of the interface is a step of the sockets.                   *)
LEMMA SocketStep == [ApiNext]_apiVars => [SocketNext]_sktVars
<1> SUFFICES ASSUME [ApiNext]_apiVars PROVE [SocketNext]_sktVars
  OBVIOUS
<1>1. ASSUME NEW s \in Sockfds, socket(s) PROVE SocketNext
  BY <1>1 DEF socket, SocketNext
<1>2. ASSUME NEW s \in Sockfds, NEW q \in Ports, bind(s, q) PROVE SocketNext
  <2>1. CASE Refused(s, {"CLOSED"})
    BY <2>1, RefusedIsACall
  <2> QED
    BY <1>2, <2>1 DEF bind, SocketNext
<1>3. ASSUME NEW s \in Sockfds, listen(s) PROVE SocketNext
  <2>1. CASE Refused(s, {"BIND", "LISTEN"})
    BY <2>1, RefusedIsACall
  <2> QED
    BY <1>3, <2>1 DEF listen, SocketNext
<1>4. ASSUME NEW s \in Sockfds, accept(s) PROVE SocketNext
  BY <1>4 DEF accept, SocketNext
<1>5. ASSUME NEW s \in Sockfds, recv(s) PROVE SocketNext
  <2>1. CASE Refused(s, Serving)
    BY <2>1, RefusedIsACall
  <2> QED
    BY <1>5, <2>1, NothingIsACall DEF recv, TcpIp_Socket_Recv
<1>6. ASSUME NEW s \in Sockfds, send(s) PROVE SocketNext
  <2>1. CASE Refused(s, Serving)
    BY <2>1, RefusedIsACall
  <2> QED
    BY <1>6, <2>1, NothingIsACall DEF send, SocketNext
<1>7. CASE Others
  BY <1>7, NothingIsACall DEF Others, tcpip_raw_recv, SocketNext
<1>8. CASE UNCHANGED apiVars
  BY <1>8 DEF apiVars
<1> QED
  BY <1>1, <1>2, <1>3, <1>4, <1>5, <1>6, <1>7, <1>8 DEF ApiNext

(* The functions of socket.c are the sockets of tcpip_extensions.c, called *)
(* in any order, so the theorems about those hold here.                    *)
THEOREM ApiUsesSockets == ApiSpec => SocketSpec
<1>1. ApiInit => SocketInit
  BY DEF ApiInit
<1> QED
  BY <1>1, SocketStep, PTL DEF ApiSpec, SocketSpec

-----------------------------------------------------------------------------
(* A step of the interface pops, pushes or leaves the queue alone.         *)
LEMMA QueueStep == [ApiNext]_apiVars => [Rx!Next]_queue
<1> SUFFICES ASSUME [ApiNext]_apiVars PROVE [Rx!Next]_queue
  OBVIOUS
<1>1. ASSUME NEW s \in Sockfds,
             socket(s) \/ listen(s) \/ accept(s) \/ send(s) \/ \E q \in Ports : bind(s, q)
      PROVE  UNCHANGED queue
  BY <1>1 DEF socket, bind, listen, accept, send
<1>2. ASSUME NEW s \in Sockfds, recv(s) PROVE [Rx!Next]_queue
  BY <1>2 DEF recv, TcpIp_Socket_Recv, Rx!Next, Rx!Pop
<1>3. CASE Others
  BY <1>3 DEF Others, tcpip_raw_recv, Rx!Next, Rx!Push
<1>4. CASE UNCHANGED apiVars
  BY <1>4 DEF apiVars
<1> QED
  BY <1>1, <1>2, <1>3, <1>4 DEF ApiNext

(* The queue below the sockets is used as RxQueue says, whatever the       *)
(* sockets, the connections and the main loop do in between.               *)
THEOREM ApiUsesQueue == ApiSpec => QueueSpec
<1>1. ApiInit => Rx!Init
  BY DEF ApiInit
<1>2. [ApiNext]_apiVars => [Rx!Next]_Rx!vars
  BY QueueStep DEF queue, Rx!vars
<1> QED
  BY <1>1, <1>2, PTL DEF ApiSpec, QueueSpec, Rx!Spec

-----------------------------------------------------------------------------
(* The lemmas about RxQueue, for the queue below the sockets.              *)
Queue == INSTANCE RxQueue_proofs

(* They are about the same formulas.                                       *)
LEMMA SameQueue ==
  /\ Rx!Init <=> Queue!Init
  /\ Rx!Next <=> Queue!Next
<1>1. Rx!Init <=> Queue!Init
  BY DEF Rx!Init, Queue!Init, Rx!Nodes, Queue!Nodes
<1>2. ASSUME NEW n PROVE Rx!free_tcpip_mpool(n) <=> Queue!free_tcpip_mpool(n)
  BY DEF Rx!free_tcpip_mpool, Queue!free_tcpip_mpool
<1>3. Rx!Pop <=> Queue!Pop
  BY <1>2 DEF Rx!Pop, Queue!Pop, Rx!pop_pbuf_from_rx_ctrl_blk,
     Queue!pop_pbuf_from_rx_ctrl_blk, Rx!PopHead, Queue!PopHead, Rx!PopNothing,
     Queue!PopNothing
<1>4. Rx!Nodes = Queue!Nodes /\ Rx!FreeNodes = Queue!FreeNodes
  BY DEF Rx!Nodes, Queue!Nodes, Rx!FreeNodes, Queue!FreeNodes
<1>5. ASSUME NEW n, NEW p
      PROVE  /\ Rx!get_new_tcpip_mpool(n) <=> Queue!get_new_tcpip_mpool(n)
             /\ Rx!Enqueue(n, p) <=> Queue!Enqueue(n, p)
  BY <1>4 DEF Rx!get_new_tcpip_mpool, Queue!get_new_tcpip_mpool, Rx!Enqueue, Queue!Enqueue
<1>6. Rx!Push <=> Queue!Push
  BY <1>4, <1>5 DEF Rx!Push, Queue!Push, Rx!push_to_rx_ctrl_blk, Queue!push_to_rx_ctrl_blk
<1> QED
  BY <1>1, <1>3, <1>6 DEF Rx!Next, Queue!Next

(* The inductive invariant of RxQueue holds of the queue of SocketApi.     *)
LEMMA QueueInvariance == ApiSpec => []Queue!IInv
<1>1. Queue!PoolSizeAssumption /\ Queue!CntModAssumption /\ Queue!NullAssumption
  BY QueueAssumption DEF Queue!PoolSizeAssumption, Queue!CntModAssumption,
     Queue!NullAssumption, Queue!Nodes
<1>2. ApiInit => Queue!IInv
  BY <1>1, Queue!InitInv, SameQueue DEF ApiInit
<1>3. Queue!IInv /\ [ApiNext]_apiVars => Queue!IInv'
  BY <1>1, Queue!NextInv, QueueStep, SameQueue DEF Queue!vars, queue
<1> QED
  BY <1>2, <1>3, PTL DEF ApiSpec

(* What a step returns: 0 or -1, one of the results of TcpIp_send, or a    *)
(* pbuf that the queue held.                                               *)
ResultOK == result \in {0, -1, -2, -3} \cup Pbufs

LEMMA ResultStep == Queue!IInv' /\ ResultOK /\ [ApiNext]_apiVars => ResultOK'
<1> SUFFICES ASSUME Queue!IInv', ResultOK, [ApiNext]_apiVars PROVE ResultOK'
  OBVIOUS
<1> USE DEF ResultOK
<1>1. ASSUME NEW s \in Sockfds,
             socket(s) \/ listen(s) \/ accept(s) \/ \E q \in Ports : bind(s, q)
      PROVE  ResultOK'
  BY <1>1 DEF socket, listen, accept, bind, Returns, AsInt
<1>2. ASSUME NEW s \in Sockfds, recv(s) PROVE ResultOK'
  <2>1. ret' \in Pbufs \cup {NULL}
    BY DEF Queue!IInv, Queue!TypeOK
  <2> QED
    BY <1>2, <2>1 DEF recv, Returns
<1>3. ASSUME NEW s \in Sockfds, send(s) PROVE ResultOK'
  BY <1>3 DEF send, Returns
<1>4. CASE Others
  BY <1>4 DEF Others, tcpip_raw_recv
<1> QED
  BY <1>1, <1>2, <1>3, <1>4 DEF ApiNext, apiVars

(* All variables of the interface keep their types, for any table, queue   *)
(* and pools.                                                              *)
THEOREM ApiTypeCorrect == ApiSpec => []ApiTypeOK
<1>1. ApiInit => ResultOK
  BY DEF ApiInit, ResultOK
<1>2. ApiSpec => []SocketTypeOK
  BY ApiUsesSockets, SocketTypeCorrect, PTL
<1>3. Queue!IInv => Rx!TypeOK
  BY DEF Queue!IInv, Queue!TypeOK, Rx!TypeOK, Rx!Nodes, Queue!Nodes, Rx!NodeType,
     Queue!NodeType, Rx!MpoolStates, Queue!MpoolStates
<1>4. ApiSpec => []ResultOK
  BY <1>1, ResultStep, QueueInvariance, PTL DEF ApiSpec
<1> QED
  BY <1>2, <1>3, <1>4, QueueInvariance, PTL DEF ApiTypeOK, ResultOK

(* A socket is served only when there were enough calls of socket().       *)
THEOREM ApiServesCounted == ApiSpec => []ServedIsCounted
  BY ApiUsesSockets, ServedAreCounted, PTL

-----------------------------------------------------------------------------
(* What is proved of each part, of the whole.                              *)

(* No order of calls lets a callback of the connections outlive them.      *)
THEOREM ApiOnlyOpenReceives == ApiSpec => []RecvWhileOpen
  BY ApiUsesSockets, SocketsUseTcpConn, OnlyOpenReceives, PTL DEF TcpConnSpec

(* Below the sockets the queue is still a mailbox of one message, and it   *)
(* has a node for the next message whenever none waits.                    *)
THEOREM ApiImplementsMailbox ==
  ApiSpec => Queue!MailboxSpec /\ []Queue!EmptyQueueHasNode
<1>1. Queue!PoolSizeAssumption /\ Queue!CntModAssumption /\ Queue!NullAssumption
  BY QueueAssumption DEF Queue!PoolSizeAssumption, Queue!CntModAssumption,
     Queue!NullAssumption, Queue!Nodes
<1>2. ApiSpec => Queue!Spec
  <2>1. ApiInit => Queue!Init
    BY SameQueue DEF ApiInit
  <2>2. [ApiNext]_apiVars => [Queue!Next]_Queue!vars
    BY QueueStep, SameQueue DEF Queue!vars, queue
  <2> QED
    BY <2>1, <2>2, PTL DEF ApiSpec, Queue!Spec
<1>3. Queue!Spec => Queue!MailboxSpec /\ []Queue!EmptyQueueHasNode
  BY <1>1, Queue!ImplementsMailbox, Queue!NeverStarves, PTL
<1> QED
  BY <1>2, <1>3, PTL

(* While a message waits, a pop takes it.                                  *)
LEMMA PopTakesWaiting ==
  ASSUME Queue!IInv, rx_bufhead # NULL, Rx!pop_pbuf_from_rx_ctrl_blk
  PROVE  /\ rx_bufhead' # rx_bufhead
         /\ ret' = pool[rx_bufhead].pbuf
         /\ ret' # NULL
<1> USE DEF Queue!IInv
<1>1. rx_buf_cnt # 0
  BY DEF Queue!QueuedIsCounted
<1>2. Rx!PopHead
  BY <1>1 DEF Rx!pop_pbuf_from_rx_ctrl_blk, Rx!PopNothing
<1>3. rx_bufhead \in Queue!Nodes /\ pool[rx_bufhead].pbuf \in Pbufs
  BY DEF Queue!HeadAcquired, Queue!AcquiredNodes
<1>4. pool[rx_bufhead].next = NULL
  BY <1>3 DEF Queue!NextNeverSet
<1> QED
  BY <1>2, <1>3, <1>4, QueueAssumption DEF Rx!PopHead

(* A recv of a served socket pops, and returns what it popped.             *)
LEMMA RecvPops ==
  ASSUME NEW s \in Sockfds, recv(s), rx_bufhead # NULL, Queue!IInv
  PROVE  \/ /\ In(s, Serving)
            /\ rx_bufhead' # rx_bufhead
            /\ result' = pool[rx_bufhead].pbuf
         \/ ~In(s, Serving) /\ rx_bufhead' = rx_bufhead
<1>1. CASE TcpIp_Socket_Recv(s) /\ Returns(IF ret' = NULL THEN 0 ELSE ret')
  <2>1. In(s, Serving) /\ ~fault' /\ ~outside'
    BY <1>1 DEF TcpIp_Socket_Recv, Nothing, Running, vars
  <2>2. rx_bufhead' # rx_bufhead /\ ret' = pool[rx_bufhead].pbuf /\ ret' # NULL
    BY <1>1, PopTakesWaiting DEF TcpIp_Socket_Recv
  <2> QED
    BY <1>1, <2>1, <2>2 DEF Returns
<1>2. CASE Refused(s, Serving) /\ UNCHANGED queue
  BY <1>2 DEF Refused, InvalidSocket, In, queue
<1> QED
  BY <1>1, <1>2 DEF recv

(* Only a recv takes a message that waits.                                 *)
LEMMA OthersKeepWaiting ==
  ASSUME [ApiNext]_apiVars, rx_bufhead # NULL, rx_bufhead' # rx_bufhead
  PROVE  \E s \in Sockfds : recv(s)
<1>1. ASSUME NEW s \in Sockfds,
             socket(s) \/ listen(s) \/ accept(s) \/ send(s) \/ \E q \in Ports : bind(s, q)
      PROVE  FALSE
  BY <1>1 DEF socket, bind, listen, accept, send, queue
<1>2. CASE Others
  <2>1. CASE UNCHANGED queue
    BY <2>1 DEF queue
  <2>2. ASSUME NEW b \in Pbufs, Rx!push_to_rx_ctrl_blk(b) PROVE FALSE
    BY <2>2 DEF Rx!push_to_rx_ctrl_blk, Rx!Enqueue
  <2> QED
    BY <1>2, <2>1, <2>2 DEF Others, tcpip_raw_recv
<1>3. CASE UNCHANGED apiVars
  BY <1>3 DEF apiVars, queue
<1> QED
  BY <1>1, <1>2, <1>3 DEF ApiNext

(* For any table, queue and pools: a message that waits leaves the queue   *)
(* as the result of a recv, and of the first one of a served socket.       *)
THEOREM WaitingIsWhatRecvReturns == ApiSpec => WaitingIsReturned
<1> DEFINE Taken == \E s \in Sockets : In(s, Serving) /\ recv(s)
<1>1. ASSUME Queue!IInv, [ApiNext]_apiVars, rx_bufhead # NULL
      PROVE  /\ Taken <=> rx_bufhead' # rx_bufhead
             /\ rx_bufhead' # rx_bufhead => result' = pool[rx_bufhead].pbuf
  <2>1. ASSUME NEW s \in Sockets, In(s, Serving), recv(s) PROVE rx_bufhead' # rx_bufhead
    <3>1. s \in Sockfds
      BY HandlesAssumption DEF Sockets, Sockfds
    <3> QED
      BY <1>1, <2>1, <3>1, RecvPops
  <2>2. ASSUME rx_bufhead' # rx_bufhead
        PROVE  Taken /\ result' = pool[rx_bufhead].pbuf
    <3>1. PICK s \in Sockfds : recv(s)
      BY <1>1, <2>2, OthersKeepWaiting
    <3>2. In(s, Serving) /\ result' = pool[rx_bufhead].pbuf
      BY <1>1, <2>2, <3>1, RecvPops
    <3> QED
      BY <3>1, <3>2 DEF In
  <2> QED
    BY <2>1, <2>2
<1>2. Queue!IInv /\ [ApiNext]_apiVars
        => [rx_bufhead # NULL =>
              /\ Taken <=> rx_bufhead' # rx_bufhead
              /\ rx_bufhead' # rx_bufhead => result' = pool[rx_bufhead].pbuf]_apiVars
  BY <1>1
<1> QED
  BY <1>2, QueueInvariance, PTL DEF ApiSpec, WaitingIsReturned
=============================================================================
