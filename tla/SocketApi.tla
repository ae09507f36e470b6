------------------------------ MODULE SocketApi ------------------------------
(***************************************************************************)
(* The functions of socket.c as the application sees them: every call with *)
(* its result, the refused ones included, over the sockets of SocketLayer, *)
(* the connections of TcpConn and the receive queue of RxQueue, which the  *)
(* connections feed and recv empties.                                      *)
(*                                                                         *)
(* A result is 0 or -1; recv returns the message (its pbuf) or 0, send     *)
(* what TcpIp_send returns.  What the caller's buffer gets is in RxPath.   *)
(***************************************************************************)
EXTENDS SocketLayer

CONSTANTS POOL_SIZE, CNT_MOD, Pbufs      (* of RxQueue *)

ASSUME QueueAssumption ==
  /\ POOL_SIZE \in Nat \ {0} /\ CNT_MOD \in Nat /\ POOL_SIZE < CNT_MOD
  /\ NULL \notin Pbufs \cup (0 .. POOL_SIZE - 1)

VARIABLES
  pool, rx_bufhead, rx_buf_cnt, ret,     (* of RxQueue                      *)
  result      (* what a call returns in this step, 0 when none does         *)

queue   == <<pool, rx_bufhead, rx_buf_cnt, ret>>
apiVars == <<sktVars, queue, result>>

Rx == INSTANCE RxQueue

ApiInit ==
  /\ SocketInit
  /\ Rx!Init
  /\ result = 0

-----------------------------------------------------------------------------
(* A call returns r, unless its outcome is undefined.                      *)
Returns(r) == result' = IF fault' \/ outside' THEN 0 ELSE r

(* socket.c turns a Std_ReturnType into an int.                            *)
AsInt(e) == IF e = "E_OK" THEN 0 ELSE -1

(* A step that does nothing below the sockets.                             *)
Nothing == Running /\ accepted' = NULL /\ UNCHANGED <<vars, table>>

(* The entry of s is in one of S.                                          *)
In(s, S) == s \in Sockets /\ TcpState[s] \in S

(* The entry of s is in none of S, or there is none.                       *)
Refused(s, S) ==
  \/ s \in Sockets /\ TcpState[s] \notin S /\ Nothing
  \/ InvalidSocket(s)

-----------------------------------------------------------------------------
(* socket.c.                                                               *)

socket(s) ==
  /\ \/ s \in Sockets /\ TcpIp_Socket_Init(s) /\ Returns(0)
     \/ InvalidSocket(s) /\ Returns(-1)
  /\ UNCHANGED queue

bind(s, q) ==
  /\ \/ s \in Sockets /\ TcpIp_Socket_Bind(s, q) /\ Returns(AsInt(retval'))
     \/ Refused(s, {"CLOSED"}) /\ Returns(-1)
  /\ UNCHANGED queue

listen(s) ==
  /\ \/ s \in Sockets /\ TcpIp_Socket_Listen(s) /\ Returns(AsInt(retval'))
     \/ Refused(s, {"BIND", "LISTEN"}) /\ Returns(-1)
  /\ UNCHANGED queue

(* Up to the wait, and from there.                                         *)
accept(s) ==
  /\ \/ /\ s \in Sockets
        /\ TcpIp_Socket_Accept(s) \/ OS_WaitEvent_Interruptable(s)
        /\ IF waiting'[s] THEN result' = 0
           ELSE Returns(IF accepted' = s THEN 0 ELSE -1)
     \/ InvalidSocket(s) /\ Returns(-1)
  /\ UNCHANGED queue

(* TcpIp_recv with data # NULL: pops one message, if there is one.         *)
TcpIp_Socket_Recv(s) ==
  /\ In(s, Serving) /\ Nothing
  /\ Rx!pop_pbuf_from_rx_ctrl_blk

recv(s) ==
  \/ TcpIp_Socket_Recv(s) /\ Returns(IF ret' = NULL THEN 0 ELSE ret')
  \/ Refused(s, Serving) /\ Returns(0) /\ UNCHANGED queue

(* length > 0.  tcp_write takes data in the states of Writable, if it has  *)
(* the memory.                                                             *)
Writable == {"SYN_SENT", "SYN_RCVD", "ESTABLISHED", "CLOSE_WAIT"}

send(s) ==
  /\ \/ s \in Sockets /\ TcpIp_Socket_Send(s) /\ Returns(0)
     \/ /\ In(s, Serving) /\ Usable /\ Nothing
        /\ \E r \in IF pcb[tcpip_raw_pcb].state \in Writable THEN {0, -2} ELSE {-3} :
             Returns(r)
     \/ Refused(s, Serving) /\ Returns(0)
  /\ UNCHANGED queue

-----------------------------------------------------------------------------
(* The other tasks.                                                        *)

(* tcpip_raw_recv with data, called for a connection that has it as its    *)
(* callback: also one whose own FIN is out.                                *)
tcpip_raw_recv(p) ==
  /\ pcb[p].state \in {"ESTABLISHED", "FIN_WAIT"} /\ pcb[p].recv
  /\ \E b \in Pbufs : Rx!push_to_rx_ctrl_blk(b)
  /\ Nothing
  /\ result' = 0

Others ==
  \/ /\ TcpIp_Socket_Main_Loop \/ Beside \/ SocketUndefined
     /\ result' = 0
     /\ UNCHANGED queue
  \/ \E p \in Pcbs : tcpip_raw_recv(p)

ApiNext ==
  \/ \E s \in Sockfds :
       \/ socket(s) \/ listen(s) \/ accept(s) \/ recv(s) \/ send(s)
       \/ \E q \in Ports : bind(s, q)
  \/ Others

ApiSpec == ApiInit /\ [][ApiNext]_apiVars

-----------------------------------------------------------------------------
(* Types; what recv returns is a pbuf.                                     *)
ApiTypeOK ==
  /\ SocketTypeOK
  /\ Rx!TypeOK
  /\ result \in {0, -1, -2, -3} \cup Pbufs

(* The sockets share one queue.  While a message waits in it, each recv of *)
(* a served socket returns that message, whichever connection it is from,  *)
(* though recv looks at the counter first; and nothing else takes it off:  *)
(* not a bind, a socket() for the same socket, a close or a new message.   *)
WaitingIsReturned ==
  [][rx_bufhead # NULL =>
       /\ (\E s \in Sockets : In(s, Serving) /\ recv(s)) <=> rx_bufhead' # rx_bufhead
       /\ rx_bufhead' # rx_bufhead => result' = pool[rx_bufhead].pbuf]_apiVars

(* The specification of the queue below the sockets.                       *)
QueueSpec == Rx!Spec

-----------------------------------------------------------------------------
(* A statement of a comment that the code does not keep.                   *)

(* "the TCP/IP stack is requested to listen on the TCP socket"             *)
(* (TcpIp.c:305): after a listen that returns 0 the pcb in the handle      *)
(* listens.  TcpIp_TcpListen does not test what tcp_listen returns.        *)
ListenedMeansListening ==
  [][(\E s \in Sockfds : listen(s)) /\ result' = 0 /\ ~fault' /\ ~outside'
       => tcpip_raw_pcb' \in InState({"LISTEN"})']_apiVars
=============================================================================
