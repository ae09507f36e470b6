------------------------------ MODULE TcpConn ------------------------------
(***************************************************************************)
(* The connection control of TcpIp.c: the services TcpIp_Bind,             *)
(* TcpIp_TcpListen, TcpIp_TcpConnect, TcpIp_Close, TcpIp_send and          *)
(* TcpIp_getConnState, and the callbacks lwIP makes, around the one static *)
(* handle tcpip_raw_pcb.  Services and callbacks run to completion.        *)
(*                                                                         *)
(* The protocol control blocks belong to lwIP, which is external: they are *)
(* the slots of its two pools, and the tcp_ operators and the events at    *)
(* the end are what lwIP does with them.  FIN_WAIT stands for all states   *)
(* after an own FIN; nothing in TcpIp.c tells them apart.                  *)
(*                                                                         *)
(* An access through a handle that is NULL, or whose pcb lwIP has taken    *)
(* back, has no defined outcome, and neither has closing a listener: it is *)
(* recorded in fault and the behaviour ends there, so nothing is claimed   *)
(* of what follows.                                                        *)
(***************************************************************************)
EXTENDS Naturals

CONSTANTS
  Pcbs,         (* the slots of lwIP's pool of connections *)
  ListenPcbs,   (* the slots of its pool of listeners      *)
  Ports,
  NULL

ASSUME PcbAssumption == Pcbs \cap ListenPcbs = {}

ASSUME NullAssumption == NULL \notin Pcbs \cup ListenPcbs \cup Ports

AllPcbs == Pcbs \cup ListenPcbs

VARIABLES
  tcpip_raw_pcb,   (* the handle                                       *)
  pcb,             (* lwIP's pcbs, see PcbType                         *)
  retval,          (* what the last service returned                   *)
  fault            (* an access without a defined outcome has happened *)

vars == <<tcpip_raw_pcb, pcb, retval, fault>>

States == {"FREE", "CLOSED", "LISTEN", "SYN_SENT", "SYN_RCVD", "ESTABLISHED",
           "FIN_WAIT", "CLOSE_WAIT", "LAST_ACK"}

PcbType ==
  [state    : States,
   port     : Ports \cup {NULL},         (* the local port                    *)
   prio     : {"MIN", "NORMAL"},
    recv     : BOOLEAN]                   (* tcpip_raw_recv is its callback    *)

Free ==
  [state |-> "FREE", port |-> NULL, prio |-> "NORMAL", recv |-> FALSE]

Init ==
  /\ tcpip_raw_pcb = NULL
  /\ pcb = [p \in AllPcbs |-> Free]
  /\ retval = "E_OK"
  /\ fault = FALSE

InState(S) == {p \in AllPcbs : pcb[p].state \in S}

-----------------------------------------------------------------------------
(* What lwIP does when called.                                             *)

(* tcp_new and the allocation for an incoming connection: a free pcb, else *)
(* one taken from a closing connection or from one of a lower priority     *)
(* than NORMAL.  (The error callback of that connection only logs.)        *)
FreePcbs == Pcbs \cap InState({"FREE"})

Victims == {p \in Pcbs : pcb[p].state \in {"FIN_WAIT", "LAST_ACK"} \/ pcb[p].prio = "MIN"}

tcp_alloc(p) == p \in (IF FreePcbs # {} THEN FreePcbs ELSE Victims)

tcp_alloc_fails ==
  FreePcbs = {} /\ \A p \in Pcbs : pcb[p].prio # "MIN" /\ pcb[p].state # "LAST_ACK"

(* tcp_bind of p to q is refused when another pcb has the port.            *)
PortTaken(p, q) == \E o \in AllPcbs \ {p} : pcb[o].port = q

(* The pcbs m after tcp_close(p) of a connection.                          *)
tcp_close(m, p) ==
  CASE m[p].state \in {"CLOSED", "SYN_SENT"} -> [m EXCEPT ![p] = Free]
    [] m[p].state \in {"SYN_RCVD", "ESTABLISHED"} -> [m EXCEPT ![p].state = "FIN_WAIT"]
    [] m[p].state = "CLOSE_WAIT" -> [m EXCEPT ![p].state = "LAST_ACK"]
    [] OTHER -> m

-----------------------------------------------------------------------------
(* The static functions of TcpIp.c: the pcbs m after each of them.         *)

tcpip_raw_closeKeepsRecv(m, p) == tcp_close(m, p)

tcpip_raw_close(m, p) == tcp_close([m EXCEPT ![p].recv = FALSE], p)

(* tcpip_raw_recv with a NULL pbuf: the peer has closed.                   *)
tcpip_raw_recv_endIgnored(m, p) == m

tcpip_raw_recv_end(m, p) == tcpip_raw_close(m, p)

(* tcpip_raw_accept with a connection.                                     *)
tcpip_raw_accept(m, p) == [m EXCEPT ![p].prio = "MIN", ![p].recv = TRUE]

-----------------------------------------------------------------------------
(* The services.                                                           *)

(* A service runs to its end and returns r.                                *)
Return(r) == ~fault /\ retval' = r /\ UNCHANGED fault

(* The handle can be dereferenced.                                         *)
Usable == tcpip_raw_pcb # NULL /\ pcb[tcpip_raw_pcb].state # "FREE"

Fault == ~fault /\ fault' = TRUE /\ UNCHANGED <<tcpip_raw_pcb, pcb, retval>>

(* TcpIp_Bind with PortPtr # NULL, which makes its first test false.       *)
TcpIp_Bind(q) ==
  \/ /\ tcp_alloc_fails
     /\ tcpip_raw_pcb' = NULL
     /\ UNCHANGED pcb
     /\ Return("E_OK")
  \/ \E p \in Pcbs :
       /\ tcp_alloc(p)
       /\ tcpip_raw_pcb' = p
       /\ pcb' = [pcb EXCEPT ![p] = [Free EXCEPT
                    !.state = "CLOSED", !.port = IF PortTaken(p, q) THEN NULL ELSE q]]
       /\ Return(IF PortTaken(p, q) THEN "E_NOT_OK" ELSE "E_OK")

(* tcp_listen moves a CLOSED pcb to a listener, or returns NULL without    *)
(* one; it also returns NULL for a pcb that is not CLOSED.  LISTEN is 1 in *)
(* lwIP and passes the test state < TCPIP_LISTEN.                          *)
tcp_listen(p) ==
  \/ /\ pcb[p].state = "CLOSED"
     /\ \E l \in ListenPcbs \cap InState({"FREE"}) :
          /\ tcpip_raw_pcb' = l
          /\ pcb' = [pcb EXCEPT ![p] = Free,
                                ![l] = [Free EXCEPT !.state = "LISTEN", !.port = pcb[p].port]]
  \/ /\ pcb[p].state = "LISTEN" \/ ListenPcbs \cap InState({"FREE"}) = {}
     /\ tcpip_raw_pcb' = NULL
     /\ UNCHANGED pcb

TcpIp_TcpListenInPlace ==
  /\ Usable /\ pcb[tcpip_raw_pcb].state = "CLOSED"
  /\ pcb' = [pcb EXCEPT ![tcpip_raw_pcb].state = "LISTEN"]
  /\ UNCHANGED tcpip_raw_pcb
  /\ Return("E_OK")

TcpIp_TcpListen ==
  \/ tcpip_raw_pcb = NULL /\ UNCHANGED <<tcpip_raw_pcb, pcb>> /\ Return("E_NOT_OK")
  \/ tcpip_raw_pcb # NULL /\ ~Usable /\ Fault
  \/ /\ Usable /\ pcb[tcpip_raw_pcb].state \in {"CLOSED", "LISTEN"}
     /\ tcp_listen(tcpip_raw_pcb)
     /\ Return("E_OK")
  \/ /\ Usable /\ pcb[tcpip_raw_pcb].state \notin {"CLOSED", "LISTEN"}
     /\ UNCHANGED <<tcpip_raw_pcb, pcb>>
     /\ Return("E_NOT_OK")

(* The new pcb is in no variable afterwards.  tcp_connect may fail.        *)
TcpIp_TcpConnect ==
  /\ UNCHANGED tcpip_raw_pcb
  /\ \/ tcp_alloc_fails /\ UNCHANGED pcb /\ Return("E_NOT_OK")
     \/ \E p \in Pcbs, s \in {"SYN_SENT", "CLOSED"} :
          /\ tcp_alloc(p)
          /\ pcb' = [pcb EXCEPT ![p] = [Free EXCEPT !.state = s, !.recv = TRUE]]
          /\ Return(IF s = "SYN_SENT" THEN "E_OK" ELSE "E_NOT_OK")

(* With a listener in the handle tcpip_raw_close sets callbacks that only  *)
(* a connection has: what that writes over is not defined.                 *)
TcpIp_Close ==
  \/ tcpip_raw_pcb = NULL /\ UNCHANGED <<tcpip_raw_pcb, pcb>> /\ Return("E_NOT_OK")
  \/ tcpip_raw_pcb # NULL /\ ~Usable /\ Fault
  \/ Usable /\ pcb[tcpip_raw_pcb].state = "LISTEN" /\ Fault
  \/ /\ Usable /\ pcb[tcpip_raw_pcb].state # "LISTEN"
     /\ pcb' = tcpip_raw_close(pcb, tcpip_raw_pcb)
     /\ UNCHANGED tcpip_raw_pcb
     /\ Return("E_OK")

(* TcpIp_send and TcpIp_getConnState only read the pcb: with a usable      *)
(* handle they change nothing here.                                        *)
TcpIp_send == ~Usable /\ Fault

TcpIp_getConnState == ~Usable /\ Fault

Service ==
  \/ \E q \in Ports : TcpIp_Bind(q)
  \/ TcpIp_TcpListen
  \/ TcpIp_TcpConnect
  \/ TcpIp_Close
  \/ TcpIp_send
  \/ TcpIp_getConnState

-----------------------------------------------------------------------------
(* What lwIP does on its own, and the callbacks it makes.                  *)

Event == ~fault /\ UNCHANGED <<retval, fault>>

(* A SYN for a listener.  Without a pcb for it the accept callback is      *)
(* called with NULL, which it stores before it looks at the error.         *)
Syn(l) ==
  /\ Event
  /\ pcb[l].state = "LISTEN" /\ pcb[l].port # NULL
  /\ \/ /\ tcp_alloc_fails
        /\ tcpip_raw_pcb' = NULL
        /\ UNCHANGED pcb
     \/ \E p \in Pcbs :
          /\ tcp_alloc(p)
          /\ pcb' = [pcb EXCEPT ![p] = [Free EXCEPT
                       !.state = "SYN_RCVD", !.port = pcb[l].port]]
          /\ UNCHANGED tcpip_raw_pcb

(* The handshake completes.  (The listener is still there: none is ever    *)
(* closed with a defined outcome.)                                         *)
Accept(p) ==
  /\ Event
  /\ pcb[p].state = "SYN_RCVD"
  /\ tcpip_raw_pcb' = p
  /\ pcb' = tcpip_raw_accept([pcb EXCEPT ![p].state = "ESTABLISHED"], p)

(* tcpip_raw_connected only logs.                                          *)
Connected(p) ==
  /\ Event
  /\ pcb[p].state = "SYN_SENT"
  /\ pcb' = [pcb EXCEPT ![p].state = "ESTABLISHED"]
  /\ UNCHANGED tcpip_raw_pcb

(* The peer closes: lwIP calls the recv callback with NULL.                *)
PeerCloses(p) ==
  /\ Event
  /\ pcb[p].state = "ESTABLISHED"
  /\ pcb' = tcpip_raw_recv_end([pcb EXCEPT ![p].state = "CLOSE_WAIT"], p)
  /\ UNCHANGED tcpip_raw_pcb

(* Reset or timeout.  tcpip_raw_error only logs: the handle is not told.   *)
Aborted(p) ==
  /\ Event
  /\ pcb[p].state \in {"SYN_SENT", "SYN_RCVD", "ESTABLISHED"}
  /\ pcb' = [pcb EXCEPT ![p] = Free]
  /\ UNCHANGED tcpip_raw_pcb

(* The last acknowledgement, or its timeout.                               *)
Finished(p) ==
  /\ Event
  /\ pcb[p].state \in {"FIN_WAIT", "LAST_ACK"}
  /\ pcb' = [pcb EXCEPT ![p] = Free]
  /\ UNCHANGED tcpip_raw_pcb

Stack ==
  \/ \E l \in ListenPcbs : Syn(l)
  \/ \E p \in Pcbs : Accept(p) \/ Connected(p) \/ PeerCloses(p) \/ Aborted(p) \/ Finished(p)

Undefined == fault /\ UNCHANGED vars

Next == Service \/ Stack \/ Undefined

(* lwip_int_main runs lwIP's timers in each cycle, so a closing connection *)
(* ends even when the peer is silent.                                      *)
Fairness == \A p \in Pcbs : WF_vars(Finished(p))

Spec == Init /\ [][Next]_vars

FairSpec == Spec /\ Fairness

-----------------------------------------------------------------------------
(* Types; in particular connections and listeners keep to their pools.     *)
TypeOK ==
  /\ tcpip_raw_pcb \in AllPcbs \cup {NULL}
  /\ pcb \in [AllPcbs -> PcbType]
  /\ \A l \in ListenPcbs : pcb[l].state \in {"FREE", "LISTEN"}
  /\ \A p \in Pcbs : pcb[p].state # "LISTEN"
  /\ retval \in {"E_OK", "E_NOT_OK"}
  /\ fault \in BOOLEAN

(* Received data has one place to go: an established connection, however   *)
(* it came about, calls tcpip_raw_recv, and one that is closing, from      *)
(* either side, does not, so that nothing is queued after TcpIp_Close.     *)
RecvWhileOpen ==
  \A p \in AllPcbs :
    /\ pcb[p].state = "ESTABLISHED" => pcb[p].recv
    /\ pcb[p].state \in {"FREE", "LISTEN", "FIN_WAIT", "CLOSE_WAIT", "LAST_ACK"} => ~pcb[p].recv

(* The rest of the inductive invariant: an own connection has its callback *)
(* before it is established.                                               *)
IInv ==
  /\ TypeOK
  /\ RecvWhileOpen
  /\ \A p \in AllPcbs : pcb[p].state = "SYN_SENT" => pcb[p].recv

(* A connection whose peer has closed does not keep its pcb:               *)
(* tcpip_raw_recv answers the end of the stream with tcpip_raw_close, so   *)
(* the pcb is freed or given to a new connection.                          *)
PeerClosedIsFreed ==
  \A p \in Pcbs :
    (pcb[p].state \in {"CLOSE_WAIT", "LAST_ACK"})
      ~> (pcb[p].state \notin {"CLOSE_WAIT", "LAST_ACK"} \/ fault)

-----------------------------------------------------------------------------
(* A statement of a comment that the code does not keep.                   *)

(* "close the socket and release all related resources" (TcpIp.c:264): no  *)
(* service ever uses a pcb that is gone.                                   *)
NoUseAfterClose ==
  fault /\ tcpip_raw_pcb # NULL => pcb[tcpip_raw_pcb].state # "FREE"
=============================================================================
