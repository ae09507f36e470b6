------------------------------ MODULE TxPath ------------------------------
(***************************************************************************)
(* The transmit path of one connection: TcpIp_send hands data to           *)
(* tcp_write, which only queues it; the timers and the acknowledgements    *)
(* that lwip_int_main feeds to lwIP make it go out, through netif_output,  *)
(* to the MAC.  Frames may be lost, delayed, repeated and reordered.       *)
(*                                                                         *)
(* lwIP's tcp_write, tcp_output and retransmission are external, modelled  *)
(* with the options of cfg/lwipopts.h and the defaults it leaves alone;    *)
(* left out are its back-off and fast retransmit (the interval of          *)
(* LwipInt's timer stands for the retransmission time-out) and a peer that *)
(* closes its window.  Data is counted in units from the start of the      *)
(* connection, and one TcpIp_send takes at most a full segment.            *)
(***************************************************************************)
EXTENDS LwipInt

CONSTANTS
  TCP_MSS,       (* units in a full segment                     *)
  TCP_SND_BUF,   (* units queued at most                        *)
  TCP_MAXRTX,    (* retransmissions before lwIP gives up        *)
  MaxUnits       (* bound: units sent on the connection         *)

ASSUME SendAssumption ==
  /\ TCP_MSS \in Nat \ {0} /\ TCP_SND_BUF \in Nat /\ TCP_MAXRTX \in Nat
  /\ MaxUnits \in Nat

VARIABLES
  pcb,      (* lwIP's tcp_pcb, see PcbType                               *)
  peer,     (* units the peer has received in order                      *)
  retval    (* what the last TcpIp_send returned                         *)

txVars == <<lwipVars, pcb, peer, retval>>

(* A segment: a range of units, how many of them are in its first pbuf,    *)
(* and whether it is in the unacked queue, not in the unsent one.          *)
Segment ==
  [seq : 0 .. MaxUnits, end : 1 .. MaxUnits, first : 1 .. TCP_MSS, out : BOOLEAN]

(* A frame: the range of its headers, and the units really in it.          *)
Frame == [seq : 0 .. MaxUnits, end : 1 .. MaxUnits, sent : 1 .. TCP_MSS]

(* CLOSING: tcp_close has been called and lwIP still has the connection.   *)
(* It ends CLOSED in good order, RESET by the peer or TIMEDOUT.            *)
Alive == {"ESTABLISHED", "CLOSING"}
Ended == {"CLOSED", "RESET", "TIMEDOUT"}

PcbType ==
  [state   : {"NONE"} \cup Alive \cup Ended,
   written : 0 .. MaxUnits,      (* units accepted by tcp_write             *)
   una     : 0 .. MaxUnits,      (* units acknowledged                      *)
   segs    : SUBSET Segment,     (* the unsent and the unacked queue        *)
   room    : BOOLEAN,            (* the last unsent pbuf was allocated for  *)
                                 (* a full segment (unsent_oversize)        *)
   nrtx    : 0 .. TCP_MAXRTX,    (* retransmissions since the last ack      *)
   wire    : SUBSET Frame]       (* frames that may still reach the peer    *)

Size(s)    == s.end - s.seq
Whole(f)   == f.sent = f.end - f.seq
Unsent(S)  == {s \in S : ~s.out}
Unacked(S) == {s \in S : s.out}

TxInit ==
  /\ LwipInit
  /\ pcb = [state |-> "NONE", written |-> 0, una |-> 0, segs |-> {},
            room |-> FALSE, nrtx |-> 0, wire |-> {}]
  /\ peer = 0
  /\ retval = 0

-----------------------------------------------------------------------------
(* TcpIp_send.                                                             *)

NewSegment(seq, n) == [seq |-> seq, end |-> seq + n, first |-> n, out |-> FALSE]

(* What n more units make of the last unsent segment s: they fill the room *)
(* its last pbuf has, or come in a pbuf of their own chained to it.        *)
Extended(s, n) ==
  [s EXCEPT !.end = @ + n,
            !.first = IF pcb.room /\ @ = Size(s) THEN @ + n ELSE @]

(* The unsent segment at the end of the queue, if there is one.            *)
LastUnsent == {s \in Unsent(pcb.segs) : s.end = pcb.written}

(* fill of n units fit the last unsent segment.                            *)
Fits(fill, n) ==
  /\ LastUnsent = {} => fill = 0
  /\ \A s \in LastUnsent :
       fill = IF n < TCP_MSS - Size(s) THEN n ELSE TCP_MSS - Size(s)

(* tcp_write of n units: all or nothing.  A new segment gets a pbuf for a  *)
(* full one only when something is queued already, a chained pbuf always   *)
(* gets one for all the space.                                             *)
tcp_write(n) ==
  /\ n <= TCP_SND_BUF - (pcb.written - pcb.una)
  /\ \E fill \in 0 .. n :
       /\ Fits(fill, n)
       /\ pcb' = [pcb EXCEPT
            !.segs = (@ \ LastUnsent)
                       \cup {IF fill = 0 THEN s ELSE Extended(s, fill) : s \in LastUnsent}
                       \cup (IF fill = n THEN {}
                             ELSE {NewSegment(pcb.written + fill, n - fill)}),
            !.room = pcb.segs # {},
            !.written = @ + n]

TcpIp_sendKeepsTrying ==
  /\ \E n \in 1 .. TCP_MSS :
       /\ pcb.written + n <= MaxUnits
       /\ \/ pcb.state = "ESTABLISHED" /\ tcp_write(n) /\ retval' = 0
          \/ pcb.state \in Alive /\ retval' = -2 /\ UNCHANGED pcb
  /\ UNCHANGED <<lwipVars, peer>>

(* TcpIp_send(pdata, n) with pdata # NULL: 0; -2 when lwIP's buffers or    *)
(* its memory are full; -3 when the connection is closing.  (Later calls   *)
(* use a stale pcb: TcpConn.)                                              *)
TcpIp_send ==
  /\ \E n \in 1 .. TCP_MSS :
       /\ pcb.written + n <= MaxUnits
       /\ \/ pcb.state = "ESTABLISHED" /\ tcp_write(n) /\ retval' = 0
          \/ pcb.state = "ESTABLISHED" /\ retval' = -2 /\ UNCHANGED pcb
          \/ pcb.state = "CLOSING" /\ retval' = -3 /\ UNCHANGED pcb
  /\ UNCHANGED <<lwipVars, peer>>

-----------------------------------------------------------------------------
(* Output.                                                                 *)

(* netif_output(netif, p): p is the first pbuf of the segment s and only   *)
(* p->len is sent.                                                         *)
netif_output(s) == [seq |-> s.seq, end |-> s.end, sent |-> s.first]

(* What tcp_output may make of q: some unsent segments go out in order, at *)
(* least one if nothing is unacked.  None otherwise is Nagle's algorithm,  *)
(* fewer than all the peer's window.                                       *)
tcp_output(q) ==
  {LET now == {s \in Unsent(q.segs) : s.end <= n}
   IN  [q EXCEPT !.segs = (@ \ now) \cup {[s EXCEPT !.out = TRUE] : s \in now},
                 !.room = @ /\ now # Unsent(q.segs),
                 !.wire = {f \in @ \cup {netif_output(s) : s \in now} : f.end > peer}] :
     n \in {s.end : s \in Unsent(q.segs)}
             \cup (IF Unacked(q.segs) = {} /\ q.segs # {} THEN {} ELSE {0})}

-----------------------------------------------------------------------------
(* What lwip_int_main does for the connection, as the set of its outcomes. *)

(* An acknowledgement of a units arrives.                                  *)
tcp_receive(q, a) ==
  LET acked == [q EXCEPT !.una = a,
                         !.segs = {s \in @ : s.end > a},
                         !.nrtx = IF a > q.una THEN 0 ELSE @]
  IN  tcp_output(acked)
        \cup (IF q.state = "CLOSING" /\ a = q.written
              THEN {[acked EXCEPT !.state = "CLOSED"]} ELSE {})

(* The handshake is complete, tcpip_raw_accept takes the connection.       *)
tcpip_raw_accept(q) == {[q EXCEPT !.state = "ESTABLISHED"]}

(* tcpip_raw_close: the callbacks are cleared, what is queued stays with   *)
(* lwIP.  tcp_close resets only a connection with unread data, and         *)
(* tcpip_raw_recv has opened the window again (CloseSendsFin in RxPath).   *)
tcpip_raw_close(q) == {[q EXCEPT !.state = "CLOSING"]}

(* A frame: one for somebody else, the last of the handshake, an           *)
(* acknowledgement, the peer's FIN (tcpip_raw_recv with p = NULL), or its  *)
(* RST (tcpip_raw_error).                                                  *)
Frames(q) ==
  {q}
    \cup (IF q.state = "NONE" THEN tcpip_raw_accept(q) ELSE {})
    \cup (IF q.state \in Alive
            THEN (UNION {tcp_receive(q, a) : a \in q.una .. peer})
                   \cup {[q EXCEPT !.state = "RESET"]}
            ELSE {})
    \cup (IF q.state = "ESTABLISHED" THEN tcpip_raw_close(q) ELSE {})

(* The timer of lwIP: what is unacked goes back to the unsent queue and is *)
(* sent again, TCP_MAXRTX times; what waits is sent.  A connection that    *)
(* has been closing for too long is given up.                              *)
tcp_tmr(q) ==
  IF q.state \notin Alive THEN {q}
  ELSE (IF Unacked(q.segs) = {} THEN tcp_output(q)
        ELSE IF q.nrtx < TCP_MAXRTX
        THEN tcp_output([q EXCEPT !.segs = {[s EXCEPT !.out = FALSE] : s \in @},
                                  !.nrtx = @ + 1])
        ELSE {[q EXCEPT !.state = "TIMEDOUT"]})
         \cup (IF q.state = "CLOSING" THEN {[q EXCEPT !.state = "TIMEDOUT"]} ELSE {})

(* TcpIp_MainFunction: the frame first, then the timer, which runs as long *)
(* as there is a connection, this one or another.                          *)
TcpIp_MainFunction ==
  /\ \E frame, fires \in BOOLEAN :
       /\ lwip_int_main(frame, fires)
       /\ \E q \in IF frame THEN Frames(pcb) ELSE {pcb} :
            pcb' \in IF fires THEN tcp_tmr(q) ELSE {q}
  /\ pcb'.state \in Alive => armed'
  /\ UNCHANGED <<peer, retval>>

-----------------------------------------------------------------------------
(* A whole frame reaches the peer, which takes what continues its stream.  *)
PeerReceives ==
  /\ \E f \in pcb.wire : Whole(f) /\ f.seq <= peer /\ peer < f.end /\ peer' = f.end
  /\ pcb' = [pcb EXCEPT !.wire = {f \in @ : f.end > peer'}]
  /\ UNCHANGED <<lwipVars, retval>>

(* TcpIp_Init, an OS tick, and another connection that needs the timer.    *)
Elsewhere ==
  /\ lwip_int_init \/ Tick \/ tcp_timer_needed
  /\ UNCHANGED <<pcb, peer, retval>>

TxNext ==
  \/ TcpIp_send
  \/ TcpIp_MainFunction
  \/ PeerReceives
  \/ Elsewhere

TxSpec == TxInit /\ [][TxNext]_txVars

(* Time passes and the scheduler keeps calling TcpIp_MainFunction.         *)
TxFairSpec == TxSpec /\ WF_txVars(Tick /\ Elsewhere) /\ WF_txVars(TcpIp_MainFunction)

-----------------------------------------------------------------------------
(* Types; lwIP never queues more than TCP_SND_BUF and the peer never has   *)
(* more than was accepted.                                                 *)
TxTypeOK ==
  /\ LwipTypeOK
  /\ pcb \in PcbType
  /\ peer \in pcb.una .. pcb.written
  /\ pcb.written - pcb.una <= TCP_SND_BUF
  /\ retval \in {0, -2, -3}

(* TcpIp_send never calls tcp_output (TcpIp.c:133), yet every unit it      *)
(* accepted is acknowledged in the end, or the connection is lost, on any  *)
(* network: the timers that lwip_int_main drives do the rest.              *)
SentIsDecided ==
  \A u \in 1 .. MaxUnits :
    pcb.written >= u ~> pcb.una >= u \/ pcb.state \in {"RESET", "TIMEDOUT"}

(* TcpIp_send and all that follows is a reliable stream: it says 0 exactly *)
(* for what it takes, and the peer gets that in order, or the connection   *)
(* is lost.                                                                *)
Status ==
  CASE pcb.state = "NONE"               -> "none"
    [] pcb.state = "ESTABLISHED"        -> "open"
    [] pcb.state = "CLOSING"            -> "closing"
    [] pcb.state = "CLOSED"             -> "ended"
    [] pcb.state \in {"RESET", "TIMEDOUT"} -> "lost"

Stream == INSTANCE TxStream WITH
            accepted <- pcb.written, delivered <- peer, acked <- pcb.una,
            status <- Status, told <- retval

StreamSpec == Stream!Spec

(* The safety behind SentIsDecided: while there is a connection, each unit *)
(* accepted and not yet acknowledged is in exactly one segment, through    *)
(* extensions, partial acknowledgements and retransmissions, and the timer *)
(* that sends it is running.                                               *)
AcceptedIsQueued ==
  pcb.state \in Alive =>
    /\ armed
    /\ \A u \in pcb.una + 1 .. pcb.written :
         \E s \in pcb.segs : \A t \in pcb.segs : t.seq < u /\ u <= t.end <=> t = s

(* What keeps these true, of the connection q: a segment is at least as    *)
(* long as its first pbuf, no longer than TCP_MSS, and ends within what    *)
(* was written, and so do the frames.                                      *)
PcbOK(q) ==
  /\ q \in PcbType
  /\ q.una <= peer /\ peer <= q.written
  /\ q.written - q.una <= TCP_SND_BUF
  /\ \A s \in q.segs : /\ s.seq + s.first <= s.end
                       /\ s.end <= s.seq + TCP_MSS
                       /\ s.end <= q.written
  /\ \A f \in q.wire : f.end <= q.written
  /\ q.state = "CLOSED" => q.una = q.written

(* The segments are apart and there is no gap between them.                *)
Disjoint(S) == \A s, t \in S : s # t => s.end <= t.seq \/ t.end <= s.seq

Covered(q) ==
  \A u \in q.una + 1 .. q.written : \E s \in q.segs : s.seq < u /\ u <= s.end

QueueInv ==
  /\ Disjoint(pcb.segs) /\ Covered(pcb)
  /\ armed => up
  /\ pcb.state \in Alive => armed

TxInv ==
  /\ PcbOK(pcb)
  /\ pcb.state = "NONE" => pcb.segs = {}
  /\ peer \in Nat
  /\ retval \in {0, -2, -3}

-----------------------------------------------------------------------------
(* "Sending packet of len" (lwip_int.c:52): the packet given to the MAC is *)
(* all of the pbuf chain that lwIP sends, not its first pbuf.              *)
FramesWhole == \A f \in pcb.wire : Whole(f)
=============================================================================
