------------------------------- MODULE RxPath -------------------------------
(***************************************************************************)
(* The receive path from the wire to the application: lwip_int_main takes  *)
(* a frame into a pbuf, lwIP orders the segments of the connection and     *)
(* calls tcpip_raw_recv, which opens the window again, queues the pbuf and *)
(* frees it; TcpIp_recv copies the data out.  The queue is that of         *)
(* RxQueue; all functions run to completion.                               *)
(*                                                                         *)
(* Any number of connections, accepted or own, can be open and closing at  *)
(* a time: each has a stream and a window of its own, and all feed the one *)
(* queue.                                                                  *)
(*                                                                         *)
(* lwIP is external: Discard, Hold and Deliver are what it does with a     *)
(* frame, with the defaults that cfg/lwipopts.h leaves alone (a frame fits *)
(* one pool pbuf, out-of-order segments are kept and chained to the one    *)
(* that closes the gap).  Data is counted in segments; a message is the    *)
(* connection and the segment it is from.                                  *)
(***************************************************************************)
EXTENDS RxQueue

CONSTANTS
  Conns,      (* the connections there will ever be      *)
  TCP_WND,    (* the receive window, in segments         *)
  MaxSeg      (* bound: segments sent on each connection *)

ASSUME WindowAssumption == TCP_WND \in Nat \ {0}
ASSUME BoundAssumption  == MaxSeg \in Nat

VARIABLES
  ref,        (* reference count of each pbuf                            *)
  content,    (* what the payload of each pbuf holds: a message, or NULL *)
  state,      (* of each connection; OPEN: it calls tcpip_raw_recv       *)
  rcv_nxt,    (* the next segment of its stream                          *)
  rcv_wnd,    (* its receive window                                      *)
  ooseq,      (* the pbuf holding each segment that came too early       *)
  got,        (* what the last TcpIp_recv copied to its caller           *)
  filled,     (* history: the message each node was queued for           *)
  last        (* history: the last segment of each connection that was   *)
              (* taken off the queue                                     *)

tcp      == <<state, rcv_nxt, rcv_wnd, ooseq>>
pathVars == <<vars, ref, content, state, rcv_nxt, rcv_wnd, ooseq, got, filled, last>>

(* FIN and RST: closed here, with the one or the other sent; LOST: reset   *)
(* or given up.                                                            *)
ConnStates == {"NONE", "OPEN", "FIN", "RST", "LOST"}

Segments == 1 .. MaxSeg

Messages == Conns \X Segments

ASSUME MessageAssumption == NULL \notin Messages

NoneHeld == [k \in Segments |-> NULL]

PathInit ==
  /\ Init
  /\ ref = [b \in Pbufs |-> 0]
  /\ content = [b \in Pbufs |-> NULL]
  /\ state = [c \in Conns |-> "NONE"]
  /\ rcv_nxt = [c \in Conns |-> 1]
  /\ rcv_wnd = [c \in Conns |-> TCP_WND]
  /\ ooseq = [c \in Conns |-> NoneHeld]
  /\ got = NULL
  /\ filled = [n \in Nodes |-> NULL]
  /\ last = [c \in Conns |-> 0]

-----------------------------------------------------------------------------
(* lwIP's buffers.                                                         *)

(* pbuf_alloc and pbuf_take: some free pbuf now holds m and one reference. *)
Receive(b, m) ==
  /\ ref[b] = 0
  /\ content' = [content EXCEPT ![b] = m]

(* One reference less to each pbuf of S; b was allocated in this step.     *)
pbuf_free(S, b) ==
  ref' = [x \in Pbufs |->
            LET r == IF x = b THEN 1 ELSE ref[x] IN IF x \in S THEN r - 1 ELSE r]

(* Segments k+1 .. e-1 of connection c are held by lwIP and e is not.      *)
Gap(c, k, e) ==
  /\ \A j \in k + 1 .. e - 1 : ooseq[c][j] # NULL
  /\ e \in Segments => ooseq[c][e] = NULL

Holds(c, b) == \E k \in Segments : ooseq[c][k] = b

(* tcp_pcb_purge: what is held for c is given back. *)
Purge(c) ==
  /\ ref' = [b \in Pbufs |-> IF Holds(c, b) THEN ref[b] - 1 ELSE ref[b]]
  /\ ooseq' = [ooseq EXCEPT ![c] = NoneHeld]

-----------------------------------------------------------------------------
(* tcp_recved: the receive window w grows by n. *)
tcp_recved(w, n) == w + n

(* tcpip_raw_recv(c, p) with err = ERR_OK and p # NULL: b is the first     *)
(* pbuf of p, S all of them and n their tot_len.                           *)
tcpip_raw_recvFreesFirst(c, b, S, n) ==
  /\ rcv_wnd' = [rcv_wnd EXCEPT ![c] = tcp_recved(@ - n, n)]
  /\ push_to_rx_ctrl_blk(b)
  /\ pbuf_free({b}, b)

tcpip_raw_recvOpensByFirst(c, b, S, n) ==
  /\ rcv_wnd' = [rcv_wnd EXCEPT ![c] = tcp_recved(@ - n, 1)]
  /\ push_to_rx_ctrl_blk(b)
  /\ pbuf_free(S, b)

tcpip_raw_recv(c, b, S, n) ==
  /\ rcv_wnd' = [rcv_wnd EXCEPT ![c] = tcp_recved(@ - n, n)]
  /\ push_to_rx_ctrl_blk(b)
  /\ pbuf_free(S, b)

(* The history of a push: the node taken, if any, is filled for m.         *)
RecordPush(m) ==
  filled' = [n \in Nodes |-> IF get_new_tcpip_mpool(n) THEN m ELSE filled[n]]

(* How often the interface's input function frees its frame, when it       *)
(* answers ERR_OK (ok) and when not; and how often lwip_int_main then does.*)
InputFrees(ok)         == IF ok THEN 1 ELSE 0
lwip_int_mainFrees(ok) == IF ok THEN 0 ELSE 1

(* A frame that is no data for an open connection: another protocol, an    *)
(* empty segment, one for nobody, or (m not NULL) one that is repeated or  *)
(* refused.                                                                *)
Discard(m) ==
  /\ \E b \in Pbufs, ok \in BOOLEAN :
       /\ Receive(b, m)
       /\ ref' = [ref EXCEPT ![b] = (1 - InputFrees(ok)) - lwip_int_mainFrees(ok)]
  /\ UNCHANGED <<vars, tcp, got, filled, last>>

DiscardOther == Discard(NULL)

DiscardRepeated ==
  \E c \in Conns : state[c] = "OPEN" /\ \E k \in 1 .. rcv_nxt[c] - 1 : Discard(<<c, k>>)

InWindow(c, k) ==
  state[c] = "OPEN" /\ rcv_nxt[c] <= k /\ k < rcv_nxt[c] + rcv_wnd[c]

Hold ==
  \E c \in Conns, k \in Segments, b \in Pbufs :
    /\ InWindow(c, k) /\ k # rcv_nxt[c] /\ ooseq[c][k] = NULL
    /\ Receive(b, <<c, k>>)
    /\ pbuf_free({}, b)
    /\ ooseq' = [ooseq EXCEPT ![c][k] = b]
    /\ UNCHANGED <<vars, state, rcv_nxt, rcv_wnd, got, filled, last>>

(* The expected segment arrives; those held up to the next gap e are       *)
(* chained to it and all go to the recv callback together.                 *)
DeliverTo(c, b, e) ==
  /\ InWindow(c, rcv_nxt[c]) /\ Gap(c, rcv_nxt[c], e)
  /\ Receive(b, <<c, rcv_nxt[c]>>)
  /\ tcpip_raw_recv(c, b, {b} \cup {ooseq[c][j] : j \in rcv_nxt[c] + 1 .. e - 1},
                    e - rcv_nxt[c])
  /\ RecordPush(<<c, rcv_nxt[c]>>)
  /\ rcv_nxt' = [rcv_nxt EXCEPT ![c] = e]
  /\ ooseq' = [ooseq EXCEPT ![c] = [j \in Segments |-> IF j < e THEN NULL ELSE @[j]]]
  /\ UNCHANGED <<state, got, last>>

Deliver ==
  \E c \in Conns, b \in Pbufs : \E e \in rcv_nxt[c] + 1 .. MaxSeg + 1 : DeliverTo(c, b, e)

(* lwip_int_main with a packet received.  Without a free pbuf p is NULL    *)
(* and the frame is dropped.                                               *)
lwip_int_main ==
  \/ DiscardOther \/ DiscardRepeated \/ Hold \/ Deliver
  \/ (\A b \in Pbufs : ref[b] > 0) /\ UNCHANGED pathVars

(* tcpip_raw_accept: recv is set.  (TcpIp_TcpConnect sets it in the same   *)
(* way for an own connection.)                                             *)
tcpip_raw_accept(c) ==
  /\ state[c] = "NONE"
  /\ state' = [state EXCEPT ![c] = "OPEN"]
  /\ UNCHANGED <<vars, ref, content, rcv_nxt, rcv_wnd, ooseq, got, filled, last>>

(* tcp_close resets a connection whose window is not whole, taking that    *)
(* for unread data.                                                        *)
tcp_close(c) == IF rcv_wnd[c] = TCP_WND THEN "FIN" ELSE "RST"

(* tcpip_raw_close, from tcpip_raw_recv with p = NULL or from TcpIp_Close: *)
(* the callbacks are cleared.  The queue is not touched.                   *)
tcpip_raw_close(c) ==
  /\ state[c] = "OPEN"
  /\ state' = [state EXCEPT ![c] = tcp_close(c)]
  /\ UNCHANGED <<vars, ref, content, rcv_nxt, rcv_wnd, ooseq, got, filled, last>>

(* Reset or timeout: lwIP frees the pcb.  tcpip_raw_error only logs.       *)
tcpip_raw_error(c) ==
  /\ state[c] = "OPEN"
  /\ state' = [state EXCEPT ![c] = "LOST"]
  /\ Purge(c)
  /\ UNCHANGED <<vars, content, rcv_nxt, rcv_wnd, got, filled, last>>

(* What lwIP still holds of a connection closed here goes with its pcb, or *)
(* to no callback when the gap is filled.                                  *)
Finished(c) ==
  /\ state[c] \in {"FIN", "RST"} /\ ooseq[c] # NoneHeld
  /\ Purge(c)
  /\ UNCHANGED <<vars, content, state, rcv_nxt, rcv_wnd, got, filled, last>>

(* The history of a pop: what the head was filled for has been taken.      *)
RecordPop ==
  last' = IF ret' = NULL THEN last
          ELSE [last EXCEPT ![filled[rx_bufhead][1]] = filled[rx_bufhead][2]]

(* TcpIp_recv(pdata) with pdata # NULL (otherwise it does nothing): copies *)
(* what the first pbuf of the popped message holds NOW.                    *)
TcpIp_recvGivesPbuf ==
  /\ pop_pbuf_from_rx_ctrl_blk
  /\ got' = ret'
  /\ RecordPop
  /\ UNCHANGED <<ref, content, tcp, filled>>

TcpIp_recv ==
  /\ pop_pbuf_from_rx_ctrl_blk
  /\ got' = IF ret' = NULL THEN NULL ELSE content[ret']
  /\ RecordPop
  /\ UNCHANGED <<ref, content, tcp, filled>>

PathNext ==
  \/ lwip_int_main
  \/ \E c \in Conns : tcpip_raw_accept(c) \/ tcpip_raw_close(c) \/ tcpip_raw_error(c) \/ Finished(c)
  \/ TcpIp_recv

PathSpec == PathInit /\ [][PathNext]_pathVars

-----------------------------------------------------------------------------
(* Types of the variables of this module and of the queue.                 *)
PathTypeOK ==
  /\ TypeOK
  /\ ref \in [Pbufs -> 0 .. 1]
  /\ content \in [Pbufs -> Messages \cup {NULL}]
  /\ state \in [Conns -> ConnStates]
  /\ rcv_nxt \in [Conns -> 1 .. MaxSeg + 1]
  /\ rcv_wnd \in [Conns -> 0 .. TCP_WND]
  /\ ooseq \in [Conns -> [Segments -> Pbufs \cup {NULL}]]
  /\ got \in Messages \cup {NULL}
  /\ filled \in [Nodes -> Messages \cup {NULL}]
  /\ last \in [Conns -> 0 .. MaxSeg]

(* Whatever the order of frames, closes and reads, every pbuf goes back to *)
(* lwIP exactly once: between two calls only the segments lwIP holds for   *)
(* itself are allocated, each in one place.                                *)
PbufsConserved ==
  /\ \A b \in Pbufs : ref[b] = IF \E c \in Conns : Holds(c, b) THEN 1 ELSE 0
  /\ \A c, d \in Conns : \A j, k \in Segments :
       ooseq[c][j] # NULL /\ ooseq[c][j] = ooseq[d][k] => c = d /\ j = k

(* Connections feed the one queue interleaved, close and are lost with     *)
(* data still queued; yet the messages of each leave it in the order of    *)
(* its stream, each at most once: the next one is newer than all taken     *)
(* before it.                                                              *)
WaitingIsNew ==
  rx_bufhead # NULL => LET m == filled[rx_bufhead] IN m[2] > last[m[1]]

(* No close is a reset.  tcp_close sends a RST, and throws away what       *)
(* TcpIp_send has queued, when the window is not whole.  Only              *)
(* tcpip_raw_recv opens it (TcpIp.c:205; TcpIp_TcpReceived is empty), so   *)
(* it must have done so for every chain, and also for what the full queue  *)
(* has refused or lost, by the time either side closes.                    *)
CloseSendsFin == \A c \in Conns : state[c] # "RST"

(* The path as a whole keeps a message whenever none waits, however many   *)
(* nodes the queue has lost and however many connections feed it, and      *)
(* hands out those of each connection in order, each once.                 *)
Service == INSTANCE RxStream WITH
             position <- rcv_nxt,
             slot <- IF rx_bufhead = NULL THEN NULL ELSE filled[rx_bufhead]

ServiceSpec == Service!Spec

(* What keeps these true: the stream of a connection is ahead of what is   *)
(* queued or read of it, lwIP holds only segments ahead of the stream, and *)
(* the window of an open connection is whole between two calls.            *)
StreamAhead ==
  /\ \A c \in Conns : last[c] < rcv_nxt[c]
  /\ rx_bufhead # NULL => LET m == filled[rx_bufhead]
                          IN  m \in Messages /\ m[2] < rcv_nxt[m[1]]

HeldAhead == \A c \in Conns, k \in Segments : ooseq[c][k] # NULL => k > rcv_nxt[c]

WindowWhole == \A c \in Conns : rcv_wnd[c] = TCP_WND

PathInv ==
  /\ IInv
  /\ PathTypeOK
  /\ PbufsConserved
  /\ WaitingIsNew
  /\ StreamAhead
  /\ HeldAhead
  /\ WindowWhole

-----------------------------------------------------------------------------
(* A statement of a comment that the code does not keep.                   *)

(* "allocate memory to store the overhead (not data)" (TcpIp.c:61): the    *)
(* data of a queued message stays in its pbuf, so TcpIp_recv returns what  *)
(* was queued.                                                             *)
DeliversWhatWasQueued ==
  [][last' # last => got' = filled[rx_bufhead]]_pathVars
=============================================================================
