---------------------------- MODULE RxPath_proofs ----------------------------
(***************************************************************************)
(* The receive path drives the queue only through push and pop, so all     *)
(* that is proved of RxQueue holds in it; and, for every number of pbufs,  *)
(* segments and connections open at a time, no pbuf is leaked or freed     *)
(* twice and the messages of each connection leave the queue in order,     *)
(* each once.                                                              *)
(***************************************************************************)
EXTENDS RxPath, RxQueue_proofs

USE PoolSizeAssumption, CntModAssumption, NullAssumption, WindowAssumption, BoundAssumption

(* Every step of the path is a push, a pop or nothing for the queue. *)
LEMMA QueueStep == [PathNext]_pathVars => [Next]_vars
<1> SUFFICES ASSUME [PathNext]_pathVars PROVE [Next]_vars
  OBVIOUS
<1>1. CASE lwip_int_main
  BY <1>1 DEF lwip_int_main, DiscardOther, DiscardRepeated, Discard, Hold, Deliver, DeliverTo,
              tcpip_raw_recv, pathVars, Next, Push
<1>2. ASSUME NEW c \in Conns,
             tcpip_raw_accept(c) \/ tcpip_raw_close(c) \/ tcpip_raw_error(c) \/ Finished(c)
      PROVE  [Next]_vars
  BY <1>2 DEF tcpip_raw_accept, tcpip_raw_close, tcpip_raw_error, Finished
<1>3. CASE TcpIp_recv
  BY <1>3 DEF TcpIp_recv, Next, Pop
<1>4. CASE UNCHANGED pathVars
  BY <1>4 DEF pathVars
<1>5. QED
  BY <1>1, <1>2, <1>3, <1>4 DEF PathNext

(* The receive path uses the queue as RxQueue says: its theorems hold here.*)
THEOREM PathUsesQueue == PathSpec => Spec
<1>1. PathInit => Init
  BY DEF PathInit
<1>2. QED
  BY <1>1, QueueStep, PTL DEF PathSpec, Spec

-----------------------------------------------------------------------------
(* All reference counts are zero. *)
LEMMA NoRefs == [b \in Pbufs |-> 0] \in [Pbufs -> 0 .. 1]
<1>1. 0 \in 0 .. 1
  OBVIOUS
<1>2. QED
  BY <1>1, Zenon

(* Initially no pbuf is used, nothing is queued, held or read. *)
LEMMA PathInitInv == PathInit => PathInv
<1> SUFFICES ASSUME PathInit PROVE PathInv
  OBVIOUS
<1>1. IInv
  BY InitInv DEF PathInit
<1>2. PathTypeOK
  <2>1. ooseq \in [Conns -> [Segments -> Pbufs \cup {NULL}]]
    BY DEF NoneHeld, PathInit
  <2>2. filled \in [Nodes -> Messages \cup {NULL}] /\ content \in [Pbufs -> Messages \cup {NULL}]
    BY DEF PathInit
  <2>3. ref \in [Pbufs -> 0 .. 1]
    BY NoRefs DEF PathInit
  <2>4. rcv_nxt \in [Conns -> 1 .. MaxSeg + 1]
    <3>1. 1 \in 1 .. MaxSeg + 1
      OBVIOUS
    <3>2. QED
      BY <3>1, Zenon DEF PathInit
  <2>5. rcv_wnd \in [Conns -> 0 .. TCP_WND]
    <3>1. TCP_WND \in 0 .. TCP_WND
      OBVIOUS
    <3>2. QED
      BY <3>1, Zenon DEF PathInit
  <2>6. last \in [Conns -> 0 .. MaxSeg]
    <3>1. 0 \in 0 .. MaxSeg
      OBVIOUS
    <3>2. QED
      BY <3>1, Zenon DEF PathInit
  <2>7. state \in [Conns -> ConnStates] /\ got \in Messages \cup {NULL}
    BY DEF PathInit, ConnStates
  <2>8. QED
    BY <1>1, <2>1, <2>2, <2>3, <2>4, <2>5, <2>6, <2>7 DEF PathTypeOK, IInv
<1>3. PbufsConserved /\ HeldAhead
  BY DEF PathInit, PbufsConserved, HeldAhead, NoneHeld, Holds
<1>4. WaitingIsNew /\ StreamAhead /\ WindowWhole
  BY DEF PathInit, Init, WaitingIsNew, StreamAhead, WindowWhole
<1>5. QED
  BY <1>1, <1>2, <1>3, <1>4 DEF PathInv

(* A frame that is not kept. *)
LEMMA DiscardInv ==
  ASSUME PathInv, NEW m \in Messages \cup {NULL}, Discard(m)
  PROVE  PathInv'
<1> USE DEF PathInv
<1>1. PICK b \in Pbufs, ok \in BOOLEAN :
        /\ Receive(b, m)
        /\ ref' = [ref EXCEPT ![b] = (1 - InputFrees(ok)) - lwip_int_mainFrees(ok)]
  BY DEF Discard
<1>2. ref' = ref
  <2>1. (1 - InputFrees(ok)) - lwip_int_mainFrees(ok) = 0
    BY DEF InputFrees, lwip_int_mainFrees
  <2>2. QED
    BY <1>1, <2>1 DEF Receive, PathTypeOK
<1>3. IInv'
  BY QueueUnchangedInv DEF Discard, vars
<1>4. PathTypeOK'
  BY <1>1, <1>2, <1>3 DEF Discard, tcp, Receive, PathTypeOK, IInv
<1>5. PbufsConserved' /\ WaitingIsNew' /\ StreamAhead' /\ HeldAhead' /\ WindowWhole'
  BY <1>2 DEF Discard, tcp, vars, PbufsConserved, Holds, WaitingIsNew, StreamAhead, HeldAhead,
              WindowWhole
<1>6. QED
  BY <1>3, <1>4, <1>5

(* A segment that lwIP keeps for later. *)
LEMMA HoldInv == ASSUME PathInv, Hold PROVE PathInv'
<1> USE DEF PathInv
<1>1. PICK c \in Conns, k \in Segments, b \in Pbufs :
        /\ InWindow(c, k) /\ k # rcv_nxt[c] /\ ooseq[c][k] = NULL
        /\ Receive(b, <<c, k>>)
        /\ pbuf_free({}, b)
        /\ ooseq' = [ooseq EXCEPT ![c][k] = b]
        /\ UNCHANGED <<vars, state, rcv_nxt, rcv_wnd, got, filled, last>>
  BY DEF Hold
<1>2. ref' = [ref EXCEPT ![b] = 1] /\ ref[b] = 0
  BY <1>1 DEF Receive, pbuf_free, PathTypeOK
<1>3. \A d \in Conns, j \in Segments : ooseq[d][j] # b
  BY <1>1, <1>2 DEF PbufsConserved, Holds
<1>4. IInv'
  BY <1>1, QueueUnchangedInv DEF vars
<1>5. PathTypeOK'
  <2>1. content' \in [Pbufs -> Messages \cup {NULL}]
    BY <1>1 DEF Receive, PathTypeOK, Messages
  <2>2. ref' \in [Pbufs -> 0 .. 1] /\ ooseq' \in [Conns -> [Segments -> Pbufs \cup {NULL}]]
    BY <1>1, <1>2 DEF PathTypeOK
  <2>3. QED
    BY <1>1, <1>4, <2>1, <2>2 DEF PathTypeOK, IInv
<1>6. \A d \in Conns, j \in Segments :
        ooseq'[d][j] = IF d = c /\ j = k THEN b ELSE ooseq[d][j]
  BY <1>1 DEF PathTypeOK
<1>7. PbufsConserved'
  <2>1. \A x \in Pbufs : ref'[x] = IF \E d \in Conns : Holds(d, x)' THEN 1 ELSE 0
    BY <1>1, <1>2, <1>3, <1>6 DEF PbufsConserved, Holds, PathTypeOK
  <2>2. \A d, f \in Conns : \A i, j \in Segments :
          ooseq'[d][i] # NULL /\ ooseq'[d][i] = ooseq'[f][j] => d = f /\ i = j
    BY <1>3, <1>6 DEF PbufsConserved
  <2>3. QED
    BY <2>1, <2>2 DEF PbufsConserved
<1>8. HeldAhead'
  BY <1>1, <1>6 DEF HeldAhead, InWindow, PathTypeOK, Segments
<1>9. WaitingIsNew' /\ StreamAhead' /\ WindowWhole'
  BY <1>1 DEF vars, WaitingIsNew, StreamAhead, WindowWhole
<1>10. QED
  BY <1>4, <1>5, <1>7, <1>8, <1>9

(* What a push does to the history of the head. *)
LEMMA PushRecord ==
  ASSUME PathInv, NEW m \in Messages, NEW b \in Pbufs,
         push_to_rx_ctrl_blk(b), RecordPush(m)
  PROVE  /\ filled' \in [Nodes -> Messages \cup {NULL}]
         /\ \/ /\ rx_bufhead' = rx_bufhead
               /\ rx_bufhead # NULL => filled'[rx_bufhead] = filled[rx_bufhead]
            \/ /\ rx_bufhead = NULL
               /\ rx_bufhead' # NULL
               /\ filled'[rx_bufhead'] = m
<1> USE DEF PathInv
<1>1. filled' \in [Nodes -> Messages \cup {NULL}]
  BY DEF RecordPush, PathTypeOK
<1>2. rx_bufhead # NULL => ~get_new_tcpip_mpool(rx_bufhead)
  BY DEF IInv, HeadAcquired, AcquiredNodes, get_new_tcpip_mpool, FreeNodes
<1>3. rx_bufhead # NULL => filled'[rx_bufhead] = filled[rx_bufhead]
  BY <1>2 DEF RecordPush, IInv, TypeOK
<1>4. CASE UNCHANGED rx_bufhead
  BY <1>1, <1>3, <1>4
<1>5. ASSUME NEW n \in Nodes, get_new_tcpip_mpool(n), Enqueue(n, b), rx_bufhead = NULL
      PROVE  rx_bufhead' # NULL /\ filled'[rx_bufhead'] = m
  BY <1>5 DEF Enqueue, RecordPush
<1>6. QED
  BY <1>1, <1>3, <1>4, <1>5 DEF push_to_rx_ctrl_blk, Enqueue

(* The expected segment, with those chained to it, goes to the callback. *)
LEMMA DeliverInv ==
  ASSUME PathInv, NEW c \in Conns, NEW b \in Pbufs,
         NEW e \in rcv_nxt[c] + 1 .. MaxSeg + 1, DeliverTo(c, b, e)
  PROVE  PathInv'
<1> USE DEF PathInv
<1> DEFINE chain == {b} \cup {ooseq[c][j] : j \in rcv_nxt[c] + 1 .. e - 1}
           m == <<c, rcv_nxt[c]>>
<1>1. /\ InWindow(c, rcv_nxt[c]) /\ Gap(c, rcv_nxt[c], e)
      /\ Receive(b, m)
      /\ tcpip_raw_recv(c, b, chain, e - rcv_nxt[c])
      /\ RecordPush(m)
      /\ rcv_nxt' = [rcv_nxt EXCEPT ![c] = e]
      /\ ooseq' = [ooseq EXCEPT ![c] = [j \in Segments |-> IF j < e THEN NULL ELSE ooseq[c][j]]]
      /\ UNCHANGED <<state, got, last>>
  BY DEF DeliverTo, PathTypeOK
<1>2. /\ rcv_nxt[c] \in Nat \ {0} /\ e \in Nat /\ e > rcv_nxt[c]
      /\ rcv_nxt[c] \in Segments /\ e <= MaxSeg + 1
  BY DEF PathTypeOK, Segments
<1>3. m \in Messages
  BY <1>2 DEF Messages
<1>4. push_to_rx_ctrl_blk(b)
  BY <1>1 DEF tcpip_raw_recv
<1>5. IInv'
  BY <1>4, QueueStep, NextInv DEF Next, Push
<1>6. ref[b] = 0 /\ \A d \in Conns, j \in Segments : ooseq[d][j] # b
  BY <1>1 DEF Receive, PbufsConserved, Holds
<1>7. ref' = [x \in Pbufs |-> IF x \in chain THEN 0 ELSE ref[x]]
  <2>1. ASSUME NEW x \in Pbufs, x # b, x \in chain PROVE ref[x] = 1
    <3>1. PICK j \in rcv_nxt[c] + 1 .. e - 1 : x = ooseq[c][j]
      BY <2>1
    <3>2. j \in Segments
      BY <1>2 DEF Segments
    <3>3. QED
      BY <3>1, <3>2 DEF PbufsConserved, Holds
  <2>2. QED
    BY <1>1, <1>6, <2>1 DEF tcpip_raw_recv, pbuf_free
<1>8. \A d \in Conns, k \in Segments :
        ooseq'[d][k] = IF d = c /\ k < e THEN NULL ELSE ooseq[d][k]
  BY <1>1 DEF PathTypeOK
<1>9. PbufsConserved'
  <2>1. ASSUME NEW x \in Pbufs
        PROVE  (\E d \in Conns : Holds(d, x)')
                 <=> x \notin chain /\ \E d \in Conns : Holds(d, x)
    <3>1. ASSUME NEW d \in Conns, NEW k \in Segments, ooseq'[d][k] = x
          PROVE  x \notin chain /\ ooseq[d][k] = x
      <4>1. ooseq[d][k] = x /\ (d = c => k >= e)
        BY <1>2, <1>8, <3>1 DEF Segments
      <4>2. ASSUME NEW j \in rcv_nxt[c] + 1 .. e - 1 PROVE ooseq[c][j] # x
        <5>1. j \in Segments /\ (d = c => j # k)
          BY <1>2, <4>1 DEF Segments
        <5>2. QED
          BY <4>1, <5>1 DEF PbufsConserved
      <4>3. QED
        BY <1>6, <4>1, <4>2
    <3>2. ASSUME x \notin chain, NEW d \in Conns, NEW k \in Segments, ooseq[d][k] = x
          PROVE  ooseq'[d][k] = x
      <4>1. d = c => k > rcv_nxt[c]
        BY <3>2 DEF HeldAhead
      <4>2. d = c => ~(k \in rcv_nxt[c] + 1 .. e - 1)
        BY <3>2
      <4>3. QED
        BY <1>2, <1>8, <3>2, <4>1, <4>2 DEF Segments
    <3>3. QED
      BY <3>1, <3>2 DEF Holds
  <2>2. \A x \in Pbufs : ref'[x] = IF \E d \in Conns : Holds(d, x)' THEN 1 ELSE 0
    BY <1>6, <1>7, <2>1 DEF PbufsConserved
  <2>3. \A d, f \in Conns : \A j, k \in Segments :
          ooseq'[d][j] # NULL /\ ooseq'[d][j] = ooseq'[f][k] => d = f /\ j = k
    BY <1>8 DEF PbufsConserved
  <2>4. QED
    BY <2>2, <2>3 DEF PbufsConserved
<1>10. \A d \in Conns : rcv_nxt'[d] = IF d = c THEN e ELSE rcv_nxt[d]
  BY <1>1 DEF PathTypeOK
<1>11. HeldAhead'
  <2>1. ASSUME NEW d \in Conns, NEW k \in Segments, ooseq'[d][k] # NULL PROVE k > rcv_nxt'[d]
    <3>1. ooseq[d][k] # NULL /\ (d = c => k >= e)
      BY <1>2, <1>8, <2>1 DEF Segments
    <3>2. d = c => k # e
      BY <1>1, <3>1 DEF Gap
    <3>3. QED
      BY <1>2, <1>10, <3>1, <3>2 DEF HeldAhead, Segments
  <2>2. QED
    BY <2>1 DEF HeldAhead
<1>12. /\ filled' \in [Nodes -> Messages \cup {NULL}]
       /\ \/ /\ rx_bufhead' = rx_bufhead
             /\ rx_bufhead # NULL => filled'[rx_bufhead] = filled[rx_bufhead]
          \/ /\ rx_bufhead = NULL
             /\ rx_bufhead' # NULL
             /\ filled'[rx_bufhead'] = m
  BY <1>1, <1>3, <1>4, PushRecord
<1>13. WaitingIsNew'
  BY <1>1, <1>12 DEF WaitingIsNew, StreamAhead
<1>14. StreamAhead'
  <2>1. \A d \in Conns : rcv_nxt[d] \in Int /\ last[d] \in Int /\ rcv_nxt[d] <= rcv_nxt'[d]
    BY <1>2, <1>10 DEF PathTypeOK
  <2>2. \A d \in Conns : last'[d] < rcv_nxt'[d]
    BY <1>1, <1>2, <1>10, <2>1 DEF StreamAhead
  <2>3. ASSUME NEW l \in Messages, l[2] < rcv_nxt[l[1]] \/ l = m PROVE l[2] < rcv_nxt'[l[1]]
    <3>1. l[1] \in Conns /\ l[2] \in Int
      BY DEF Messages, Segments
    <3>2. QED
      BY <1>2, <1>10, <2>1, <2>3, <3>1
  <2>4. rx_bufhead' # NULL => /\ filled'[rx_bufhead'] \in Messages
                              /\ filled'[rx_bufhead'][2] < rcv_nxt'[filled'[rx_bufhead'][1]]
    BY <1>3, <1>12, <2>3 DEF StreamAhead
  <2>5. QED
    BY <2>2, <2>4 DEF StreamAhead
<1>15. WindowWhole'
  BY <1>1, <1>2 DEF tcpip_raw_recv, tcp_recved, PathTypeOK, WindowWhole
<1>16. PathTypeOK'
  <2>1. content' \in [Pbufs -> Messages \cup {NULL}]
    BY <1>1, <1>3 DEF Receive, PathTypeOK
  <2>2. ref' \in [Pbufs -> 0 .. 1]
    BY <1>7 DEF PathTypeOK
  <2>3. ooseq' \in [Conns -> [Segments -> Pbufs \cup {NULL}]]
    BY <1>1 DEF PathTypeOK
  <2>4. rcv_wnd' = rcv_wnd
    BY <1>1, <1>2 DEF tcpip_raw_recv, tcp_recved, PathTypeOK, WindowWhole
  <2>5. rcv_nxt' \in [Conns -> 1 .. MaxSeg + 1]
    BY <1>1, <1>2 DEF PathTypeOK
  <2>6. QED
    BY <1>1, <1>5, <1>12, <2>1, <2>2, <2>3, <2>4, <2>5 DEF PathTypeOK, IInv
<1>17. QED
  BY <1>5, <1>9, <1>11, <1>13, <1>14, <1>15, <1>16

(* A change of a connection's state alone. *)
LEMMA StateInv ==
  ASSUME PathInv, NEW c \in Conns, NEW s \in ConnStates,
         state' = [state EXCEPT ![c] = s],
         UNCHANGED <<vars, ref, content, rcv_nxt, rcv_wnd, ooseq, got, filled, last>>
  PROVE  PathInv'
<1> USE DEF PathInv
<1>1. IInv'
  BY QueueUnchangedInv DEF vars
<1>2. PathTypeOK'
  BY <1>1 DEF PathTypeOK, IInv
<1>3. PbufsConserved' /\ WaitingIsNew' /\ HeldAhead' /\ StreamAhead' /\ WindowWhole'
  BY DEF vars, PbufsConserved, Holds, WaitingIsNew, HeldAhead, StreamAhead, WindowWhole
<1>4. QED
  BY <1>1, <1>2, <1>3

(* Giving back what lwIP held of a connection. *)
LEMMA PurgeInv ==
  ASSUME PathInv, NEW c \in Conns, Purge(c), state' \in [Conns -> ConnStates],
         UNCHANGED <<vars, content, rcv_nxt, rcv_wnd, got, filled, last>>
  PROVE  PathInv'
<1> USE DEF PathInv
<1>1. IInv'
  BY QueueUnchangedInv DEF vars
<1>2. \A d \in Conns, k \in Segments : ooseq'[d][k] = IF d = c THEN NULL ELSE ooseq[d][k]
  BY DEF Purge, NoneHeld, PathTypeOK
<1>3. ASSUME NEW b \in Pbufs PROVE ref'[b] = IF \E d \in Conns : Holds(d, b)' THEN 1 ELSE 0
  <2>1. CASE Holds(c, b)
    <3>1. \A d \in Conns : d # c => ~Holds(d, b)
      BY <2>1 DEF Holds, PbufsConserved
    <3>2. ~\E d \in Conns : Holds(d, b)'
      BY <1>2, <3>1 DEF Holds
    <3>3. QED
      BY <2>1, <3>2 DEF Purge, PbufsConserved
  <2>2. CASE ~Holds(c, b)
    <3>1. (\E d \in Conns : Holds(d, b)') <=> \E d \in Conns : Holds(d, b)
      BY <1>2, <2>2 DEF Holds
    <3>2. QED
      BY <2>2, <3>1 DEF Purge, PbufsConserved
  <2>3. QED
    BY <2>1, <2>2
<1>4. PbufsConserved'
  <2>1. \A d, f \in Conns : \A j, k \in Segments :
          ooseq'[d][j] # NULL /\ ooseq'[d][j] = ooseq'[f][k] => d = f /\ j = k
    BY <1>2 DEF PbufsConserved
  <2>2. QED
    BY <1>3, <2>1 DEF PbufsConserved
<1>5. PathTypeOK'
  <2>1. ooseq' \in [Conns -> [Segments -> Pbufs \cup {NULL}]]
    BY DEF Purge, NoneHeld, PathTypeOK
  <2>2. \A b \in Pbufs : (IF Holds(c, b) THEN ref[b] - 1 ELSE ref[b]) \in 0 .. 1
    <3>1. \A b \in Pbufs : ref'[b] \in 0 .. 1
      BY <1>3
    <3>2. QED
      BY <3>1 DEF Purge
  <2>3. ref' \in [Pbufs -> 0 .. 1]
    BY <2>2, Zenon DEF Purge
  <2>4. QED
    BY <1>1, <2>1, <2>3 DEF PathTypeOK, IInv
<1>6. HeldAhead'
  BY <1>2 DEF HeldAhead
<1>7. WaitingIsNew' /\ StreamAhead' /\ WindowWhole'
  BY DEF vars, WaitingIsNew, StreamAhead, WindowWhole
<1>8. QED
  BY <1>1, <1>4, <1>5, <1>6, <1>7

(* What happens to a connection beside its frames. *)
LEMMA ConnInv ==
  ASSUME PathInv, NEW c \in Conns,
         tcpip_raw_accept(c) \/ tcpip_raw_close(c) \/ tcpip_raw_error(c) \/ Finished(c)
  PROVE  PathInv'
<1>1. CASE tcpip_raw_accept(c) \/ tcpip_raw_close(c)
  BY <1>1, StateInv DEF tcpip_raw_accept, tcpip_raw_close, tcp_close, ConnStates
<1>2. CASE tcpip_raw_error(c) \/ Finished(c)
  BY <1>2, PurgeInv DEF tcpip_raw_error, Finished, PathInv, PathTypeOK, ConnStates
<1>3. QED
  BY <1>1, <1>2

(* Reading takes the head, if any, off the queue. *)
LEMMA RecvInv == ASSUME PathInv, TcpIp_recv PROVE PathInv'
<1> USE DEF PathInv
<1>1. pop_pbuf_from_rx_ctrl_blk /\ RecordPop /\ UNCHANGED <<ref, content, tcp, filled>>
  BY DEF TcpIp_recv
<1>2. IInv'
  BY <1>1, NextInv DEF Next, Pop
<1>3. /\ ret' = NULL => rx_bufhead' = rx_bufhead
      /\ ret' # NULL => rx_bufhead # NULL /\ rx_bufhead' = NULL
  BY <1>1 DEF pop_pbuf_from_rx_ctrl_blk, PopHead, PopNothing, IInv, TypeOK,
              NextNeverSet, HeadAcquired
<1>4. last' \in [Conns -> 0 .. MaxSeg] /\ \A d \in Conns : last'[d] < rcv_nxt[d]
  <2>1. CASE ret' = NULL
    BY <1>1, <2>1 DEF RecordPop, StreamAhead, PathTypeOK
  <2>2. CASE ret' # NULL
    <3> DEFINE m == filled[rx_bufhead]
    <3>1. m[1] \in Conns /\ m[2] \in 0 .. MaxSeg /\ m[2] < rcv_nxt[m[1]]
      BY <1>3, <2>2 DEF StreamAhead, Messages, Segments
    <3>2. last' = [last EXCEPT ![m[1]] = m[2]]
      BY <1>1, <2>2 DEF RecordPop
    <3>3. QED
      BY <3>1, <3>2 DEF StreamAhead, PathTypeOK
  <2>3. QED
    BY <2>1, <2>2
<1>5. PathTypeOK'
  <2>1. got' \in Messages \cup {NULL}
    BY <1>2 DEF TcpIp_recv, PathTypeOK, IInv, TypeOK
  <2>2. QED
    BY <1>1, <1>2, <1>4, <2>1 DEF PathTypeOK, tcp, IInv
<1>6. PbufsConserved' /\ HeldAhead' /\ WindowWhole'
  BY <1>1 DEF PbufsConserved, Holds, HeldAhead, WindowWhole, tcp
<1>7. StreamAhead'
  BY <1>1, <1>3, <1>4 DEF StreamAhead, tcp
<1>8. WaitingIsNew'
  BY <1>1, <1>3 DEF RecordPop, WaitingIsNew
<1>9. QED
  BY <1>2, <1>5, <1>6, <1>7, <1>8

(* Nothing happens. *)
LEMMA StutterInv == PathInv /\ UNCHANGED pathVars => PathInv'
BY DEF pathVars, vars, PathInv, IInv, TypeOK, NextNeverSet, HeadAcquired, QueuedIsCounted,
       CountBoundedByPool, EmptyQueueHasNode, AcquiredNodes, FreeNodes, PathTypeOK,
       PbufsConserved, Holds, WaitingIsNew, StreamAhead, HeldAhead, WindowWhole

(* PathInv is inductive: one case for each action of the path. *)
LEMMA PathNextInv == PathInv /\ [PathNext]_pathVars => PathInv'
<1> SUFFICES ASSUME PathInv, [PathNext]_pathVars PROVE PathInv'
  OBVIOUS
<1>1. CASE lwip_int_main
  <2>1. CASE DiscardOther
    BY <2>1, DiscardInv DEF DiscardOther
  <2>2. CASE DiscardRepeated
    <3>1. PICK c \in Conns : \E k \in 1 .. rcv_nxt[c] - 1 : Discard(<<c, k>>)
      BY <2>2 DEF DiscardRepeated
    <3>2. PICK k \in 1 .. rcv_nxt[c] - 1 : Discard(<<c, k>>)
      BY <3>1
    <3>3. <<c, k>> \in Messages
      BY DEF PathInv, PathTypeOK, Messages, Segments
    <3>4. QED
      BY <3>2, <3>3, DiscardInv
  <2>3. CASE Deliver
    BY <2>3, DeliverInv DEF Deliver
  <2>4. QED
    BY <1>1, <2>1, <2>2, <2>3, HoldInv, StutterInv DEF lwip_int_main
<1>2. QED
  BY <1>1, ConnInv, RecvInv, StutterInv DEF PathNext

(* PathInv is an invariant of the receive path. *)
THEOREM PathInvariance == PathSpec => []PathInv
BY PathInitInv, PathNextInv, PTL DEF PathSpec

(* All variables of the path keep their types. *)
THEOREM PathTypeCorrect == PathSpec => []PathTypeOK
<1>1. PathInv => PathTypeOK
  BY DEF PathInv
<1>2. QED
  BY <1>1, PathInvariance, PTL

(* No pbuf is leaked or freed twice by the receive path. *)
THEOREM NoPbufLost == PathSpec => []PbufsConserved
<1>1. PathInv => PbufsConserved
  BY DEF PathInv
<1>2. QED
  BY <1>1, PathInvariance, PTL

(* The messages of each connection, however many feed the queue at a time, *)
(* leave it in order and each at most once.                                *)
THEOREM DeliveredInOrder == PathSpec => []WaitingIsNew
<1>1. PathInv => WaitingIsNew
  BY DEF PathInv
<1>2. QED
  BY <1>1, PathInvariance, PTL

(* No close of a connection is a reset, whatever chains were delivered and *)
(* messages lost before it: the window is whole then.                      *)
THEOREM ClosesWithFin == PathSpec => []CloseSendsFin
<1>1. PathInit => CloseSendsFin
  BY DEF PathInit, CloseSendsFin
<1>2. PathInv /\ CloseSendsFin /\ [PathNext]_pathVars => CloseSendsFin'
  <2> SUFFICES ASSUME PathInv, CloseSendsFin, [PathNext]_pathVars PROVE CloseSendsFin'
    OBVIOUS
  <2> USE DEF CloseSendsFin
  <2>1. ASSUME NEW c \in Conns, tcpip_raw_close(c) PROVE CloseSendsFin'
    BY <2>1 DEF tcpip_raw_close, tcp_close, PathInv, WindowWhole, PathTypeOK
  <2>2. ASSUME NEW c \in Conns, tcpip_raw_accept(c) \/ tcpip_raw_error(c) \/ Finished(c)
        PROVE  CloseSendsFin'
    BY <2>2 DEF tcpip_raw_accept, tcpip_raw_error, Finished, PathInv, PathTypeOK
  <2>3. CASE lwip_int_main
    BY <2>3 DEF lwip_int_main, DiscardOther, DiscardRepeated, Discard, Hold, Deliver, DeliverTo,
                tcp, pathVars
  <2>4. CASE TcpIp_recv \/ UNCHANGED pathVars
    BY <2>4 DEF TcpIp_recv, tcp, pathVars
  <2> QED
    BY <2>1, <2>2, <2>3, <2>4 DEF PathNext
<1> QED
  BY <1>1, <1>2, PathInvariance, PTL DEF PathSpec

-----------------------------------------------------------------------------
(* The mailbox of the queue, seen from the whole path.                     *)
THEOREM PathImplementsMailbox == PathSpec => MailboxSpec
BY PathUsesQueue, ImplementsMailbox, PTL

(* The message that waits.                                                 *)
Slot == IF rx_bufhead = NULL THEN NULL ELSE filled[rx_bufhead]

(* When nothing waits the queue has a node, so what is delivered is kept.  *)
LEMMA KeptWhenEmpty ==
  ASSUME PathInv, NEW b \in Pbufs, push_to_rx_ctrl_blk(b), rx_bufhead = NULL
  PROVE  rx_bufhead' # NULL
<1>1. FreeNodes # {}
  BY DEF PathInv, IInv, EmptyQueueHasNode
<1>2. PICK n \in Nodes : Enqueue(n, b)
  BY <1>1 DEF push_to_rx_ctrl_blk
<1>3. QED
  BY <1>2 DEF Enqueue

(* A delivery offers the message that is next in the connection's stream.  *)
LEMMA DeliverOffers ==
  ASSUME PathInv, NEW c \in Conns, NEW b \in Pbufs,
         NEW e \in rcv_nxt[c] + 1 .. MaxSeg + 1, DeliverTo(c, b, e)
  PROVE  Service!Offer(c)
<1> DEFINE m == <<c, rcv_nxt[c]>>
<1>1. /\ push_to_rx_ctrl_blk(b)
      /\ RecordPush(m)
      /\ rcv_nxt' = [rcv_nxt EXCEPT ![c] = e]
      /\ UNCHANGED last
  BY DEF DeliverTo, tcpip_raw_recv
<1>2. rcv_nxt[c] \in Segments /\ e > rcv_nxt[c] /\ rcv_nxt'[c] = e
  BY <1>1 DEF PathInv, PathTypeOK, Segments
<1>3. m \in Messages
  BY <1>2 DEF Messages
<1>4. \/ /\ rx_bufhead' = rx_bufhead
         /\ rx_bufhead # NULL => filled'[rx_bufhead] = filled[rx_bufhead]
      \/ /\ rx_bufhead = NULL
         /\ rx_bufhead' # NULL
         /\ filled'[rx_bufhead'] = m
  BY <1>1, <1>3, PushRecord
<1>5. rx_bufhead # NULL => filled[rx_bufhead] # NULL
  BY MessageAssumption DEF PathInv, StreamAhead
<1>6. rx_bufhead = NULL => rx_bufhead' # NULL
  BY <1>1, KeptWhenEmpty
<1>7. Slot' = IF Slot = NULL THEN m ELSE Slot
  BY <1>4, <1>5, <1>6 DEF Slot
<1>8. QED
  BY <1>1, <1>2, <1>7 DEF Service!Offer, Slot

(* A read takes the message that waits, or nothing happens.                *)
LEMMA RecvTakes == ASSUME PathInv, TcpIp_recv PROVE [Service!Take]_(Service!service)
<1> USE DEF PathInv
<1>1. pop_pbuf_from_rx_ctrl_blk /\ RecordPop /\ UNCHANGED <<ref, content, tcp, filled>>
  BY DEF TcpIp_recv
<1>2. /\ ret' = NULL => rx_bufhead' = rx_bufhead
      /\ ret' # NULL => rx_bufhead # NULL /\ rx_bufhead' = NULL
  BY <1>1 DEF pop_pbuf_from_rx_ctrl_blk, PopHead, PopNothing, IInv, TypeOK,
              NextNeverSet, HeadAcquired
<1>3. rx_bufhead # NULL => filled[rx_bufhead] # NULL
  BY MessageAssumption DEF StreamAhead
<1>4. CASE ret' = NULL
  BY <1>1, <1>2, <1>4 DEF RecordPop, Service!service, tcp
<1>5. CASE ret' # NULL
  BY <1>1, <1>2, <1>3, <1>5 DEF RecordPop, Service!Take, tcp
<1>6. QED
  BY <1>4, <1>5

(* Every step of the path is one of the stream, or none.                   *)
LEMMA ServiceStep == PathInv /\ [PathNext]_pathVars => [Service!Next]_(Service!service)
<1> SUFFICES ASSUME PathInv, [PathNext]_pathVars PROVE [Service!Next]_(Service!service)
  OBVIOUS
<1> USE DEF Service!Next
<1>1. CASE Deliver
  BY <1>1, DeliverOffers DEF Deliver
<1>2. CASE TcpIp_recv
  BY <1>2, RecvTakes
<1>3. ASSUME NEW c \in Conns,
             tcpip_raw_accept(c) \/ tcpip_raw_close(c) \/ tcpip_raw_error(c) \/ Finished(c)
      PROVE  UNCHANGED Service!service
  BY <1>3 DEF tcpip_raw_accept, tcpip_raw_close, tcpip_raw_error, Finished, vars, Service!service
<1>4. CASE lwip_int_main /\ ~Deliver
  BY <1>4 DEF lwip_int_main, DiscardOther, DiscardRepeated, Discard, Hold, tcp, vars,
              pathVars, Service!service
<1>5. CASE UNCHANGED pathVars
  BY <1>5 DEF pathVars, vars, Service!service
<1>6. QED
  BY <1>1, <1>2, <1>3, <1>4, <1>5 DEF PathNext

(* However many nodes the queue has lost, however many connections feed it *)
(* and whatever the order of frames, closes and reads: a message is kept   *)
(* whenever none waits, and TcpIp_recv takes those of each connection in   *)
(* order and once.                                                         *)
THEOREM PathImplementsService == PathSpec => ServiceSpec
<1>1. PathInit => Service!Init
  BY DEF PathInit, Init, Service!Init
<1>2. QED
  BY <1>1, ServiceStep, PathInvariance, PTL DEF PathSpec, ServiceSpec, Service!Spec
=============================================================================
