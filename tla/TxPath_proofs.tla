---------------------------- MODULE TxPath_proofs ----------------------------
(* Proofs about TxPath: the integration layer runs unchanged under the     *)
(* transmit path, the queues keep their bounds, and an orderly close has   *)
(* delivered everything, for every segment size, buffer and bound.         *)
EXTENDS TxPath, LwipInt_proofs

(* The transmit path adds to the integration layer and changes nothing in  *)
(* it.                                                                     *)
THEOREM TxImplementsLwip == TxSpec => LwipSpec
<1>1. TxInit => LwipInit
  BY DEF TxInit
<1>2. [TxNext]_txVars => [LwipNext]_lwipVars
  <2> SUFFICES ASSUME [TxNext]_txVars PROVE [LwipNext]_lwipVars
    OBVIOUS
  <2>1. CASE TcpIp_send
    BY <2>1 DEF TcpIp_send
  <2>2. CASE TcpIp_MainFunction
    BY <2>2 DEF TcpIp_MainFunction, LwipNext
  <2>3. CASE PeerReceives
    BY <2>3 DEF PeerReceives
  <2>4. CASE Elsewhere
    BY <2>4 DEF Elsewhere, LwipNext
  <2>5. CASE UNCHANGED txVars
    BY <2>5 DEF txVars
  <2> QED BY <2>1, <2>2, <2>3, <2>4, <2>5 DEF TxNext
<1> QED BY <1>1, <1>2, PTL DEF TxSpec, LwipSpec

-----------------------------------------------------------------------------
(* What goes out stays within the bounds.                                  *)
LEMMA OutputOK ==
  ASSUME NEW q, PcbOK(q), NEW r \in tcp_output(q)
  PROVE  PcbOK(r) /\ r.state = q.state
<1>1. PICK n : r = LET now == {s \in Unsent(q.segs) : s.end <= n}
                   IN  [q EXCEPT !.segs = (@ \ now) \cup {[s EXCEPT !.out = TRUE] : s \in now},
                                 !.room = @ /\ now # Unsent(q.segs),
                                 !.wire = {f \in @ \cup {netif_output(s) : s \in now} : f.end > peer}]
  BY DEF tcp_output
<1> DEFINE now == {s \in Unsent(q.segs) : s.end <= n}
<1>2. now \subseteq q.segs /\ q.segs \subseteq Segment /\ q.wire \subseteq Frame /\ q \in PcbType
  BY DEF Unsent, PcbOK, PcbType
<1>3. \A s \in now : [s EXCEPT !.out = TRUE] \in Segment /\ netif_output(s) \in Frame
  <2> TAKE s \in now
  <2>1. s \in Segment
    BY <1>2
  <2> QED BY <2>1 DEF Segment, Frame, netif_output
<1>4. /\ r.segs = (q.segs \ now) \cup {[s EXCEPT !.out = TRUE] : s \in now}
      /\ r.wire = {f \in q.wire \cup {netif_output(s) : s \in now} : f.end > peer}
      /\ r.room \in BOOLEAN
      /\ r.state = q.state /\ r.written = q.written /\ r.una = q.una /\ r.nrtx = q.nrtx
  BY <1>1, <1>2 DEF PcbType
<1>5. r.segs \subseteq Segment /\ r.wire \subseteq Frame
  <2> HIDE DEF now
  <2> QED BY <1>2, <1>3, <1>4
<1>6. r \in PcbType
  <2>1. r = [q EXCEPT !.segs = r.segs, !.room = r.room, !.wire = r.wire]
    BY <1>1, <1>2 DEF PcbType
  <2> QED BY <2>1, <1>2, <1>4, <1>5 DEF PcbType
<1>7. \A s \in r.segs : /\ s.seq + s.first <= s.end
                        /\ s.end <= s.seq + TCP_MSS
                        /\ s.end <= r.written
  <2> TAKE s \in r.segs
  <2>1. CASE s \in q.segs
    BY <2>1, <1>4 DEF PcbOK
  <2>2. CASE \E t \in now : s = [t EXCEPT !.out = TRUE]
    <3>1. PICK t \in q.segs : s = [t EXCEPT !.out = TRUE]
      BY <2>2, <1>2
    <3>2. s.seq = t.seq /\ s.end = t.end /\ s.first = t.first
      BY <3>1, <1>2 DEF Segment
    <3> QED BY <3>1, <3>2, <1>4 DEF PcbOK
  <2> QED BY <2>1, <2>2, <1>4
<1>8. \A f \in r.wire : f.end <= r.written
  <2> TAKE f \in r.wire
  <2>1. CASE f \in q.wire
    BY <2>1, <1>4 DEF PcbOK
  <2>2. CASE \E t \in now : f = netif_output(t)
    BY <2>2, <1>2, <1>4 DEF PcbOK, netif_output
  <2> QED BY <2>1, <2>2, <1>4
<1> QED BY <1>4, <1>6, <1>7, <1>8 DEF PcbOK

(* A change of the state only, to one that does not claim delivery.        *)
LEMMA StateOK ==
  ASSUME NEW q, PcbOK(q),
         NEW st \in {"ESTABLISHED", "CLOSING", "RESET", "TIMEDOUT"}
  PROVE  PcbOK([q EXCEPT !.state = st])
  BY DEF PcbOK, PcbType, Alive, Ended

(* An acknowledgement only takes away, and one that closes the connection  *)
(* is of everything written.                                               *)
LEMMA ReceiveOK ==
  ASSUME NEW q, PcbOK(q), q.state \in Alive, peer \in Nat,
         NEW a \in q.una .. peer, NEW r \in tcp_receive(q, a)
  PROVE  PcbOK(r)
<1> DEFINE acked == [q EXCEPT !.una = a,
                              !.segs = {s \in @ : s.end > a},
                              !.nrtx = IF a > q.una THEN 0 ELSE @]
<1>1. q \in PcbType /\ q.una \in Nat /\ q.written \in 0 .. MaxUnits /\ a \in 0 .. MaxUnits
        /\ a <= peer /\ peer <= q.written /\ q.una <= a
  BY SendAssumption DEF PcbOK, PcbType
<1>2. /\ acked.una = a /\ acked.segs = {s \in q.segs : s.end > a}
      /\ acked.state = q.state /\ acked.written = q.written /\ acked.wire = q.wire
      /\ acked.room = q.room /\ acked.nrtx \in 0 .. TCP_MAXRTX
  BY <1>1, SendAssumption DEF PcbType
<1>3. acked \in PcbType
  BY <1>1, <1>2, SendAssumption DEF PcbType
<1>4. q.written - a <= TCP_SND_BUF
  BY <1>1, SendAssumption DEF PcbOK
<1>5. PcbOK(acked)
  <2> HIDE DEF acked
  <2> QED BY <1>1, <1>2, <1>3, <1>4 DEF PcbOK, Alive
<1>6. CASE r \in tcp_output(acked)
  BY <1>6, <1>5, OutputOK
<1>7. CASE q.state = "CLOSING" /\ a = q.written /\ r = [acked EXCEPT !.state = "CLOSED"]
  <2>1. /\ r \in PcbType /\ r.state = "CLOSED" /\ r.una = a /\ r.written = q.written
        /\ r.segs = acked.segs /\ r.wire = acked.wire
    <3> HIDE DEF acked
    <3> QED BY <1>7, <1>3, <1>2 DEF PcbType, Ended
  <2> HIDE DEF acked
  <2> QED BY <2>1, <1>5, <1>2, <1>7 DEF PcbOK
<1> QED BY <1>6, <1>7 DEF tcp_receive

(* Whatever frame arrives.                                                 *)
LEMMA FramesOK ==
  ASSUME NEW q, PcbOK(q), peer \in Nat, NEW r \in Frames(q)
  PROVE  PcbOK(r)
<1>1. CASE r = q
  BY <1>1
<1>2. CASE \E st \in {"ESTABLISHED", "CLOSING", "RESET"} : r = [q EXCEPT !.state = st]
  BY <1>2, StateOK
<1>3. CASE q.state \in Alive /\ \E a \in q.una .. peer : r \in tcp_receive(q, a)
  BY <1>3, ReceiveOK
<1>4. CASE q.state \in Alive /\ r \in UNION {tcp_receive(q, a) : a \in q.una .. peer}
  BY <1>4, <1>3
<1> DEFINE A == IF q.state = "NONE" THEN tcpip_raw_accept(q) ELSE {}
           U == UNION {tcp_receive(q, a) : a \in q.una .. peer}
           x == [q EXCEPT !.state = "RESET"]
           B == IF q.state \in Alive THEN U \cup {x} ELSE {}
           C == IF q.state = "ESTABLISHED" THEN tcpip_raw_close(q) ELSE {}
<1>5. r \in {q} \cup A \cup B \cup C
  BY DEF Frames
<1>6. CASE r \in A
  <2>1. r \in tcpip_raw_accept(q)
    BY <1>6
  <2> QED BY <2>1, <1>2 DEF tcpip_raw_accept
<1>7. CASE r \in B
  <2>2. q.state \in Alive /\ (r = x \/ r \in U)
    <3> HIDE DEF U, x
    <3> QED BY <1>7
  <2>3. CASE r = x
    BY <2>3, <1>2
  <2>4. CASE r \in U
    BY <2>2, <2>4, <1>4
  <2> QED BY <2>2, <2>3, <2>4
<1>8. CASE r \in C
  <2>1. r \in tcpip_raw_close(q)
    BY <1>8
  <2> QED BY <2>1, <1>2 DEF tcpip_raw_close
<1> HIDE DEF A, U, x, B, C
<1> QED BY <1>1, <1>5, <1>6, <1>7, <1>8

(* Whatever the timer does.                                                *)
LEMMA TmrOK ==
  ASSUME NEW q, PcbOK(q), NEW r \in tcp_tmr(q)
  PROVE  PcbOK(r)
<1> DEFINE rexmit == [q EXCEPT !.segs = {[s EXCEPT !.out = FALSE] : s \in @},
                               !.nrtx = @ + 1]
<1>1. CASE r = q
  BY <1>1
<1>2. CASE r = [q EXCEPT !.state = "TIMEDOUT"]
  BY <1>2, StateOK
<1>3. CASE r \in tcp_output(q)
  BY <1>3, OutputOK
<1>4. CASE q.nrtx < TCP_MAXRTX /\ r \in tcp_output(rexmit)
  <2>1. q \in PcbType /\ q.segs \subseteq Segment
    BY DEF PcbOK, PcbType
  <2>2. \A s \in q.segs : LET t == [s EXCEPT !.out = FALSE]
                          IN  /\ t \in Segment /\ t.seq = s.seq
                              /\ t.end = s.end /\ t.first = s.first
    BY <2>1 DEF Segment
  <2>3. /\ rexmit.segs = {[s EXCEPT !.out = FALSE] : s \in q.segs}
        /\ rexmit.nrtx = q.nrtx + 1
        /\ rexmit.state = q.state /\ rexmit.written = q.written /\ rexmit.una = q.una
        /\ rexmit.wire = q.wire
    BY <2>1 DEF PcbType
  <2>4. rexmit.segs \subseteq Segment
    BY <2>2, <2>3
  <2>5. rexmit.nrtx \in 0 .. TCP_MAXRTX
    BY <2>1, <2>3, <1>4, SendAssumption DEF PcbType
  <2>6. rexmit \in PcbType
    <3>1. rexmit = [q EXCEPT !.segs = rexmit.segs, !.nrtx = rexmit.nrtx]
      BY <2>1 DEF PcbType
    <3> HIDE DEF rexmit
    <3> QED BY <3>1, <2>1, <2>4, <2>5 DEF PcbType
  <2>7. \A t \in rexmit.segs : /\ t.seq + t.first <= t.end
                               /\ t.end <= t.seq + TCP_MSS
                               /\ t.end <= q.written
    BY <2>2, <2>3 DEF PcbOK
  <2>8. PcbOK(rexmit)
    <3> HIDE DEF rexmit
    <3> QED BY <2>3, <2>6, <2>7 DEF PcbOK
  <2> HIDE DEF rexmit
  <2> QED BY <2>8, <1>4, OutputOK
<1> QED BY <1>1, <1>2, <1>3, <1>4 DEF tcp_tmr

-----------------------------------------------------------------------------
(* What a frame does to the connection: it acknowledges and moves the      *)
(* state on.                                                               *)
FrameMoves(st) ==
  CASE st = "NONE"        -> {"NONE", "ESTABLISHED"}
    [] st = "ESTABLISHED" -> {"ESTABLISHED", "CLOSING", "RESET"}
    [] st = "CLOSING"     -> {"CLOSING", "CLOSED", "RESET"}
    [] OTHER              -> {st}

(* Output accepts and acknowledges nothing.                                *)
LEMMA OutputSame ==
  ASSUME NEW q \in PcbType, NEW r \in tcp_output(q)
  PROVE  r.written = q.written /\ r.una = q.una /\ r.state = q.state
  BY DEF tcp_output, PcbType

(* No frame does more than that.                                           *)
LEMMA FrameMovesOn ==
  ASSUME NEW q, PcbOK(q), peer \in Nat, NEW r \in Frames(q)
  PROVE  /\ r.written = q.written /\ r.una \in q.una .. peer
         /\ r.state \in FrameMoves(q.state)
         /\ q.state = "NONE" => r.segs = q.segs
<1> DEFINE A == IF q.state = "NONE" THEN tcpip_raw_accept(q) ELSE {}
           U == UNION {tcp_receive(q, a) : a \in q.una .. peer}
           x == [q EXCEPT !.state = "RESET"]
           B == IF q.state \in Alive THEN U \cup {x} ELSE {}
           C == IF q.state = "ESTABLISHED" THEN tcpip_raw_close(q) ELSE {}
           Goal == /\ r.written = q.written /\ r.una \in q.una .. peer
                   /\ r.state \in FrameMoves(q.state)
                   /\ q.state = "NONE" => r.segs = q.segs
<1>1. /\ q \in PcbType /\ q.una \in q.una .. peer
      /\ q.state \in {"NONE"} \cup Alive \cup Ended
  BY SendAssumption DEF PcbOK, PcbType
<1>2. r \in {q} \cup A \cup B \cup C
  BY DEF Frames
<1>3. CASE r = q
  BY <1>1, <1>3 DEF FrameMoves, Alive, Ended
<1>4. CASE r \in A
  <2>1. q.state = "NONE" /\ r = [q EXCEPT !.state = "ESTABLISHED"]
    BY <1>4 DEF tcpip_raw_accept
  <2> QED BY <1>1, <2>1 DEF FrameMoves, PcbType
<1>5. CASE r \in C
  <2>1. q.state = "ESTABLISHED" /\ r = [q EXCEPT !.state = "CLOSING"]
    BY <1>5 DEF tcpip_raw_close
  <2> QED BY <1>1, <2>1 DEF FrameMoves, PcbType
<1>6. CASE q.state \in Alive /\ r = x
  BY <1>1, <1>6 DEF FrameMoves, PcbType, Alive
<1>7. CASE q.state \in Alive /\ r \in U
  <2>1. PICK a \in q.una .. peer : r \in tcp_receive(q, a)
    BY <1>7
  <2> DEFINE acked == [q EXCEPT !.una = a,
                                !.segs = {s \in @ : s.end > a},
                                !.nrtx = IF a > q.una THEN 0 ELSE @]
  <2>2. /\ acked.una = a /\ acked.state = q.state /\ acked.written = q.written
        /\ acked \in PcbType
    <3>1. a \in 0 .. MaxUnits
      BY <1>1, SendAssumption DEF PcbOK, PcbType
    <3>2. /\ acked.una = a /\ acked.segs = {s \in q.segs : s.end > a}
          /\ acked.state = q.state /\ acked.written = q.written /\ acked.wire = q.wire
          /\ acked.room = q.room /\ acked.nrtx \in 0 .. TCP_MAXRTX
      BY <1>1, <3>1, SendAssumption DEF PcbType
    <3> QED BY <1>1, <3>1, <3>2 DEF PcbType
  <2>3. \/ r \in tcp_output(acked)
        \/ q.state = "CLOSING" /\ r = [acked EXCEPT !.state = "CLOSED"]
    BY <2>1 DEF tcp_receive
  <2> HIDE DEF acked
  <2>4. CASE r \in tcp_output(acked)
    BY <1>7, <2>1, <2>2, <2>4, OutputSame DEF FrameMoves, Alive
  <2>5. CASE q.state = "CLOSING" /\ r = [acked EXCEPT !.state = "CLOSED"]
    BY <2>1, <2>2, <2>5 DEF FrameMoves, PcbType
  <2> QED BY <2>3, <2>4, <2>5
<1>8. CASE r \in B
  <2>1. q.state \in Alive /\ (r = x \/ r \in U)
    <3> HIDE DEF U, x
    <3> QED BY <1>8
  <2> QED BY <2>1, <1>6, <1>7
<1> HIDE DEF A, U, x, B, C
<1> QED BY <1>2, <1>3, <1>4, <1>5, <1>8

(* What the timer does to it: nothing, or it gives up, which takes a       *)
(* connection that is closing or has something queued.                     *)
LEMMA TmrMovesOn ==
  ASSUME NEW q \in PcbType, NEW r \in tcp_tmr(q)
  PROVE  /\ r.written = q.written /\ r.una = q.una
         /\ \/ r.state = q.state
            \/ /\ q.state = "CLOSING" \/ (q.state = "ESTABLISHED" /\ q.segs # {})
               /\ r.state = "TIMEDOUT"
         /\ q.state = "NONE" => r.segs = q.segs
<1> DEFINE rexmit == [q EXCEPT !.segs = {[s EXCEPT !.out = FALSE] : s \in @},
                               !.nrtx = @ + 1]
<1>1. CASE q.state \notin Alive
  BY <1>1 DEF tcp_tmr
<1>2. CASE q.state \in Alive
  <2>1. q.state # "NONE"
    BY <1>2 DEF Alive
  <2>2. \/ Unacked(q.segs) = {} /\ r \in tcp_output(q)
        \/ Unacked(q.segs) # {} /\ q.nrtx < TCP_MAXRTX /\ r \in tcp_output(rexmit)
        \/ Unacked(q.segs) # {} /\ r = [q EXCEPT !.state = "TIMEDOUT"]
        \/ q.state = "CLOSING" /\ r = [q EXCEPT !.state = "TIMEDOUT"]
    <3> HIDE DEF rexmit
    <3> QED BY <1>2 DEF tcp_tmr, rexmit
  <2>3. CASE r \in tcp_output(q)
    BY <2>1, <2>3, OutputSame
  <2>4. CASE r \in tcp_output(rexmit)
    <3>1. rexmit.written = q.written /\ rexmit.una = q.una /\ rexmit.state = q.state
      BY DEF PcbType
    <3>2. r.written = rexmit.written /\ r.una = rexmit.una /\ r.state = rexmit.state
      <4>1. PICK S, b, W : r = [rexmit EXCEPT !.segs = S, !.room = b, !.wire = W]
        BY <2>4 DEF tcp_output
      <4> QED BY <4>1 DEF PcbType
    <3> QED BY <2>1, <3>1, <3>2
  <2>5. CASE r = [q EXCEPT !.state = "TIMEDOUT"]
    <3>1. r.written = q.written /\ r.una = q.una /\ r.state = "TIMEDOUT"
      BY <2>5 DEF PcbType
    <3>2. CASE q.state = "CLOSING"
      BY <2>1, <3>1, <3>2
    <3>3. CASE Unacked(q.segs) # {}
      BY <1>2, <2>1, <3>1, <3>3 DEF Unacked, Alive
    <3>4. CASE r \in tcp_output(q) \/ r \in tcp_output(rexmit)
      BY <2>3, <2>4, <3>4
    <3> QED BY <2>2, <3>2, <3>3, <3>4
  <2> QED BY <2>2, <2>3, <2>4, <2>5
<1> QED BY <1>1, <1>2

-----------------------------------------------------------------------------
(* TcpIp_send queues within the bounds.                                    *)
LEMMA WriteOK ==
  ASSUME PcbOK(pcb), peer \in Nat, NEW n \in 1 .. TCP_MSS, pcb.state = "ESTABLISHED",
         pcb.written + n <= MaxUnits, tcp_write(n)
  PROVE  PcbOK(pcb')
<1>1. PICK fill \in 0 .. n :
        /\ Fits(fill, n)
        /\ pcb' = [pcb EXCEPT
             !.segs = (@ \ LastUnsent)
                        \cup {IF fill = 0 THEN s ELSE Extended(s, fill) : s \in LastUnsent}
                        \cup (IF fill = n THEN {}
                              ELSE {NewSegment(pcb.written + fill, n - fill)}),
             !.room = pcb.segs # {},
             !.written = @ + n]
  BY DEF tcp_write
<1>2. /\ pcb \in PcbType /\ pcb.segs \subseteq Segment /\ LastUnsent \subseteq pcb.segs
      /\ pcb.written \in Nat /\ pcb.una \in Nat /\ n \in Nat /\ fill \in Nat /\ fill <= n
      /\ n <= TCP_MSS /\ n >= 1 /\ TCP_MSS \in Nat /\ MaxUnits \in Nat /\ TCP_SND_BUF \in Nat
      /\ pcb.room \in BOOLEAN
  BY SendAssumption DEF PcbOK, PcbType, LastUnsent, Unsent
<1>3. n <= TCP_SND_BUF - (pcb.written - pcb.una)
  BY DEF tcp_write
<1> DEFINE Ok(s) == /\ s \in Segment
                    /\ s.seq + s.first <= s.end
                    /\ s.end <= s.seq + TCP_MSS
                    /\ s.end <= pcb.written + n
<1>4. \A s \in pcb.segs : Ok(s)
  <2> TAKE s \in pcb.segs
  <2>1. s \in Segment /\ s.end \in Nat
    BY <1>2 DEF Segment
  <2> QED BY <2>1, <1>2 DEF PcbOK
<1>5. ASSUME NEW s \in LastUnsent, fill # 0 PROVE Ok(Extended(s, fill))
  <2>1. /\ s \in Segment /\ s.seq \in 0 .. MaxUnits /\ s.end \in 1 .. MaxUnits
        /\ s.first \in 1 .. TCP_MSS /\ s.seq + s.first <= s.end
        /\ s.end <= s.seq + TCP_MSS /\ s.end = pcb.written
    BY <1>2, <1>4 DEF Segment, LastUnsent
  <2>2. fill <= TCP_MSS - Size(s)
    BY <1>1, <1>2, <2>1 DEF Fits, Size
  <2> DEFINE t == Extended(s, fill)
  <2>3. /\ t.seq = s.seq /\ t.end = s.end + fill
        /\ t.first = IF pcb.room /\ s.first = Size(s) THEN s.first + fill ELSE s.first
    BY <2>1 DEF Extended, Segment
  <2>4. t.seq + t.first <= t.end /\ t.end <= t.seq + TCP_MSS /\ t.end <= pcb.written + n
          /\ t.first \in 1 .. TCP_MSS /\ t.end \in 1 .. MaxUnits
    BY <2>1, <2>2, <2>3, <1>2 DEF Size
  <2>5. t \in Segment
    <3>1. t = [s EXCEPT !.end = t.end, !.first = t.first]
      BY <2>1 DEF Extended, Segment
    <3> HIDE DEF t
    <3> QED BY <3>1, <2>1, <2>4 DEF Segment
  <2> HIDE DEF t
  <2>6. Ok(t)
    BY <2>4, <2>5
  <2> QED BY <2>6 DEF t
<1>6. ASSUME fill # n PROVE Ok(NewSegment(pcb.written + fill, n - fill))
  BY <1>2, <1>6 DEF NewSegment, Segment
<1>7. /\ pcb'.segs = (pcb.segs \ LastUnsent)
                        \cup {IF fill = 0 THEN s ELSE Extended(s, fill) : s \in LastUnsent}
                        \cup (IF fill = n THEN {}
                              ELSE {NewSegment(pcb.written + fill, n - fill)})
      /\ pcb'.room \in BOOLEAN /\ pcb'.written = pcb.written + n
      /\ pcb'.state = pcb.state /\ pcb'.una = pcb.una /\ pcb'.wire = pcb.wire
  BY <1>1, <1>2 DEF PcbType
<1>8. \A s \in pcb'.segs : Ok(s)
  <2> SUFFICES ASSUME NEW s \in pcb'.segs PROVE Ok(s)
    OBVIOUS
  <2> HIDE DEF Ok
  <2> QED BY <1>4, <1>5, <1>6, <1>7, <1>2
<1>9. pcb' \in PcbType
  <2>1. pcb' = [pcb EXCEPT !.segs = pcb'.segs, !.room = pcb'.room, !.written = pcb'.written]
    BY <1>1, <1>2 DEF PcbType
  <2>2. pcb'.segs \subseteq Segment
    BY <1>8
  <2>3. pcb'.written \in 0 .. MaxUnits
    BY <1>7, <1>2
  <2> QED BY <2>1, <2>2, <2>3, <1>7, <1>2 DEF PcbType
<1>10. \A f \in pcb'.wire : f.end <= pcb'.written
  <2> TAKE f \in pcb'.wire
  <2>1. f.end \in Nat /\ f.end <= pcb.written
    BY <1>7, <1>2 DEF PcbOK, PcbType, Frame
  <2> QED BY <2>1, <1>7, <1>2
<1>11. pcb'.written - pcb'.una <= TCP_SND_BUF /\ pcb'.una <= peer /\ peer <= pcb'.written
  BY <1>2, <1>3, <1>7 DEF PcbOK
<1>12. pcb'.state # "CLOSED"
  BY <1>7
<1> QED BY <1>7, <1>8, <1>9, <1>10, <1>11, <1>12 DEF PcbOK

(* Each step of the transmit path keeps the invariant.                     *)
LEMMA TxStepInv == TxInv /\ [TxNext]_txVars => TxInv'
<1> SUFFICES ASSUME TxInv, [TxNext]_txVars PROVE TxInv'
  OBVIOUS
<1> USE DEF TxInv
<1>1. CASE TcpIp_send
  <2>1. peer' = peer /\ retval' \in {0, -2, -3}
    BY <1>1 DEF TcpIp_send
  <2>2. PcbOK(pcb')
    <3>1. CASE UNCHANGED pcb
      BY <3>1
    <3>2. CASE \E n \in 1 .. TCP_MSS :
                 pcb.written + n <= MaxUnits /\ pcb.state = "ESTABLISHED" /\ tcp_write(n)
      BY <3>2, WriteOK
    <3> QED BY <1>1, <3>1, <3>2 DEF TcpIp_send
  <2>3. pcb'.state = "NONE" => UNCHANGED pcb
    BY <1>1 DEF TcpIp_send, tcp_write, PcbOK, PcbType
  <2> QED BY <2>1, <2>2, <2>3 DEF PcbOK
<1>2. CASE TcpIp_MainFunction
  <2>1. peer' = peer /\ retval' = retval
    BY <1>2 DEF TcpIp_MainFunction
  <2>2. PICK frame \in BOOLEAN, fires \in BOOLEAN :
          \E q \in IF frame THEN Frames(pcb) ELSE {pcb} :
            pcb' \in IF fires THEN tcp_tmr(q) ELSE {q}
    BY <1>2 DEF TcpIp_MainFunction
  <2>3. PICK q \in IF frame THEN Frames(pcb) ELSE {pcb} :
          pcb' \in IF fires THEN tcp_tmr(q) ELSE {q}
    BY <2>2
  <2>4. PcbOK(q)
    BY <2>3, FramesOK
  <2>5. PcbOK(pcb')
    BY <2>3, <2>4, TmrOK
  <2>6. pcb'.state = "NONE" => q.state = "NONE" /\ pcb'.segs = q.segs
    BY <2>3, <2>4, TmrMovesOn DEF PcbOK
  <2>7. q.state = "NONE" => pcb.state = "NONE" /\ q.segs = pcb.segs
    BY <2>3, FrameMovesOn DEF FrameMoves
  <2> QED BY <2>1, <2>5, <2>6, <2>7 DEF PcbOK
<1>3. CASE PeerReceives
  <2>1. PICK f \in pcb.wire : f.seq <= peer /\ peer < f.end /\ peer' = f.end
    BY <1>3 DEF PeerReceives
  <2>2. /\ pcb \in PcbType /\ f.end \in Nat /\ f.end <= pcb.written /\ pcb.una \in Nat
        /\ peer \in Nat /\ pcb.wire \subseteq Frame
    BY <2>1 DEF PcbOK, PcbType, Frame
  <2>3. pcb' = [pcb EXCEPT !.wire = {g \in @ : g.end > peer'}] /\ retval' = retval
    BY <1>3 DEF PeerReceives
  <2>4. /\ pcb' \in PcbType /\ pcb'.segs = pcb.segs /\ pcb'.wire \subseteq pcb.wire
        /\ pcb'.state = pcb.state /\ pcb'.una = pcb.una /\ pcb'.written = pcb.written
    BY <2>2, <2>3 DEF PcbType
  <2>5. pcb.una <= peer' /\ peer' <= pcb.written /\ peer' \in Nat
    BY <2>1, <2>2 DEF PcbOK
  <2> QED BY <2>3, <2>4, <2>5 DEF PcbOK
<1>4. CASE Elsewhere
  BY <1>4 DEF Elsewhere, PcbOK
<1>5. CASE UNCHANGED txVars
  BY <1>5 DEF txVars, PcbOK
<1> QED BY <1>1, <1>2, <1>3, <1>4, <1>5 DEF TxNext

(* The invariant of the transmit path holds in every behaviour.            *)
THEOREM TxInvariant == TxSpec => []TxInv
<1>1. TxInit => TxInv
  <2> SUFFICES ASSUME TxInit PROVE TxInv
    OBVIOUS
  <2>1. pcb \in PcbType
    BY SendAssumption DEF TxInit, PcbType
  <2>2. pcb.segs = {} /\ pcb.wire = {} /\ pcb.una = 0 /\ pcb.written = 0 /\ pcb.state = "NONE"
          /\ peer = 0 /\ retval = 0
    BY DEF TxInit
  <2> QED BY <2>1, <2>2, SendAssumption DEF TxInv, PcbOK
<1> QED BY <1>1, TxStepInv, PTL DEF TxSpec

(* The types hold, and no more than TCP_SND_BUF is ever queued.            *)
THEOREM TxTypesHold == TxSpec => []TxTypeOK
<1>1. LwipTypeOK /\ TxInv => TxTypeOK
  <2> SUFFICES ASSUME LwipTypeOK, TxInv PROVE TxTypeOK
    OBVIOUS
  <2>1. pcb.una \in Nat /\ pcb.written \in Nat
    BY SendAssumption DEF TxInv, PcbOK, PcbType
  <2> QED BY <2>1 DEF TxInv, PcbOK, TxTypeOK
<1> QED BY <1>1, TxInvariant, TxImplementsLwip, LwipTypesHold, PTL

(* The integration layer's properties hold under the transmit path.        *)
THEOREM TxTimersInTime == TxSpec => [](TimerNotEarly /\ TimerInTime)
  BY TxImplementsLwip, TimersNotEarly, TimersInTime, PTL
-----------------------------------------------------------------------------
(* A main cycle lets the stream proceed.                                   *)
LEMMA MainProceeds == ASSUME TxInv, TcpIp_MainFunction PROVE Stream!Proceed
<1>1. PcbOK(pcb) /\ peer \in Nat /\ (pcb.state = "NONE" => pcb.segs = {})
  BY DEF TxInv
<1>2. PICK frame \in BOOLEAN, fires \in BOOLEAN :
        \E q \in IF frame THEN Frames(pcb) ELSE {pcb} :
          pcb' \in IF fires THEN tcp_tmr(q) ELSE {q}
  BY DEF TcpIp_MainFunction
<1>3. PICK q \in IF frame THEN Frames(pcb) ELSE {pcb} :
        pcb' \in IF fires THEN tcp_tmr(q) ELSE {q}
  BY <1>2
<1>4. PcbOK(q) /\ q \in PcbType
  BY <1>1, <1>3, FramesOK DEF PcbOK
<1>5. /\ q.written = pcb.written /\ q.una \in pcb.una .. peer
      /\ q.state \in FrameMoves(pcb.state)
      /\ pcb.state = "NONE" => q.segs = {}
  <2>1. /\ pcb.una \in pcb.una .. peer
        /\ pcb.state \in {"NONE"} \cup Alive \cup Ended
    BY <1>1, SendAssumption DEF PcbOK, PcbType
  <2> QED BY <1>1, <1>3, <2>1, FrameMovesOn DEF FrameMoves, Alive, Ended
<1>6. /\ pcb'.written = q.written /\ pcb'.una = q.una
      /\ \/ pcb'.state = q.state
         \/ /\ q.state = "CLOSING" \/ (q.state = "ESTABLISHED" /\ q.segs # {})
            /\ pcb'.state = "TIMEDOUT"
  BY <1>3, <1>4, TmrMovesOn
<1>7. pcb'.state = "CLOSED" => pcb'.una = pcb'.written
  BY <1>4, <1>6 DEF PcbOK
<1>8. Status' \in Stream!Onwards(Status)
  <2>1. pcb.state \in {"NONE"} \cup Alive \cup Ended
    BY <1>1 DEF PcbOK, PcbType
  <2> QED BY <1>5, <1>6, <2>1 DEF Status, Stream!Onwards, FrameMoves, Alive, Ended
<1>9. Status' = "ended" => pcb'.state = "CLOSED"
  <2>1. pcb'.state \in {"NONE"} \cup Alive \cup Ended
    BY <1>4, <1>6 DEF PcbOK, PcbType, Ended
  <2> QED BY <2>1 DEF Status, Alive, Ended
<1> QED BY <1>5, <1>6, <1>7, <1>8, <1>9 DEF Stream!Proceed, TcpIp_MainFunction

(* TcpIp_send takes what it answers with 0, and nothing else.              *)
LEMMA SendAnswers == ASSUME TxInv, TcpIp_send PROVE Stream!Accept \/ Stream!Refuse
<1>1. PICK n \in 1 .. TCP_MSS :
        \/ pcb.state = "ESTABLISHED" /\ tcp_write(n) /\ retval' = 0
        \/ pcb.state = "ESTABLISHED" /\ retval' = -2 /\ UNCHANGED pcb
        \/ pcb.state = "CLOSING" /\ retval' = -3 /\ UNCHANGED pcb
  BY DEF TcpIp_send
<1>2. peer' = peer /\ pcb \in PcbType /\ pcb.written \in Nat /\ n \in Nat \ {0}
  BY SendAssumption DEF TcpIp_send, TxInv, PcbOK, PcbType
<1>3. CASE pcb.state = "ESTABLISHED" /\ tcp_write(n) /\ retval' = 0
  <2>1. pcb'.written = pcb.written + n /\ pcb'.una = pcb.una /\ pcb'.state = pcb.state
    BY <1>2, <1>3 DEF tcp_write, PcbType
  <2> QED BY <1>2, <1>3, <2>1 DEF Stream!Accept, Status
<1>4. CASE pcb.state = "ESTABLISHED" /\ retval' = -2 /\ UNCHANGED pcb
  BY <1>2, <1>4 DEF Stream!Refuse, Status
<1>5. CASE pcb.state = "CLOSING" /\ retval' = -3 /\ UNCHANGED pcb
  BY <1>2, <1>5 DEF Stream!Refuse, Status
<1> QED BY <1>1, <1>3, <1>4, <1>5

(* The peer's stream goes on, within what was accepted.                    *)
LEMMA PeerDelivers == ASSUME TxInv, PeerReceives PROVE Stream!Deliver
<1>1. PICK f \in pcb.wire : peer < f.end /\ peer' = f.end
  BY DEF PeerReceives
<1>2. pcb \in PcbType /\ f.end \in Nat /\ f.end <= pcb.written /\ pcb.written \in Nat
        /\ peer \in Nat
  BY SendAssumption DEF TxInv, PcbOK, PcbType, Frame
<1>3. pcb'.written = pcb.written /\ pcb'.una = pcb.una /\ pcb'.state = pcb.state
        /\ retval' = retval
  BY <1>2 DEF PeerReceives, PcbType
<1> QED BY <1>1, <1>2, <1>3 DEF Stream!Deliver, Status

(* On any network TcpIp_send is the start of a reliable stream.            *)
THEOREM TxImplementsStream == TxSpec => StreamSpec
<1>1. TxInit => Stream!Init
  BY DEF TxInit, Stream!Init, Status
<1>2. TxInv /\ [TxNext]_txVars => [Stream!Next]_(Stream!stream)
  <2> SUFFICES ASSUME TxInv, [TxNext]_txVars PROVE [Stream!Next]_(Stream!stream)
    OBVIOUS
  <2>1. CASE Elsewhere \/ UNCHANGED txVars
    BY <2>1 DEF Elsewhere, txVars, Stream!stream, Status
  <2> QED BY <2>1, SendAnswers, MainProceeds, PeerDelivers DEF TxNext, Stream!Next
<1> QED BY <1>1, <1>2, TxInvariant, PTL DEF TxSpec, StreamSpec, Stream!Spec

-----------------------------------------------------------------------------
(* The queue of segments: apart, without a gap, and with a timer.          *)
QueueOK(q) == Disjoint(q.segs) /\ Covered(q)

(* Marking segments, one by one, changes neither.                          *)
LEMMA MarkedQueue ==
  ASSUME NEW q, NEW r, NEW mark \in [q.segs -> r.segs], QueueOK(q),
         r.una = q.una, r.written = q.written,
         \A t \in r.segs : \E s \in q.segs : t = mark[s],
         \A s \in q.segs : mark[s].seq = s.seq /\ mark[s].end = s.end
  PROVE  QueueOK(r)
<1>1. Disjoint(r.segs)
  <2> SUFFICES ASSUME NEW t1 \in r.segs, NEW t2 \in r.segs, t1 # t2
               PROVE  t1.end <= t2.seq \/ t2.end <= t1.seq
    BY DEF Disjoint
  <2>1. PICK s1 \in q.segs : t1 = mark[s1]
    OBVIOUS
  <2>2. PICK s2 \in q.segs : t2 = mark[s2]
    OBVIOUS
  <2>3. s1 # s2
    BY <2>1, <2>2
  <2> QED BY <2>1, <2>2, <2>3 DEF QueueOK, Disjoint
<1>2. Covered(r)
  <2> SUFFICES ASSUME NEW u \in r.una + 1 .. r.written
               PROVE  \E t \in r.segs : t.seq < u /\ u <= t.end
    BY DEF Covered
  <2>1. PICK s \in q.segs : s.seq < u /\ u <= s.end
    BY DEF QueueOK, Covered
  <2>2. mark[s] \in r.segs /\ mark[s].seq < u /\ u <= mark[s].end
    BY <2>1
  <2> QED BY <2>2
<1> QED BY <1>1, <1>2 DEF QueueOK

(* What goes out stays queued.                                             *)
LEMMA OutputQueue ==
  ASSUME NEW q \in PcbType, QueueOK(q), NEW r \in tcp_output(q)
  PROVE  QueueOK(r)
<1>1. PICK n : r = LET now == {s \in Unsent(q.segs) : s.end <= n}
                   IN  [q EXCEPT !.segs = (@ \ now) \cup {[s EXCEPT !.out = TRUE] : s \in now},
                                 !.room = @ /\ now # Unsent(q.segs),
                                 !.wire = {f \in @ \cup {netif_output(s) : s \in now} : f.end > peer}]
  BY DEF tcp_output
<1> DEFINE now == {s \in Unsent(q.segs) : s.end <= n}
           mark == [s \in q.segs |-> IF s \in now THEN [s EXCEPT !.out = TRUE] ELSE s]
<1>2. /\ r.segs = (q.segs \ now) \cup {[s EXCEPT !.out = TRUE] : s \in now}
      /\ r.una = q.una /\ r.written = q.written
  BY <1>1 DEF PcbType
<1>3. now \subseteq q.segs /\ q.segs \subseteq Segment
  BY DEF Unsent, PcbType
<1>4. mark \in [q.segs -> r.segs] /\ \A t \in r.segs : \E s \in q.segs : t = mark[s]
  <2> HIDE DEF now
  <2> QED BY <1>2, <1>3
<1>5. \A s \in q.segs : mark[s].seq = s.seq /\ mark[s].end = s.end
  <2> HIDE DEF now
  <2> QED BY <1>3 DEF Segment
<1> HIDE DEF mark
<1> QED BY <1>2, <1>4, <1>5, MarkedQueue

(* So does what is to be sent again.                                       *)
LEMMA TmrQueue ==
  ASSUME NEW q, PcbOK(q), QueueOK(q), NEW r \in tcp_tmr(q)
  PROVE  QueueOK(r)
<1> DEFINE again == {[s EXCEPT !.out = FALSE] : s \in q.segs}
           rexmit == [q EXCEPT !.segs = again, !.nrtx = @ + 1]
           mark == [s \in q.segs |-> [s EXCEPT !.out = FALSE]]
<1>1. q \in PcbType /\ q.segs \subseteq Segment
  BY DEF PcbOK, PcbType
<1>2. CASE r = q
  BY <1>2
<1>3. CASE r = [q EXCEPT !.state = "TIMEDOUT"]
  BY <1>1, <1>3 DEF QueueOK, Covered, PcbType
<1>4. CASE r \in tcp_output(q)
  BY <1>1, <1>4, OutputQueue
<1>5. CASE q.nrtx < TCP_MAXRTX /\ r \in tcp_output(rexmit)
  <2>1. rexmit.segs = again /\ rexmit.una = q.una /\ rexmit.written = q.written
    BY <1>1 DEF PcbType
  <2>2. mark \in [q.segs -> rexmit.segs] /\ \A t \in rexmit.segs : \E s \in q.segs : t = mark[s]
    BY <2>1
  <2>3. \A s \in q.segs : mark[s].seq = s.seq /\ mark[s].end = s.end
    BY <1>1 DEF Segment
  <2>4. QueueOK(rexmit)
    <3> HIDE DEF mark, rexmit, again
    <3> QED BY <2>1, <2>2, <2>3, MarkedQueue
  <2>5. rexmit \in PcbType
    <3>1. \A s \in q.segs : [s EXCEPT !.out = FALSE] \in Segment
      BY <1>1 DEF Segment
    <3>2. again \subseteq Segment
      BY <3>1
    <3>3. q.nrtx + 1 \in 0 .. TCP_MAXRTX
      BY <1>1, <1>5, SendAssumption DEF PcbType
    <3> HIDE DEF again
    <3> QED BY <1>1, <3>2, <3>3 DEF PcbType
  <2> HIDE DEF rexmit
  <2> QED BY <1>5, <2>4, <2>5, OutputQueue
<1> QED BY <1>2, <1>3, <1>4, <1>5 DEF tcp_tmr

(* An acknowledgement takes away only what is acknowledged.                *)
LEMMA ReceiveQueue ==
  ASSUME NEW q, PcbOK(q), QueueOK(q), peer \in Nat,
         NEW a \in q.una .. peer, NEW r \in tcp_receive(q, a)
  PROVE  QueueOK(r)
<1> DEFINE acked == [q EXCEPT !.una = a,
                              !.segs = {s \in @ : s.end > a},
                              !.nrtx = IF a > q.una THEN 0 ELSE @]
<1>1. /\ q \in PcbType /\ q.segs \subseteq Segment /\ q.una \in Nat /\ q.written \in Nat
      /\ a \in 0 .. MaxUnits /\ q.una <= a
  BY SendAssumption DEF PcbOK, PcbType
<1>2. /\ acked.una = a /\ acked.segs = {s \in q.segs : s.end > a}
      /\ acked.written = q.written /\ acked.wire = q.wire /\ acked.state = q.state
      /\ acked.room = q.room /\ acked.nrtx \in 0 .. TCP_MAXRTX
  BY <1>1, SendAssumption DEF PcbType
<1>3. acked \in PcbType
  BY <1>1, <1>2, SendAssumption DEF PcbType
<1> HIDE DEF acked
<1>4. Covered(acked)
  <2> SUFFICES ASSUME NEW u \in a + 1 .. q.written
               PROVE  \E s \in q.segs : s.end > a /\ s.seq < u /\ u <= s.end
    BY <1>2 DEF Covered
  <2>1. u \in q.una + 1 .. q.written
    BY <1>1
  <2>2. PICK s \in q.segs : s.seq < u /\ u <= s.end
    BY <2>1 DEF QueueOK, Covered
  <2>3. s.end \in Nat
    BY <1>1 DEF Segment
  <2> QED BY <1>1, <2>2, <2>3
<1>5. QueueOK(acked)
  BY <1>2, <1>4 DEF QueueOK, Disjoint
<1>6. CASE r = [acked EXCEPT !.state = "CLOSED"]
  BY <1>3, <1>5, <1>6 DEF QueueOK, Covered, PcbType
<1>7. r \in tcp_output(acked) \/ r = [acked EXCEPT !.state = "CLOSED"]
  BY DEF tcp_receive, acked
<1> QED BY <1>3, <1>5, <1>6, <1>7, OutputQueue

(* No frame that arrives makes a gap.                                      *)
LEMMA FramesQueue ==
  ASSUME NEW q, PcbOK(q), QueueOK(q), peer \in Nat, NEW r \in Frames(q)
  PROVE  QueueOK(r)
<1> DEFINE U == UNION {tcp_receive(q, a) : a \in q.una .. peer}
<1>1. \/ r = q
      \/ \E st \in {"ESTABLISHED", "CLOSING", "RESET"} : r = [q EXCEPT !.state = st]
      \/ r \in U
  <2> HIDE DEF U
  <2> QED BY DEF Frames, tcpip_raw_accept, tcpip_raw_close, U
<1>2. CASE r = q
  BY <1>2
<1>3. CASE \E st \in {"ESTABLISHED", "CLOSING", "RESET"} : r = [q EXCEPT !.state = st]
  BY <1>3 DEF QueueOK, Covered, PcbOK, PcbType
<1>4. CASE r \in U
  <2>1. PICK a \in q.una .. peer : r \in tcp_receive(q, a)
    BY <1>4
  <2> QED BY <2>1, ReceiveQueue
<1> QED BY <1>1, <1>2, <1>3, <1>4

(* What tcp_write adds follows what is queued: it makes the last segment   *)
(* longer, or follows it, or both.                                         *)
LEMMA WriteQueue ==
  ASSUME PcbOK(pcb), QueueOK(pcb), NEW n \in 1 .. TCP_MSS, tcp_write(n)
  PROVE  QueueOK(pcb')
<1>1. PICK fill \in 0 .. n :
        /\ Fits(fill, n)
        /\ pcb' = [pcb EXCEPT
             !.segs = (@ \ LastUnsent)
                        \cup {IF fill = 0 THEN s ELSE Extended(s, fill) : s \in LastUnsent}
                        \cup (IF fill = n THEN {}
                              ELSE {NewSegment(pcb.written + fill, n - fill)}),
             !.room = pcb.segs # {},
             !.written = @ + n]
  BY DEF tcp_write
<1> DEFINE new == NewSegment(pcb.written + fill, n - fill)
           more(s) == IF fill = 0 THEN s ELSE Extended(s, fill)
<1>2. /\ pcb \in PcbType /\ pcb.segs \subseteq Segment /\ LastUnsent \subseteq pcb.segs
      /\ pcb.written \in Nat /\ pcb.una \in Nat /\ n \in Nat \ {0} /\ fill \in Nat /\ fill <= n
  BY SendAssumption DEF PcbOK, PcbType, LastUnsent, Unsent
<1>3. /\ pcb'.segs = (pcb.segs \ LastUnsent) \cup {more(s) : s \in LastUnsent}
                       \cup (IF fill = n THEN {} ELSE {new})
      /\ pcb'.una = pcb.una /\ pcb'.written = pcb.written + n
  BY <1>1, <1>2 DEF PcbType
<1>4. \A s \in pcb.segs : /\ s.seq \in Nat /\ s.end \in Nat /\ s.seq < s.end
                          /\ s.end <= pcb.written
  <2> TAKE s \in pcb.segs
  <2>1. s \in Segment /\ s.seq + s.first <= s.end /\ s.end <= pcb.written
    BY <1>2 DEF PcbOK
  <2> QED BY <2>1, SendAssumption DEF Segment
<1>5. \A s \in LastUnsent : /\ s.end = pcb.written
                            /\ more(s).seq = s.seq /\ more(s).end = pcb.written + fill
  <2> TAKE s \in LastUnsent
  <2>1. s.end = pcb.written /\ s \in Segment
    BY <1>2 DEF LastUnsent
  <2> QED BY <2>1, <1>2 DEF Extended, Segment
<1>6. new.seq = pcb.written + fill /\ new.end = pcb.written + n
  BY <1>2 DEF NewSegment
<1> HIDE DEF new, more
<1>7. Disjoint(pcb'.segs)
  <2>1. ASSUME NEW s \in pcb.segs, NEW t \in LastUnsent, s # t
        PROVE  s.end <= t.seq
    BY <1>2, <1>4, <1>5, <2>1 DEF QueueOK, Disjoint
  <2> DEFINE Apart(s, t) == s.end <= t.seq \/ t.end <= s.seq
  <2>2. ASSUME NEW s \in pcb.segs \ LastUnsent, NEW t \in pcb.segs \ LastUnsent, s # t
        PROVE  Apart(s, t)
    BY <2>2 DEF QueueOK, Disjoint
  <2>3. ASSUME NEW s \in pcb.segs \ LastUnsent, NEW t \in LastUnsent
        PROVE  s.end <= more(t).seq
    BY <2>1, <1>5
  <2>4. ASSUME NEW s \in LastUnsent, NEW t \in LastUnsent PROVE s = t
    <3>1. s # t => s.end <= t.seq
      BY <2>1, <1>2
    <3>2. s.end = t.end /\ t.seq < t.end /\ t.seq \in Nat /\ t.end \in Nat
      BY <1>2, <1>4, <1>5
    <3> QED BY <3>1, <3>2
  <2>5. ASSUME NEW s \in pcb.segs \ LastUnsent PROVE s.end <= new.seq
    BY <1>2, <1>4, <1>6
  <2>6. ASSUME NEW s \in LastUnsent PROVE more(s).end <= new.seq
    BY <1>2, <1>5, <1>6
  <2>7. ASSUME NEW s \in pcb'.segs
        PROVE  s \in pcb.segs \ LastUnsent \/ (\E t \in LastUnsent : s = more(t)) \/ s = new
    BY <1>3
  <2>8. ASSUME NEW s \in pcb'.segs, NEW t \in pcb'.segs, s # t PROVE Apart(s, t)
    <3>1. CASE s \in pcb.segs \ LastUnsent
      BY <2>2, <2>3, <2>5, <2>7, <2>8, <3>1
    <3>2. CASE \E x \in LastUnsent : s = more(x)
      <4>1. PICK x \in LastUnsent : s = more(x)
        BY <3>2
      <4>2. ASSUME NEW y \in LastUnsent, t = more(y) PROVE FALSE
        <5>1. x = y
          BY <2>4
        <5> QED BY <5>1, <4>1, <4>2, <2>8
      <4> QED BY <4>1, <4>2, <2>3, <2>6, <2>7
    <3>3. CASE s = new
      BY <2>5, <2>6, <2>7, <2>8, <3>3
    <3> QED BY <2>7, <3>1, <3>2, <3>3
  <2> QED BY <2>8 DEF Disjoint
<1>8. Covered(pcb')
  <2> SUFFICES ASSUME NEW u \in pcb.una + 1 .. pcb.written + n
               PROVE  \E s \in pcb'.segs : s.seq < u /\ u <= s.end
    BY <1>3 DEF Covered
  <2>1. u \in Int
    BY <1>2
  <2>2. CASE u <= pcb.written
    <3>1. PICK s \in pcb.segs : s.seq < u /\ u <= s.end
      BY <1>2, <2>1, <2>2 DEF QueueOK, Covered
    <3>2. CASE s \in LastUnsent
      <4>1. more(s) \in pcb'.segs
        BY <1>3, <3>2
      <4>2. more(s).seq < u /\ u <= more(s).end
        BY <1>2, <1>4, <1>5, <2>1, <2>2, <3>1, <3>2
      <4> QED BY <4>1, <4>2
    <3>3. CASE s \notin LastUnsent
      BY <1>3, <3>1, <3>3
    <3> QED BY <3>2, <3>3
  <2>3. CASE pcb.written < u /\ u <= pcb.written + fill
    <3>1. fill # 0
      BY <1>2, <2>1, <2>3
    <3>2. PICK s \in LastUnsent : TRUE
      BY <1>1, <3>1 DEF Fits
    <3>3. more(s) \in pcb'.segs
      BY <1>3
    <3>4. more(s).seq < u /\ u <= more(s).end
      BY <1>2, <1>4, <1>5, <2>1, <2>3
    <3> QED BY <3>3, <3>4
  <2>4. CASE pcb.written + fill < u
    <3>1. fill # n /\ u <= pcb.written + n
      BY <1>2, <2>1, <2>4
    <3>2. new \in pcb'.segs
      BY <1>3, <3>1
    <3> QED BY <1>6, <2>4, <3>1, <3>2
  <2> QED BY <1>2, <2>1, <2>2, <2>3, <2>4
<1> QED BY <1>7, <1>8 DEF QueueOK

(* Each step keeps the queue whole and the timer of a connection running.  *)
LEMMA QueueStepInv == TxInv /\ QueueInv /\ [TxNext]_txVars => QueueInv'
<1> SUFFICES ASSUME TxInv, QueueInv, [TxNext]_txVars PROVE QueueInv'
  OBVIOUS
<1>1. PcbOK(pcb) /\ QueueOK(pcb) /\ peer \in Nat /\ pcb \in PcbType
  BY DEF TxInv, QueueInv, QueueOK, PcbOK
<1>2. CASE TcpIp_send
  <2>1. /\ QueueOK(pcb') /\ pcb'.state = pcb.state
    <3>1. CASE UNCHANGED pcb
      BY <1>1, <3>1 DEF QueueOK
    <3>2. CASE \E n \in 1 .. TCP_MSS : tcp_write(n)
      <4>1. pcb'.state = pcb.state
        BY <1>1, <3>2 DEF tcp_write, PcbType
      <4> QED BY <1>1, <3>2, <4>1, WriteQueue
    <3> QED BY <1>2, <3>1, <3>2 DEF TcpIp_send
  <2> QED BY <1>2, <2>1 DEF TcpIp_send, QueueInv, QueueOK, lwipVars
<1>3. CASE TcpIp_MainFunction
  <2>1. PICK frame \in BOOLEAN, fires \in BOOLEAN :
          /\ lwip_int_main(frame, fires)
          /\ \E q \in IF frame THEN Frames(pcb) ELSE {pcb} :
               pcb' \in IF fires THEN tcp_tmr(q) ELSE {q}
    BY <1>3 DEF TcpIp_MainFunction
  <2>2. PICK q \in IF frame THEN Frames(pcb) ELSE {pcb} :
          pcb' \in IF fires THEN tcp_tmr(q) ELSE {q}
    BY <2>1
  <2>3. PcbOK(q) /\ QueueOK(q)
    BY <1>1, <2>2, FramesOK, FramesQueue
  <2>4. QueueOK(pcb')
    BY <2>2, <2>3, TmrQueue
  <2>5. armed' => up'
    BY <2>1 DEF lwip_int_main, InputToAll, sys_check_timeouts, NoTimer, Expired, timer, QueueInv
  <2>6. pcb'.state \in Alive => armed'
    BY <1>3 DEF TcpIp_MainFunction
  <2> QED BY <2>4, <2>5, <2>6 DEF QueueInv, QueueOK
<1>4. CASE PeerReceives
  <2>1. /\ pcb'.segs = pcb.segs /\ pcb'.state = pcb.state
        /\ pcb'.una = pcb.una /\ pcb'.written = pcb.written
    BY <1>1, <1>4 DEF PeerReceives, PcbType
  <2> QED BY <1>4, <2>1 DEF PeerReceives, QueueInv, Covered, lwipVars
<1>5. CASE Elsewhere
  BY <1>5 DEF Elsewhere, lwip_int_init, NoTimer, Tick, tcp_timer_needed, sys_timeout,
              QueueInv, Covered
<1>6. CASE UNCHANGED txVars
  BY <1>6 DEF txVars, lwipVars, QueueInv, Covered
<1> QED BY <1>2, <1>3, <1>4, <1>5, <1>6 DEF TxNext

(* For every segment size and buffer: what was accepted and is not yet     *)
(* acknowledged is queued, each unit once, and the timer for it runs.      *)
THEOREM AcceptedStaysQueued == TxSpec => []AcceptedIsQueued
<1>1. TxInit => QueueInv
  <2> SUFFICES ASSUME TxInit PROVE QueueInv
    OBVIOUS
  <2>1. pcb.segs = {} /\ pcb.una = 0 /\ pcb.written = 0 /\ pcb.state = "NONE" /\ ~armed
    BY DEF TxInit, LwipInit
  <2> QED BY <2>1 DEF QueueInv, Disjoint, Covered, Alive
<1>2. TxInv /\ QueueInv => AcceptedIsQueued
  <2> SUFFICES ASSUME TxInv, QueueInv, NEW u \in pcb.una + 1 .. pcb.written
               PROVE  \E s \in pcb.segs : \A t \in pcb.segs : t.seq < u /\ u <= t.end <=> t = s
    BY DEF AcceptedIsQueued, QueueInv
  <2>1. PICK s \in pcb.segs : s.seq < u /\ u <= s.end
    BY DEF QueueInv, Covered
  <2>2. ASSUME NEW t \in pcb.segs, t.seq < u, u <= t.end PROVE t = s
    <3>1. s \in Segment /\ t \in Segment /\ u \in Int
      BY SendAssumption DEF TxInv, PcbOK, PcbType
    <3>2. t # s => s.end <= t.seq \/ t.end <= s.seq
      BY DEF QueueInv, Disjoint
    <3> QED BY <2>1, <2>2, <3>1, <3>2 DEF Segment
  <2> QED BY <2>1, <2>2
<1> QED BY <1>1, <1>2, QueueStepInv, TxInvariant, PTL DEF TxSpec
=============================================================================
