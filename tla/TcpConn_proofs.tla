--------------------------- MODULE TcpConn_proofs ---------------------------
(***************************************************************************)
(* Proofs about TcpConn for any pools of pcbs and any ports: the type      *)
(* invariant and RecvWhileOpen.  A service or an event gives one or two    *)
(* pcbs a new record or runs tcpip_raw_close, so the lemmas say what each  *)
(* of these does to a map of pcbs.                                         *)
(***************************************************************************)
EXTENDS TcpConn, TLAPS

(* What IInv says of the types of a map m of pcbs, and of one record r.    *)
Typed(m) ==
  /\ m \in [AllPcbs -> PcbType]
  /\ \A l \in ListenPcbs : m[l].state \in {"FREE", "LISTEN"}
  /\ \A p \in Pcbs : m[p].state # "LISTEN"

Called(r) ==
  /\ r.state \in {"ESTABLISHED", "SYN_SENT"} => r.recv
  /\ r.state \in {"FREE", "LISTEN", "FIN_WAIT", "CLOSE_WAIT", "LAST_ACK"} => ~r.recv

Good(m) == Typed(m) /\ \A p \in AllPcbs : Called(m[p])

(* A record for the slot p: only slots for listeners hold listeners.       *)
Fits(r, p) ==
  /\ r \in PcbType
  /\ p \in ListenPcbs => r.state \in {"FREE", "LISTEN"}
  /\ p \in Pcbs => r.state # "LISTEN"

(* The part of the invariant that is not about the pcbs.                   *)
Scalars ==
  /\ tcpip_raw_pcb \in AllPcbs \cup {NULL}
  /\ retval \in {"E_OK", "E_NOT_OK"}
  /\ fault \in BOOLEAN

(* IInv is these two parts.                                                *)
LEMMA Parts == IInv <=> Good(pcb) /\ Scalars
  BY DEF IInv, TypeOK, RecvWhileOpen, Good, Typed, Called, Scalars, AllPcbs

(* An unused pcb fits every slot.                                          *)
LEMMA FreeFits == ASSUME NEW p PROVE Fits(Free, p) /\ Called(Free)
  BY DEF Free, Fits, Called, PcbType, States

(* Putting a record into its slot keeps a map good.                        *)
LEMMA Replaced ==
  ASSUME NEW m, Typed(m), NEW p \in AllPcbs, NEW r, Fits(r, p), Called(r),
         \A c \in AllPcbs \ {p} : Called(m[c])
  PROVE  Good([m EXCEPT ![p] = r])
  BY DEF Good, Typed, Fits, AllPcbs

(* tcpip_raw_close makes the connection it closes good, whatever its       *)
(* callback.                                                               *)
LEMMA ClosedIsGood ==
  ASSUME NEW m, Typed(m), NEW p \in AllPcbs, m[p].state # "LISTEN",
         \A c \in AllPcbs \ {p} : Called(m[c])
  PROVE  Good(tcpip_raw_close(m, p))
<1> DEFINE n == [m EXCEPT ![p].recv = FALSE]
<1>1. Typed(n) /\ ~n[p].recv /\ n[p].state = m[p].state
  BY DEF Typed, PcbType, AllPcbs
<1>2. \A c \in AllPcbs \ {p} : Called(n[c])
  BY DEF Typed
<1>3. Fits(n[p], p)
  BY <1>1 DEF Typed, Fits, AllPcbs
<1>4. tcpip_raw_close(m, p) = tcp_close(n, p)
  BY DEF tcpip_raw_close
<1> HIDE DEF n
<1>5. CASE n[p].state \in {"CLOSED", "SYN_SENT"}
  <2>1. tcp_close(n, p) = [n EXCEPT ![p] = Free]
    BY <1>5 DEF tcp_close
  <2>2. Good([n EXCEPT ![p] = Free])
    BY <1>1, <1>2, FreeFits, Replaced
  <2> QED
    BY <1>4, <2>1, <2>2
<1>6. CASE n[p].state = "LISTEN"
  BY <1>1, <1>6
<1>7. CASE n[p].state \in {"SYN_RCVD", "ESTABLISHED"}
  <2> DEFINE r == [n[p] EXCEPT !.state = "FIN_WAIT"]
  <2>1. tcp_close(n, p) = [n EXCEPT ![p] = r]
    BY <1>1, <1>7 DEF tcp_close, Typed
  <2>2. Fits(r, p) /\ Called(r)
    BY <1>1, <1>3, <1>7 DEF Fits, Called, PcbType, States
  <2> HIDE DEF r
  <2>3. Good([n EXCEPT ![p] = r])
    BY <1>1, <1>2, <2>2, Replaced
  <2> QED
    BY <1>4, <2>1, <2>3
<1>8. CASE n[p].state = "CLOSE_WAIT"
  <2> DEFINE r == [n[p] EXCEPT !.state = "LAST_ACK"]
  <2>1. tcp_close(n, p) = [n EXCEPT ![p] = r]
    BY <1>1, <1>8 DEF tcp_close, Typed
  <2>2. Fits(r, p) /\ Called(r)
    BY <1>1, <1>3, <1>8 DEF Fits, Called, PcbType, States
  <2> HIDE DEF r
  <2>3. Good([n EXCEPT ![p] = r])
    BY <1>1, <1>2, <2>2, Replaced
  <2> QED
    BY <1>4, <2>1, <2>3
<1>9. CASE n[p].state \in {"FREE", "FIN_WAIT", "LAST_ACK"}
  <2>1. tcp_close(n, p) = n
    BY <1>9 DEF tcp_close
  <2>2. Called(n[p])
    BY <1>1, <1>9 DEF Called
  <2> QED
    BY <1>1, <1>2, <1>4, <2>1, <2>2 DEF Good
<1> QED
  BY <1>1, <1>5, <1>6, <1>7, <1>8, <1>9 DEF Typed, PcbType, States

-----------------------------------------------------------------------------
(* IInv holds initially.                                                   *)
LEMMA InitInv == Init => IInv
<1>1. Init => Good(pcb)
  BY FreeFits DEF Init, Good, Typed, Fits, Free, AllPcbs
<1>2. Init => Scalars
  BY DEF Init, Scalars
<1> QED
  BY <1>1, <1>2, Parts

(* Putting one record into the map of pcbs, as a step.                     *)
LEMMA ReplaceOne ==
  ASSUME Good(pcb), NEW p \in AllPcbs, NEW r, Fits(r, p), Called(r),
         pcb' = [pcb EXCEPT ![p] = r]
  PROVE  Good(pcb)'
<1>1. Good([pcb EXCEPT ![p] = r])
  BY Replaced DEF Good
<1> QED
  BY <1>1 DEF Good, Typed, Called

(* The same for a closed pcb.                                              *)
LEMMA CloseOne ==
  ASSUME NEW m, Typed(m), NEW p \in AllPcbs, m[p].state # "LISTEN",
         \A c \in AllPcbs \ {p} : Called(m[c]), pcb' = tcpip_raw_close(m, p)
  PROVE  Good(pcb)'
<1>1. Good(tcpip_raw_close(m, p))
  BY ClosedIsGood
<1>2. ASSUME NEW q, Good(q), pcb' = q PROVE Good(pcb)'
  BY <1>2 DEF Good, Typed, Called
<1> QED
  BY <1>1, <1>2

(* Every service keeps IInv.                                               *)
LEMMA ServiceInv == IInv /\ Service => IInv'
<1> SUFFICES ASSUME Good(pcb), Scalars, Service
             PROVE  (Good(pcb) /\ Scalars)'
  BY Parts DEF IInv, TypeOK, RecvWhileOpen, Good, Typed, Called, Scalars, AllPcbs
<1>1. ASSUME NEW q \in Ports, TcpIp_Bind(q)
      PROVE  (Good(pcb) /\ Scalars)'
  <2>1. CASE UNCHANGED pcb /\ tcpip_raw_pcb' = NULL /\ Return("E_OK")
    BY <2>1 DEF Return, Scalars, Good, Typed, Called
  <2>2. ASSUME NEW p \in Pcbs, tcpip_raw_pcb' = p,
               pcb' = [pcb EXCEPT ![p] = [Free EXCEPT
                         !.state = "CLOSED", !.port = IF PortTaken(p, q) THEN NULL ELSE q]],
               Return(IF PortTaken(p, q) THEN "E_NOT_OK" ELSE "E_OK")
        PROVE  (Good(pcb) /\ Scalars)'
    <3> DEFINE r == [Free EXCEPT !.state = "CLOSED", !.port = IF PortTaken(p, q) THEN NULL ELSE q]
    <3>1. Fits(r, p) /\ Called(r) /\ p \in AllPcbs
      BY PcbAssumption DEF Free, Fits, Called, PcbType, States, AllPcbs
    <3> HIDE DEF r
    <3>2. Good(pcb)'
      BY <2>2, <3>1, ReplaceOne DEF r
    <3>3. Scalars'
      BY <2>2, <3>1 DEF Scalars, Return
    <3> QED
      BY <3>2, <3>3
  <2> QED
    BY <1>1, <2>1, <2>2 DEF TcpIp_Bind
<1>2. CASE TcpIp_TcpListen
  <2>1. CASE UNCHANGED <<tcpip_raw_pcb, pcb>> /\ (Return("E_NOT_OK") \/ Fault)
    BY <2>1 DEF Return, Fault, Scalars, Good, Typed, Called
  <2>2. CASE Usable /\ tcp_listen(tcpip_raw_pcb) /\ Return("E_OK")
    <3> DEFINE p == tcpip_raw_pcb
    <3>1. p \in AllPcbs
      BY <2>2 DEF Usable, Scalars
    <3>2. CASE UNCHANGED pcb /\ tcpip_raw_pcb' = NULL
      BY <2>2, <3>2 DEF Return, Scalars, Good, Typed, Called
    <3>3. ASSUME pcb[p].state = "CLOSED", NEW l \in ListenPcbs, tcpip_raw_pcb' = l,
                 pcb' = [pcb EXCEPT ![p] = Free,
                           ![l] = [Free EXCEPT !.state = "LISTEN", !.port = pcb[p].port]]
          PROVE  (Good(pcb) /\ Scalars)'
      <4> DEFINE m == [pcb EXCEPT ![p] = Free]
                 r == [Free EXCEPT !.state = "LISTEN", !.port = pcb[p].port]
      <4>1. Good(m)
        BY <3>1, FreeFits, Replaced DEF Good
      <4>2. Fits(r, l) /\ Called(r) /\ l \in AllPcbs
        BY <3>1, PcbAssumption DEF Free, Fits, Called, PcbType, States, AllPcbs, Good, Typed
      <4>3. pcb' = [m EXCEPT ![l] = r]
        BY <3>3
      <4> HIDE DEF m, r
      <4>4. Good([m EXCEPT ![l] = r])
        BY <4>1, <4>2, Replaced DEF Good
      <4>5. Good(pcb)'
        BY <4>3, <4>4 DEF Good, Typed, Called
      <4>6. Scalars'
        BY <2>2, <3>3, <4>2 DEF Scalars, Return
      <4> QED
        BY <4>5, <4>6
    <3> QED
      BY <2>2, <3>2, <3>3 DEF tcp_listen
  <2> QED
    BY <1>2, <2>1, <2>2 DEF TcpIp_TcpListen, Fault
<1>3. CASE TcpIp_TcpConnect
  <2>1. CASE UNCHANGED <<tcpip_raw_pcb, pcb>> /\ Return("E_NOT_OK")
    BY <2>1 DEF Return, Scalars, Good, Typed, Called
  <2>2. ASSUME NEW p \in Pcbs, NEW s \in {"SYN_SENT", "CLOSED"},
               pcb' = [pcb EXCEPT ![p] = [Free EXCEPT !.state = s, !.recv = TRUE]],
               Return(IF s = "SYN_SENT" THEN "E_OK" ELSE "E_NOT_OK"),
               UNCHANGED tcpip_raw_pcb
        PROVE  (Good(pcb) /\ Scalars)'
    <3> DEFINE r == [Free EXCEPT !.state = s, !.recv = TRUE]
    <3>1. Fits(r, p) /\ Called(r) /\ p \in AllPcbs
      BY PcbAssumption DEF Free, Fits, Called, PcbType, States, AllPcbs
    <3> HIDE DEF r
    <3>2. Good(pcb)'
      BY <2>2, <3>1, ReplaceOne DEF r
    <3>3. Scalars'
      BY <2>2 DEF Scalars, Return
    <3> QED
      BY <3>2, <3>3
  <2> QED
    BY <1>3, <2>1, <2>2 DEF TcpIp_TcpConnect
<1>4. CASE TcpIp_Close
  <2>1. CASE UNCHANGED <<tcpip_raw_pcb, pcb>> /\ (Return("E_NOT_OK") \/ Fault)
    BY <2>1 DEF Return, Fault, Scalars, Good, Typed, Called
  <2>2. CASE /\ Usable /\ pcb[tcpip_raw_pcb].state # "LISTEN"
             /\ Return("E_OK") /\ UNCHANGED tcpip_raw_pcb
             /\ pcb' = tcpip_raw_close(pcb, tcpip_raw_pcb)
    <3>1. tcpip_raw_pcb \in AllPcbs
      BY <2>2 DEF Usable, Scalars
    <3>2. Good(pcb)'
      BY <2>2, <3>1, CloseOne DEF Good
    <3>3. Scalars'
      BY <2>2 DEF Scalars, Return
    <3> QED
      BY <3>2, <3>3
  <2> QED
    BY <1>4, <2>1, <2>2 DEF TcpIp_Close, Fault
<1>5. CASE TcpIp_send \/ TcpIp_getConnState
  BY <1>5 DEF TcpIp_send, TcpIp_getConnState, Fault, Scalars, Good, Typed, Called
<1> QED
  BY <1>1, <1>2, <1>3, <1>4, <1>5 DEF Service

(* Every event of lwIP keeps IInv.                                         *)
LEMMA StackInv == IInv /\ Stack => IInv'
<1> SUFFICES ASSUME Good(pcb), Scalars, Stack
             PROVE  (Good(pcb) /\ Scalars)'
  BY Parts DEF IInv, TypeOK, RecvWhileOpen, Good, Typed, Called, Scalars, AllPcbs
<1>1. ASSUME NEW l \in ListenPcbs, Syn(l)
      PROVE  (Good(pcb) /\ Scalars)'
  <2>1. CASE tcpip_raw_pcb' = NULL /\ UNCHANGED <<pcb, retval, fault>>
    BY <2>1 DEF Scalars, Good, Typed, Called
  <2>2. ASSUME NEW p \in Pcbs, UNCHANGED <<tcpip_raw_pcb, retval, fault>>,
               pcb' = [pcb EXCEPT ![p] = [Free EXCEPT
                         !.state = "SYN_RCVD", !.port = pcb[l].port]]
        PROVE  (Good(pcb) /\ Scalars)'
    <3> DEFINE r == [Free EXCEPT !.state = "SYN_RCVD", !.port = pcb[l].port]
    <3>1. Fits(r, p) /\ Called(r) /\ p \in AllPcbs
      BY PcbAssumption DEF Free, Fits, Called, PcbType, States, AllPcbs, Good, Typed
    <3> HIDE DEF r
    <3>2. Good(pcb)'
      BY <2>2, <3>1, ReplaceOne DEF r
    <3> QED
      BY <2>2, <3>2 DEF Scalars
  <2> QED
    BY <1>1, <2>1, <2>2 DEF Syn, Event
<1>2. ASSUME NEW p \in Pcbs, Accept(p)
      PROVE  (Good(pcb) /\ Scalars)'
  <2>1. p \in AllPcbs /\ pcb[p] \in PcbType
    BY DEF AllPcbs, Good, Typed
  <2> DEFINE r == [pcb[p] EXCEPT !.state = "ESTABLISHED", !.prio = "MIN", !.recv = TRUE]
  <2>2. Fits(r, p) /\ Called(r)
    BY <2>1, PcbAssumption DEF Fits, Called, PcbType, States
  <2>3. pcb' = [pcb EXCEPT ![p] = r]
    BY <1>2, <2>1 DEF Accept, tcpip_raw_accept, Good, Typed, PcbType
  <2> HIDE DEF r
  <2>4. Good(pcb)'
    BY <2>1, <2>2, <2>3, ReplaceOne
  <2> QED
    BY <1>2, <2>1, <2>4 DEF Scalars, Accept, Event
<1>3. ASSUME NEW p \in Pcbs, Connected(p)
      PROVE  (Good(pcb) /\ Scalars)'
  <2> DEFINE r == [pcb[p] EXCEPT !.state = "ESTABLISHED"]
  <2>1. p \in AllPcbs /\ pcb[p] \in PcbType /\ Called(pcb[p])
    BY DEF AllPcbs, Good, Typed
  <2>2. Fits(r, p) /\ Called(r)
    BY <1>3, <2>1, PcbAssumption DEF Connected, Fits, Called, PcbType, States
  <2>3. pcb' = [pcb EXCEPT ![p] = r]
    BY <1>3, <2>1 DEF Connected, Good, Typed
  <2> HIDE DEF r
  <2>4. Good(pcb)'
    BY <2>1, <2>2, <2>3, ReplaceOne
  <2> QED
    BY <1>3, <2>4 DEF Scalars, Connected, Event
<1>4. ASSUME NEW p \in Pcbs, PeerCloses(p)
      PROVE  (Good(pcb) /\ Scalars)'
  <2> DEFINE m == [pcb EXCEPT ![p].state = "CLOSE_WAIT"]
  <2>1. /\ Typed(m) /\ p \in AllPcbs /\ m[p].state # "LISTEN"
        /\ \A c \in AllPcbs \ {p} : m[c] = pcb[c]
    BY PcbAssumption DEF Good, Typed, PcbType, States, AllPcbs
  <2>2. pcb' = tcpip_raw_close(m, p) /\ UNCHANGED <<tcpip_raw_pcb, retval, fault>>
    BY <1>4 DEF PeerCloses, Event, tcpip_raw_recv_end
  <2> HIDE DEF m
  <2>3. \A c \in AllPcbs \ {p} : Called(m[c])
    BY <2>1 DEF Good
  <2>4. Good(pcb)'
    BY <2>1, <2>2, <2>3, CloseOne
  <2> QED
    BY <2>2, <2>4 DEF Scalars
<1>5. ASSUME NEW p \in Pcbs, Aborted(p) \/ Finished(p)
      PROVE  (Good(pcb) /\ Scalars)'
  <2>1. p \in AllPcbs /\ pcb' = [pcb EXCEPT ![p] = Free]
    BY <1>5 DEF AllPcbs, Aborted, Finished
  <2>2. Good(pcb)'
    BY <2>1, FreeFits, ReplaceOne
  <2> QED
    BY <1>5, <2>2 DEF Scalars, Aborted, Finished, Event
<1> QED
  BY <1>1, <1>2, <1>3, <1>4, <1>5 DEF Stack

(* IInv is an invariant, for every size of lwIP's pools.                   *)
THEOREM Invariance == Spec => []IInv
<1>1. IInv /\ Undefined => IInv'
  BY DEF Undefined, vars, IInv, TypeOK, RecvWhileOpen
<1>2. IInv /\ UNCHANGED vars => IInv'
  BY DEF vars, IInv, TypeOK, RecvWhileOpen
<1>3. IInv /\ [Next]_vars => IInv'
  BY <1>1, <1>2, ServiceInv, StackInv DEF Next
<1> QED
  BY <1>3, InitInv, PTL DEF Spec

(* Every variable keeps its type and connections and listeners keep to     *)
(* their pools.                                                            *)
THEOREM TypeCorrect == Spec => []TypeOK
<1>1. IInv => TypeOK
  BY DEF IInv
<1> QED
  BY <1>1, Invariance, PTL

(* An established connection feeds the receive queue and a closing one     *)
(* does not, however often the application binds, connects and closes.     *)
THEOREM OnlyOpenReceives == Spec => []RecvWhileOpen
<1>1. IInv => RecvWhileOpen
  BY DEF IInv
<1> QED
  BY <1>1, Invariance, PTL
=============================================================================
