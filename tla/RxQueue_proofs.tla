--------------------------- MODULE RxQueue_proofs ---------------------------
(***************************************************************************)
(* For every pool size, counter width and set of pbufs: the invariants of  *)
(* RxQueue, and that RxQueue implements the one-slot mailbox.              *)
(***************************************************************************)
EXTENDS RxQueue, FiniteSetTheorems, TLAPS

USE PoolSizeAssumption, CntModAssumption, NullAssumption

(* The pool is finite and has POOL_SIZE nodes. *)
LEMMA NodesFinite == IsFiniteSet(Nodes) /\ Cardinality(Nodes) = POOL_SIZE
<1>1. /\ IsFiniteSet(Nodes)
      /\ Cardinality(Nodes) = IF 0 > POOL_SIZE - 1 THEN 0 ELSE (POOL_SIZE - 1) - 0 + 1
  BY FS_Interval DEF Nodes
<1>2. QED
  BY <1>1

(* Any set of pool nodes is finite and no larger than the pool. *)
LEMMA NodeSets ==
  ASSUME NEW S, S \subseteq Nodes
  PROVE  /\ IsFiniteSet(S)
         /\ Cardinality(S) \in Nat
         /\ Cardinality(S) <= POOL_SIZE
BY NodesFinite, FS_Subset, FS_CardinalityType

(* The two ways a step changes the acquired nodes: one more, one less. *)
LEMMA AcquireOne ==
  ASSUME TypeOK, NEW n \in FreeNodes, NEW p \in Pbufs, Enqueue(n, p)
  PROVE  /\ AcquiredNodes' = AcquiredNodes \cup {n}
         /\ n \notin AcquiredNodes
         /\ Cardinality(AcquiredNodes') = Cardinality(AcquiredNodes) + 1
<1>1. AcquiredNodes' = AcquiredNodes \cup {n} /\ n \notin AcquiredNodes
  BY DEF TypeOK, Enqueue, AcquiredNodes, FreeNodes, NodeType, MpoolStates
<1>2. IsFiniteSet(AcquiredNodes)
  BY NodeSets DEF AcquiredNodes
<1>3. QED
  BY <1>1, <1>2, FS_AddElement

(* The pool gets a node back. *)
LEMMA ReleaseOne ==
  ASSUME TypeOK, NEW n \in AcquiredNodes, free_tcpip_mpool(n)
  PROVE  /\ AcquiredNodes' = AcquiredNodes \ {n}
         /\ Cardinality(AcquiredNodes') = Cardinality(AcquiredNodes) - 1
<1>1. AcquiredNodes' = AcquiredNodes \ {n}
  BY DEF TypeOK, free_tcpip_mpool, AcquiredNodes, NodeType, MpoolStates
<1>2. IsFiniteSet(AcquiredNodes)
  BY NodeSets DEF AcquiredNodes
<1>3. QED
  BY <1>1, <1>2, FS_RemoveElement

-----------------------------------------------------------------------------
(* Initially the pool is free and nothing is counted. *)
LEMMA InitInv == Init => IInv
<1> SUFFICES ASSUME Init PROVE IInv
  OBVIOUS
<1>1. TypeOK
  BY DEF Init, TypeOK, NodeType, MpoolStates
<1>2. AcquiredNodes = {}
  BY DEF Init, AcquiredNodes
<1>3. CountBoundedByPool
  BY <1>2, FS_EmptySet DEF Init, CountBoundedByPool
<1>4. EmptyQueueHasNode
  <2>1. 0 \in FreeNodes
    BY DEF Init, FreeNodes, Nodes
  <2>2. QED
    BY <2>1 DEF EmptyQueueHasNode
<1>5. NextNeverSet /\ HeadAcquired /\ QueuedIsCounted
  BY DEF Init, NextNeverSet, HeadAcquired, QueuedIsCounted
<1>6. QED
  BY <1>1, <1>3, <1>4, <1>5 DEF IInv

(* A push that gets a node. *)
LEMMA EnqueueInv ==
  ASSUME IInv, NEW n \in FreeNodes, NEW p \in Pbufs, Enqueue(n, p), UNCHANGED ret
  PROVE  IInv'
<1> USE DEF IInv
<1>1. n \in Nodes /\ rx_bufhead' # NULL
  BY DEF FreeNodes, Enqueue
<1>2. /\ AcquiredNodes' = AcquiredNodes \cup {n}
      /\ Cardinality(AcquiredNodes') = Cardinality(AcquiredNodes) + 1
  BY AcquireOne
<1>3. /\ Cardinality(AcquiredNodes) \in Nat
      /\ Cardinality(AcquiredNodes') <= POOL_SIZE
  BY NodeSets DEF AcquiredNodes
<1>4. rx_buf_cnt' = rx_buf_cnt + 1
  BY <1>2, <1>3 DEF Enqueue, CountBoundedByPool, TypeOK
<1>5. TypeOK'
  <2>1. pool' \in [Nodes -> NodeType]
    BY <1>1 DEF TypeOK, Enqueue, NodeType, MpoolStates
  <2>2. rx_buf_cnt' \in 0 .. CNT_MOD - 1
    BY <1>2, <1>3, <1>4 DEF TypeOK, CountBoundedByPool
  <2>3. rx_bufhead' \in Nodes \cup {NULL}
    BY <1>1 DEF TypeOK, Enqueue
  <2>4. QED
    BY <2>1, <2>2, <2>3 DEF TypeOK
<1>6. NextNeverSet'
  BY <1>1 DEF TypeOK, NextNeverSet, Enqueue, NodeType
<1>7. HeadAcquired'
  <2>1. CASE rx_bufhead = NULL
    BY <1>1, <1>2, <2>1 DEF HeadAcquired, Enqueue, TypeOK
  <2>2. CASE rx_bufhead # NULL
    BY <1>1, <1>2, <2>2 DEF HeadAcquired, Enqueue, TypeOK
  <2>3. QED
    BY <2>1, <2>2
<1>8. QueuedIsCounted'
  BY <1>4 DEF QueuedIsCounted, TypeOK
<1>9. CountBoundedByPool'
  BY <1>2, <1>3, <1>4 DEF CountBoundedByPool, TypeOK
<1>10. EmptyQueueHasNode'
  BY <1>1 DEF EmptyQueueHasNode
<1>11. QED
  BY <1>5, <1>6, <1>7, <1>8, <1>9, <1>10

(* A pop that hands out the head; c is the counter before its decrement. *)
LEMMA PopHeadInv ==
  ASSUME IInv, PopHead,
         rx_buf_cnt # 0, rx_buf_cnt' = (rx_buf_cnt + CNT_MOD - 1) % CNT_MOD
  PROVE  IInv'
<1> USE DEF IInv
<1> DEFINE h == rx_bufhead
<1>1. h \in AcquiredNodes /\ h \in Nodes /\ free_tcpip_mpool(h)
  BY DEF PopHead, HeadAcquired, AcquiredNodes
<1>2. /\ AcquiredNodes' = AcquiredNodes \ {h}
      /\ Cardinality(AcquiredNodes') = Cardinality(AcquiredNodes) - 1
  BY <1>1, ReleaseOne
<1>3. rx_buf_cnt' = rx_buf_cnt - 1
  BY DEF TypeOK
<1>4. rx_bufhead' = NULL
  BY <1>1 DEF PopHead, NextNeverSet
<1>5. TypeOK'
  BY <1>1, <1>3, <1>4 DEF TypeOK, PopHead, free_tcpip_mpool, NodeType, MpoolStates
<1>6. NextNeverSet'
  BY <1>1 DEF TypeOK, NextNeverSet, free_tcpip_mpool, NodeType
<1>7. HeadAcquired' /\ QueuedIsCounted'
  BY <1>4 DEF HeadAcquired, QueuedIsCounted
<1>8. CountBoundedByPool'
  <2>1. Cardinality(AcquiredNodes) \in Nat
    BY NodeSets DEF AcquiredNodes
  <2>2. QED
    BY <1>2, <1>3, <2>1 DEF CountBoundedByPool, TypeOK
<1>9. EmptyQueueHasNode'
  <2>1. h \in FreeNodes'
    BY <1>1 DEF free_tcpip_mpool, FreeNodes, TypeOK, NodeType
  <2>2. QED
    BY <2>1 DEF EmptyQueueHasNode
<1>10. QED
  BY <1>5, <1>6, <1>7, <1>8, <1>9

(* A pop that finds the list empty although the counter is not zero. *)
LEMMA PopNothingInv ==
  ASSUME IInv, PopNothing,
         rx_buf_cnt # 0, rx_buf_cnt' = (rx_buf_cnt + CNT_MOD - 1) % CNT_MOD
  PROVE  IInv'
<1> USE DEF IInv
<1>1. rx_buf_cnt' = rx_buf_cnt - 1
  BY DEF TypeOK
<1>2. AcquiredNodes' = AcquiredNodes /\ FreeNodes' = FreeNodes
  BY DEF PopNothing, AcquiredNodes, FreeNodes
<1>3. Cardinality(AcquiredNodes) \in Nat
  BY NodeSets DEF AcquiredNodes
<1>4. QED
  BY <1>1, <1>2, <1>3
     DEF PopNothing, TypeOK, NextNeverSet, HeadAcquired, QueuedIsCounted,
         CountBoundedByPool, EmptyQueueHasNode

(* A step that changes none of the queue, only possibly the result. *)
LEMMA QueueUnchangedInv ==
  ASSUME IInv, UNCHANGED <<pool, rx_bufhead, rx_buf_cnt>>, ret' \in {ret, NULL}
  PROVE  IInv'
<1>1. AcquiredNodes' = AcquiredNodes /\ FreeNodes' = FreeNodes
  BY DEF AcquiredNodes, FreeNodes
<1>2. QED
  BY <1>1 DEF IInv, TypeOK, NextNeverSet, HeadAcquired, QueuedIsCounted,
              CountBoundedByPool, EmptyQueueHasNode

(* IInv is inductive: a step is a push, a pop or a stutter. *)
LEMMA NextInv == IInv /\ [Next]_vars => IInv'
<1> SUFFICES ASSUME IInv, [Next]_vars PROVE IInv'
  OBVIOUS
<1>1. ASSUME NEW p \in Pbufs, push_to_rx_ctrl_blk(p) PROVE IInv'
  <2>1. CASE FreeNodes = {} /\ UNCHANGED <<pool, rx_bufhead, rx_buf_cnt>>
    BY <1>1, <2>1, QueueUnchangedInv DEF push_to_rx_ctrl_blk
  <2>2. CASE \E n \in Nodes : get_new_tcpip_mpool(n) /\ Enqueue(n, p)
    BY <1>1, <2>2, EnqueueInv DEF push_to_rx_ctrl_blk, get_new_tcpip_mpool
  <2>3. QED
    BY <1>1, <2>1, <2>2 DEF push_to_rx_ctrl_blk
<1>2. CASE pop_pbuf_from_rx_ctrl_blk
  <2>1. CASE ret' = NULL /\ UNCHANGED <<pool, rx_bufhead, rx_buf_cnt>>
    BY <2>1, QueueUnchangedInv
  <2>2. CASE /\ rx_buf_cnt # 0
             /\ PopHead \/ PopNothing
             /\ rx_buf_cnt' = (rx_buf_cnt + CNT_MOD - 1) % CNT_MOD
    BY <2>2, PopHeadInv, PopNothingInv
  <2>3. QED
    BY <1>2, <2>1, <2>2 DEF pop_pbuf_from_rx_ctrl_blk
<1>3. CASE UNCHANGED vars
  BY <1>3, QueueUnchangedInv DEF vars
<1>4. QED
  BY <1>1, <1>2, <1>3 DEF Next, Push, Pop

(* IInv is an invariant of the queue. *)
THEOREM Invariance == Spec => []IInv
BY InitInv, NextInv, PTL DEF Spec

(* The variables keep their types: in particular rx_bufhead never leaves   *)
(* the pool, and pop returns pbufs only.                                   *)
THEOREM TypeCorrect == Spec => []TypeOK
<1>1. IInv => TypeOK
  BY DEF IInv
<1>2. QED
  BY <1>1, Invariance, PTL

(* A message in the queue can always be popped. *)
THEOREM MessagesAreCounted == Spec => []QueuedIsCounted
<1>1. IInv => QueuedIsCounted
  BY DEF IInv
<1>2. QED
  BY <1>1, Invariance, PTL

(* The 16-bit counter never wraps, in either direction. *)
THEOREM CounterNeverWraps == Spec => []CountBoundedByPool
<1>1. IInv => CountBoundedByPool
  BY DEF IInv
<1>2. QED
  BY <1>1, Invariance, PTL

(* The receive path is never without a node for the next message. *)
THEOREM NeverStarves == Spec => []EmptyQueueHasNode
<1>1. IInv => EmptyQueueHasNode
  BY DEF IInv
<1>2. QED
  BY <1>1, Invariance, PTL

-----------------------------------------------------------------------------
(* Every step of the queue is a step of the mailbox or leaves it alone. *)
LEMMA MailboxStep == IInv /\ [Next]_vars => [Mailbox!Next]_(Mailbox!mailbox)
<1> SUFFICES ASSUME IInv, [Next]_vars
             PROVE  [Mailbox!Next]_(Mailbox!mailbox)
  OBVIOUS
<1> USE DEF IInv, Mailbox!mailbox, Mailbox!Next
<1>1. ASSUME NEW p \in Pbufs, push_to_rx_ctrl_blk(p)
      PROVE  Mailbox!Deposit(p) \/ UNCHANGED <<Waiting, ret>>
  <2>1. CASE UNCHANGED <<pool, rx_bufhead>>
    BY <1>1, <2>1 DEF push_to_rx_ctrl_blk, Waiting
  <2>2. ASSUME NEW n \in Nodes, get_new_tcpip_mpool(n), Enqueue(n, p)
        PROVE  Mailbox!Deposit(p) \/ UNCHANGED <<Waiting, ret>>
    <3>1. CASE rx_bufhead = NULL
      BY <1>1, <2>2, <3>1
         DEF push_to_rx_ctrl_blk, Enqueue, Waiting, Mailbox!Deposit, TypeOK
    <3>2. CASE rx_bufhead # NULL
      <4>1. n # rx_bufhead
        BY <2>2, <3>2
           DEF get_new_tcpip_mpool, FreeNodes, HeadAcquired, AcquiredNodes
      <4>2. Waiting' = Waiting
        BY <2>2, <3>2, <4>1 DEF Enqueue, Waiting, TypeOK
      <4>3. QED
        BY <1>1, <4>2 DEF push_to_rx_ctrl_blk
    <3>3. QED
      BY <3>1, <3>2
  <2>3. QED
    BY <1>1, <2>1, <2>2 DEF push_to_rx_ctrl_blk
<1>2. ASSUME pop_pbuf_from_rx_ctrl_blk
      PROVE  Mailbox!Take \/ Mailbox!FindEmpty
  <2>1. CASE rx_bufhead = NULL
    BY <1>2, <2>1 DEF pop_pbuf_from_rx_ctrl_blk, PopHead, PopNothing, Waiting, Mailbox!FindEmpty
  <2>2. CASE rx_bufhead # NULL
    <3>1. PopHead
      BY <1>2, <2>2 DEF pop_pbuf_from_rx_ctrl_blk, PopNothing, QueuedIsCounted, TypeOK
    <3>2. rx_bufhead' = NULL
      BY <2>2, <3>1 DEF PopHead, NextNeverSet, TypeOK
    <3>3. Waiting # NULL
      BY <2>2 DEF Waiting, HeadAcquired
    <3>4. QED
      BY <2>2, <3>1, <3>2, <3>3 DEF PopHead, Waiting, Mailbox!Take
  <2>3. QED
    BY <2>1, <2>2
<1>3. CASE UNCHANGED vars
  BY <1>3 DEF vars, Waiting
<1>4. QED
  BY <1>1, <1>2, <1>3 DEF Next, Push, Pop

(* The queue implements the one-slot mailbox: the oldest unread message is *)
(* kept, delivered once, and "no data" is only said when there is none.    *)
THEOREM ImplementsMailbox == Spec => MailboxSpec
<1>1. Init => Mailbox!Init
  BY DEF Init, Mailbox!Init, Waiting
<1>2. QED
  BY <1>1, MailboxStep, Invariance, PTL DEF Spec, MailboxSpec, Mailbox!Spec
=============================================================================
