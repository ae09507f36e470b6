------------------------------ MODULE RxQueue ------------------------------
(***************************************************************************)
(* The receive queue of src/TcpIp.c (TcpIp_Rx_CtrlBlk, push_to_rx_ctrl_blk *)
(* and pop_pbuf_from_rx_ctrl_blk) on top of the node pool of               *)
(* src/tcpip_mpool.c, with run-to-completion functions: each of them is    *)
(* one action.  RxPreempt.tla takes the same functions apart.              *)
(*                                                                         *)
(* A node is its index in TcpIp_MemPool.  The list is what one reaches     *)
(* from rx_bufhead through the next fields; no statement of the program    *)
(* assigns a next field, so it is always the static zero, NULL.            *)
(***************************************************************************)
EXTENDS Naturals, FiniteSets

CONSTANTS
  POOL_SIZE,   (* TCPIP_MEM_POOL_SIZE, 5 in tcpip_mpool.h   *)
  CNT_MOD,     (* 2^16: rx_buf_cnt is a uint16_t            *)
  Pbufs,       (* the pbufs lwIP hands to tcpip_raw_recv    *)
  NULL

Nodes == 0 .. POOL_SIZE - 1

ASSUME PoolSizeAssumption == POOL_SIZE \in Nat \ {0}
ASSUME CntModAssumption   == CNT_MOD \in Nat /\ POOL_SIZE < CNT_MOD
ASSUME NullAssumption     == NULL \notin Pbufs /\ NULL \notin Nodes

VARIABLES
  pool,         (* TcpIp_MemPool                                      *)
  rx_bufhead,   (* TcpIp_Rx_CtrlBlk.rx_bufhead                        *)
  rx_buf_cnt,   (* TcpIp_Rx_CtrlBlk.rx_buf_cnt                        *)
  ret           (* the pbuf the last pop returned, NULL when none     *)

vars == <<pool, rx_bufhead, rx_buf_cnt, ret>>

MpoolStates == {"MPOOL_FREE", "MPOOL_ACQUIRED", "MPOOL_DATA_FILLED"}

NodeType ==
  [next : Nodes \cup {NULL}, pbuf : Pbufs \cup {NULL}, state : MpoolStates]

Init ==
  /\ pool = [n \in Nodes |-> [next |-> NULL, pbuf |-> NULL, state |-> "MPOOL_FREE"]]
  /\ rx_bufhead = NULL
  /\ rx_buf_cnt = 0
  /\ ret = NULL

FreeNodes == {n \in Nodes : pool[n].state = "MPOOL_FREE"}

AcquiredNodes == {n \in Nodes : pool[n].state = "MPOOL_ACQUIRED"}

(* get_new_tcpip_mpool() scans the pool upwards and returns n; it returns  *)
(* NULL exactly when FreeNodes is empty.                                   *)
get_new_tcpip_mpool(n) ==
  /\ n \in FreeNodes
  /\ \A m \in FreeNodes : n <= m

-----------------------------------------------------------------------------
(* The body of push_to_rx_ctrl_blk once it holds node n.  When the list is *)
(* not empty the loop walks to its end and then assigns the node to a      *)
(* local variable: the node stays acquired and is linked from nowhere.     *)
EnqueueUncounted(n, p) ==
  /\ pool' = [pool EXCEPT ![n].state = "MPOOL_ACQUIRED", ![n].pbuf = p]
  /\ IF rx_bufhead = NULL
     THEN rx_bufhead' = n /\ UNCHANGED rx_buf_cnt
     ELSE rx_buf_cnt' = (rx_buf_cnt + 1) % CNT_MOD /\ UNCHANGED rx_bufhead

EnqueueAsHead(n, p) ==
  /\ pool' = [pool EXCEPT ![n].state = "MPOOL_ACQUIRED", ![n].pbuf = p]
  /\ rx_buf_cnt' = (rx_buf_cnt + 1) % CNT_MOD
  /\ rx_bufhead' = n

Enqueue(n, p) ==
  /\ pool' = [pool EXCEPT ![n].state = "MPOOL_ACQUIRED", ![n].pbuf = p]
  /\ rx_buf_cnt' = (rx_buf_cnt + 1) % CNT_MOD
  /\ rx_bufhead' = IF rx_bufhead = NULL THEN n ELSE rx_bufhead

PushCountedFirst(p) ==
  /\ \/ /\ FreeNodes = {}
        /\ rx_buf_cnt' = (rx_buf_cnt + 1) % CNT_MOD
        /\ UNCHANGED <<pool, rx_bufhead>>
     \/ \E n \in Nodes : get_new_tcpip_mpool(n) /\ Enqueue(n, p)
  /\ UNCHANGED ret

push_to_rx_ctrl_blk(p) ==
  /\ \/ FreeNodes = {} /\ UNCHANGED <<pool, rx_bufhead, rx_buf_cnt>>
     \/ \E n \in Nodes : get_new_tcpip_mpool(n) /\ Enqueue(n, p)
  /\ UNCHANGED ret

-----------------------------------------------------------------------------
free_tcpip_mpool(n) == pool' = [pool EXCEPT ![n].state = "MPOOL_FREE"]

PopNodeNotPbuf ==
  /\ rx_bufhead # NULL
  /\ ret' = rx_bufhead
  /\ rx_bufhead' = pool[rx_bufhead].next
  /\ free_tcpip_mpool(rx_bufhead)

PopWithoutFree ==
  /\ rx_bufhead # NULL
  /\ ret' = pool[rx_bufhead].pbuf
  /\ rx_bufhead' = pool[rx_bufhead].next
  /\ UNCHANGED pool

PopWithoutUnlink ==
  /\ rx_bufhead # NULL
  /\ ret' = pool[rx_bufhead].pbuf
  /\ free_tcpip_mpool(rx_bufhead)
  /\ UNCHANGED rx_bufhead

(* Unlink the head, hand out its pbuf, release the node. *)
PopHead ==
  /\ rx_bufhead # NULL
  /\ ret' = pool[rx_bufhead].pbuf
  /\ rx_bufhead' = pool[rx_bufhead].next
  /\ free_tcpip_mpool(rx_bufhead)

(* The counter says there is a message, the list is empty. *)
PopNothing ==
  /\ rx_bufhead = NULL
  /\ ret' = NULL
  /\ UNCHANGED <<pool, rx_bufhead>>

pop_pbuf_from_rx_ctrl_blk ==
  \/ /\ rx_buf_cnt = 0
     /\ ret' = NULL
     /\ UNCHANGED <<pool, rx_bufhead, rx_buf_cnt>>
  \/ /\ rx_buf_cnt # 0
     /\ PopHead \/ PopNothing
     /\ rx_buf_cnt' = (rx_buf_cnt + CNT_MOD - 1) % CNT_MOD

-----------------------------------------------------------------------------
Push == \E p \in Pbufs : push_to_rx_ctrl_blk(p)

Pop == pop_pbuf_from_rx_ctrl_blk

Next == Push \/ Pop

(* pop_pbuf_from_rx_ctrl_blk is "expected to be called by TcpIp_recv() in  *)
(* a loop" (TcpIp.c:93): the reader keeps asking.  Nothing is assumed of   *)
(* the peer that sends the messages.                                       *)
Fairness == WF_vars(Pop)

Spec == Init /\ [][Next]_vars

FairSpec == Spec /\ Fairness

-----------------------------------------------------------------------------
(* Every variable has the type its declaration gives it; what pop returns  *)
(* is a pbuf or NULL, never a node.                                        *)
TypeOK ==
  /\ pool \in [Nodes -> NodeType]
  /\ rx_bufhead \in Nodes \cup {NULL}
  /\ rx_buf_cnt \in 0 .. CNT_MOD - 1
  /\ ret \in Pbufs \cup {NULL}

(* Nothing ever links two nodes. *)
NextNeverSet == \A n \in Nodes : pool[n].next = NULL

(* The node the reader will free is one the writer acquired and filled. *)
HeadAcquired ==
  rx_bufhead # NULL => /\ rx_bufhead \in AcquiredNodes
                       /\ pool[rx_bufhead].pbuf \in Pbufs

(* A waiting message can be popped: pop looks at the list only when the    *)
(* counter is not zero (TcpIp.c:98), so a message queued while the counter *)
(* is zero would be stuck.                                                 *)
QueuedIsCounted == rx_bufhead # NULL => rx_buf_cnt > 0

(* rx_buf_cnt may count messages that were lost, but never more than there *)
(* are acquired nodes: the 16-bit counter neither wraps up nor down, and   *)
(* the number of empty polls it can still cause is bounded by the pool.    *)
CountBoundedByPool == rx_buf_cnt <= Cardinality(AcquiredNodes)

(* However many nodes were lost, the receive path never dies: when no      *)
(* message waits, the pool has a node for the next one.                    *)
EmptyQueueHasNode == rx_bufhead = NULL => FreeNodes # {}

(* The inductive invariant behind the properties above. *)
IInv ==
  /\ TypeOK
  /\ NextNeverSet
  /\ HeadAcquired
  /\ QueuedIsCounted
  /\ CountBoundedByPool
  /\ EmptyQueueHasNode

(* The queue implements the one-slot mailbox. *)
Waiting == IF rx_bufhead = NULL THEN NULL ELSE pool[rx_bufhead].pbuf

Mailbox == INSTANCE RxMailbox WITH slot <- Waiting

MailboxSpec == Mailbox!Spec

(* A message that waits is eventually returned by TcpIp_recv, whatever the *)
(* writer does in the meantime.                                            *)
WaitingIsDelivered == \A p \in Pbufs : (Waiting = p) ~> (ret = p)
=============================================================================
