----------------------------- MODULE RxPreempt -----------------------------
(***************************************************************************)
(* push_to_rx_ctrl_blk and pop_pbuf_from_rx_ctrl_blk one shared access at  *)
(* a time.  TcpIp_MainFunction runs the writer in its own OS task,         *)
(* TcpIp_recv is called by other tasks, and neither function takes a lock  *)
(* or calls sys_arch_protect: a task may be preempted between any two      *)
(* accesses of TcpIp_Rx_CtrlBlk and TcpIp_MemPool.                         *)
(*                                                                         *)
(* rx_buf_cnt++ and rx_buf_cnt-- are a load, an operation on a register    *)
(* and a store.  Accesses happen in program order.  The single writer      *)
(* models lwIP's own rule that its callbacks run in one task.              *)
(***************************************************************************)
EXTENDS Naturals, FiniteSets

CONSTANTS
  POOL_SIZE,   (* TCPIP_MEM_POOL_SIZE                          *)
  CNT_MOD,     (* 2^16 in the code: rx_buf_cnt is a uint16_t   *)
  Pbufs,       (* the pbufs lwIP hands to tcpip_raw_recv       *)
  Readers,     (* the tasks that call TcpIp_recv               *)
  NULL

Nodes == 0 .. POOL_SIZE - 1

ASSUME PoolSizeAssumption == POOL_SIZE \in Nat \ {0}
ASSUME CntModAssumption   == CNT_MOD \in Nat \ {0}
ASSUME NullAssumption     == NULL \notin Pbufs /\ NULL \notin Nodes

VARIABLES
  state,        (* the state field of each node of TcpIp_MemPool        *)
  pbuf,         (* its pbuf field; see next for its next field           *)
  rx_bufhead,
  rx_buf_cnt,
  wpc,          (* where the writer is                                  *)
  wpbuf,        (* its argument                                         *)
  p_last_node,
  i,            (* the loop index of get_new_tcpip_mpool                *)
  p_rxbuf,
  wreg,         (* the register of rx_buf_cnt++                         *)
  rpc,          (* where each reader is                                 *)
  p_head,
  rpbuf,        (* its local pbuf                                       *)
  rreg,         (* the register of rx_buf_cnt--                         *)
  ret           (* what the last pop to complete returned               *)

shared == <<state, pbuf, rx_bufhead, rx_buf_cnt>>
writer == <<wpc, wpbuf, p_last_node, i, p_rxbuf, wreg>>
reader == <<rpc, p_head, rpbuf, rreg, ret>>
vars   == <<state, pbuf, rx_bufhead, rx_buf_cnt,
            wpc, wpbuf, p_last_node, i, p_rxbuf, wreg,
            rpc, p_head, rpbuf, rreg, ret>>

(* No statement of the program assigns the next field of a node, so all    *)
(* have the zero of static storage for ever.                               *)
next == [n \in Nodes |-> NULL]

Init ==
  /\ state = [n \in Nodes |-> "MPOOL_FREE"]
  /\ pbuf = [n \in Nodes |-> NULL]
  /\ rx_bufhead = NULL
  /\ rx_buf_cnt = 0
  /\ wpc = "idle" /\ wpbuf = NULL /\ p_last_node = NULL
  /\ i = 0 /\ p_rxbuf = NULL /\ wreg = 0
  /\ rpc = [r \in Readers |-> "idle"]
  /\ p_head = [r \in Readers |-> NULL]
  /\ rpbuf = [r \in Readers |-> NULL]
  /\ rreg = [r \in Readers |-> 0]
  /\ ret = NULL

-----------------------------------------------------------------------------
(* The writer: push_to_rx_ctrl_blk(p).  Locals end with the call.          *)

ReturnPush ==
  /\ wpc' = "idle"
  /\ wpbuf' = NULL /\ p_last_node' = NULL
  /\ i' = 0 /\ p_rxbuf' = NULL /\ wreg' = 0

CallPush(p) ==
  /\ wpc = "idle"
  /\ wpc' = "scan"
  /\ wpbuf' = p
  /\ p_last_node' = rx_bufhead
  /\ i' = 0
  /\ UNCHANGED <<shared, p_rxbuf, wreg, reader>>

(* get_new_tcpip_mpool: one node per step.  A node that a reader frees     *)
(* behind the index is not seen any more.                                  *)
ScanTaken ==
  /\ wpc = "scan" /\ i < POOL_SIZE
  /\ state[i] # "MPOOL_FREE"
  /\ i' = i + 1
  /\ UNCHANGED <<shared, wpc, wpbuf, p_last_node, p_rxbuf, wreg, reader>>

Acquire ==
  /\ wpc = "scan" /\ i < POOL_SIZE
  /\ state[i] = "MPOOL_FREE"
  /\ state' = [state EXCEPT ![i] = "MPOOL_ACQUIRED"]
  /\ p_rxbuf' = i
  /\ i' = 0
  /\ wpc' = "load"
  /\ UNCHANGED <<pbuf, rx_bufhead, rx_buf_cnt, wpbuf, p_last_node, wreg, reader>>

DropMessage ==
  /\ wpc = "scan" /\ i = POOL_SIZE
  /\ ReturnPush
  /\ UNCHANGED <<shared, reader>>

LoadForIncrement ==
  /\ wpc = "load"
  /\ wreg' = rx_buf_cnt
  /\ wpc' = "store"
  /\ UNCHANGED <<shared, wpbuf, p_last_node, i, p_rxbuf, reader>>

StoreIncrement ==
  /\ wpc = "store"
  /\ rx_buf_cnt' = (wreg + 1) % CNT_MOD
  /\ wpc' = "fill"
  /\ UNCHANGED <<state, pbuf, rx_bufhead, wpbuf, p_last_node, i, p_rxbuf, wreg, reader>>

Fill ==
  /\ wpc = "fill"
  /\ pbuf' = [pbuf EXCEPT ![p_rxbuf] = wpbuf]
  /\ wpc' = "link"
  /\ UNCHANGED <<state, rx_bufhead, rx_buf_cnt, wpbuf, p_last_node, i, p_rxbuf, wreg, reader>>

LinkAlways ==
  /\ wpc = "link"
  /\ rx_bufhead' = p_rxbuf
  /\ ReturnPush
  /\ UNCHANGED <<state, pbuf, rx_buf_cnt, reader>>

LinkAsHead ==
  /\ wpc = "link" /\ p_last_node = NULL
  /\ rx_bufhead' = p_rxbuf
  /\ ReturnPush
  /\ UNCHANGED <<state, pbuf, rx_buf_cnt, reader>>

(* The walk to the end of the list takes one step, next being NULL; then   *)
(* the node is assigned to the local p_last_node and forgotten.            *)
WalkAndForget ==
  /\ wpc = "link" /\ p_last_node # NULL
  /\ next[p_last_node] = NULL
  /\ ReturnPush
  /\ UNCHANGED <<shared, reader>>

Write ==
  \/ \E p \in Pbufs : CallPush(p)
  \/ ScanTaken \/ Acquire \/ DropMessage
  \/ LoadForIncrement \/ StoreIncrement
  \/ Fill
  \/ LinkAsHead \/ WalkAndForget

-----------------------------------------------------------------------------
(* The readers: pop_pbuf_from_rx_ctrl_blk().                               *)

Goto(r, l) == rpc' = [rpc EXCEPT ![r] = l]

ReturnPop(r, p) ==
  /\ ret' = p
  /\ Goto(r, "idle")
  /\ p_head' = [p_head EXCEPT ![r] = NULL]
  /\ rpbuf' = [rpbuf EXCEPT ![r] = NULL]
  /\ rreg' = [rreg EXCEPT ![r] = 0]

FindNone(r) ==
  /\ rpc[r] = "idle" /\ rx_buf_cnt = 0
  /\ ReturnPop(r, NULL)
  /\ UNCHANGED <<shared, writer>>

CheckCount(r) ==
  /\ rpc[r] = "idle" /\ rx_buf_cnt # 0
  /\ rreg' = [rreg EXCEPT ![r] = rx_buf_cnt]
  /\ Goto(r, "head")
  /\ UNCHANGED <<shared, writer, p_head, rpbuf, ret>>

ReadHead(r) ==
  /\ rpc[r] = "head" /\ rx_bufhead # NULL
  /\ p_head' = [p_head EXCEPT ![r] = rx_bufhead]
  /\ Goto(r, "pbuf")
  /\ UNCHANGED <<shared, writer, rpbuf, rreg, ret>>

(* The list is empty.  Nothing obliges the build to load the counter again *)
(* before the decrement: the register of the test may still hold it.       *)
ReadNullHead(r) ==
  /\ rpc[r] = "head" /\ rx_bufhead = NULL
  /\ Goto(r, "load") \/ Goto(r, "store")
  /\ UNCHANGED <<shared, writer, p_head, rpbuf, rreg, ret>>

ReadPbufThenFree(r) ==
  /\ rpc[r] = "pbuf"
  /\ rpbuf' = [rpbuf EXCEPT ![r] = pbuf[p_head[r]]]
  /\ state' = [state EXCEPT ![p_head[r]] = "MPOOL_FREE"]
  /\ Goto(r, "unlink")
  /\ UNCHANGED <<pbuf, rx_bufhead, rx_buf_cnt, writer, p_head, rreg, ret>>

ReadPbuf(r) ==
  /\ rpc[r] = "pbuf"
  /\ rpbuf' = [rpbuf EXCEPT ![r] = pbuf[p_head[r]]]
  /\ Goto(r, "unlink")
  /\ UNCHANGED <<shared, writer, p_head, rreg, ret>>

UnlinkForgotten(r) ==
  /\ rpc[r] = "unlink"
  /\ Goto(r, "free")
  /\ UNCHANGED <<shared, writer, p_head, rpbuf, rreg, ret>>

Unlink(r) ==
  /\ rpc[r] = "unlink"
  /\ rx_bufhead' = next[p_head[r]]
  /\ Goto(r, "free")
  /\ UNCHANGED <<state, pbuf, rx_buf_cnt, writer, p_head, rpbuf, rreg, ret>>

free_tcpip_mpool(r) ==
  /\ rpc[r] = "free"
  /\ state' = [state EXCEPT ![p_head[r]] = "MPOOL_FREE"]
  /\ Goto(r, "load")
  /\ UNCHANGED <<pbuf, rx_bufhead, rx_buf_cnt, writer, p_head, rpbuf, rreg, ret>>

LoadForDecrement(r) ==
  /\ rpc[r] = "load"
  /\ rreg' = [rreg EXCEPT ![r] = rx_buf_cnt]
  /\ Goto(r, "store")
  /\ UNCHANGED <<shared, writer, p_head, rpbuf, ret>>

StoreDecrementReturnsNode(r) ==
  /\ rpc[r] = "store"
  /\ rx_buf_cnt' = (rreg[r] + CNT_MOD - 1) % CNT_MOD
  /\ ReturnPop(r, p_head[r])
  /\ UNCHANGED <<state, pbuf, rx_bufhead, writer>>

StoreDecrement(r) ==
  /\ rpc[r] = "store"
  /\ rx_buf_cnt' = (rreg[r] + CNT_MOD - 1) % CNT_MOD
  /\ ReturnPop(r, rpbuf[r])
  /\ UNCHANGED <<state, pbuf, rx_bufhead, writer>>

Read(r) ==
  \/ FindNone(r) \/ CheckCount(r)
  \/ ReadHead(r) \/ ReadNullHead(r)
  \/ ReadPbuf(r) \/ Unlink(r) \/ free_tcpip_mpool(r)
  \/ LoadForDecrement(r) \/ StoreDecrement(r)

Next == Write \/ \E r \in Readers : Read(r)

Spec == Init /\ [][Next]_vars

(* The readers take turns: when one is in TcpIp_recv, past the test of the *)
(* counter, no other is.  The code leaves that to its callers: "we should  *)
(* not entertain parallel receive call. some lock is needed here"          *)
(* (tcpip_extensions.c:164).                                               *)
OneReads == \A r, s \in Readers : rpc[r] # "idle" /\ rpc[s] # "idle" => r = s

TurnsSpec == Init /\ [][Next /\ OneReads']_vars

-----------------------------------------------------------------------------
WriterLocations == {"idle", "scan", "load", "store", "fill", "link"}

ReaderLocations == {"idle", "head", "pbuf", "unlink", "free", "load", "store"}

(* Types; in particular what a pop returns is a pbuf or NULL, and neither  *)
(* task ever uses a pool index outside the pool.                           *)
TypeOK ==
  /\ state \in [Nodes -> {"MPOOL_FREE", "MPOOL_ACQUIRED"}]
  /\ pbuf \in [Nodes -> Pbufs \cup {NULL}]
  /\ rx_bufhead \in Nodes \cup {NULL}
  /\ rx_buf_cnt \in 0 .. CNT_MOD - 1
  /\ wpc \in WriterLocations
  /\ wpbuf \in Pbufs \cup {NULL}
  /\ p_last_node \in Nodes \cup {NULL}
  /\ i \in 0 .. POOL_SIZE
  /\ p_rxbuf \in Nodes \cup {NULL}
  /\ wreg \in 0 .. CNT_MOD - 1
  /\ rpc \in [Readers -> ReaderLocations]
  /\ p_head \in [Readers -> Nodes \cup {NULL}]
  /\ rpbuf \in [Readers -> Pbufs \cup {NULL}]
  /\ rreg \in [Readers -> 0 .. CNT_MOD - 1]
  /\ ret \in Pbufs \cup {NULL}

(* The nodes a task works on, that nobody else may touch. *)
WriterHolds(n) == wpc \in {"load", "store", "fill", "link"} /\ p_rxbuf = n

ReaderHolds(r, n) == rpc[r] \in {"pbuf", "unlink", "free"} /\ p_head[r] = n

(* Although nothing is locked, a node is in one pair of hands at a time:   *)
(* the node the writer fills is neither in the list nor with a reader, the *)
(* node a reader copies from is still the head, the one it is about to     *)
(* free has left the list, and all of them are acquired.                   *)
HeldByOne ==
  /\ \A n \in Nodes : WriterHolds(n) =>
       /\ state[n] = "MPOOL_ACQUIRED" /\ rx_bufhead # n
       /\ \A r \in Readers : ~ ReaderHolds(r, n)
  /\ \A r \in Readers : \A n \in Nodes : ReaderHolds(r, n) =>
       /\ rx_bufhead = n <=> rpc[r] # "free"
       /\ state[n] = "MPOOL_ACQUIRED"

(* The writer decides from a copy of rx_bufhead taken before everything    *)
(* else (TcpIp.c:59) whether to become the head (TcpIp.c:78).  The copy    *)
(* may be stale by then, but never so that a waiting message is            *)
(* overwritten: the head of a non-empty list only ever becomes NULL.       *)
NoOverwrite == [][rx_bufhead # NULL => rx_bufhead' \in {rx_bufhead, NULL}]_vars

(* What the queue still promises under preemption: the one-slot mailbox of *)
(* RxMailbox, whose reader may be told "no data" too often.  The message   *)
(* leaves the slot when its node is unlinked.                              *)
Waiting == IF rx_bufhead = NULL THEN NULL ELSE pbuf[rx_bufhead]

Taking == {r \in Readers : rpc[r] \in {"free", "load", "store"} /\ rpbuf[r] # NULL}

Returned == IF Taking = {} THEN ret ELSE rpbuf[CHOOSE r \in Taking : TRUE]

Mailbox == INSTANCE RxMailbox WITH slot <- Waiting, ret <- Returned

WeakMailboxSpec == Mailbox!WeakSpec

(* The rest of the inductive invariant behind these properties.  What each *)
(* task knows in its locals, and that an old NULL copy of rx_bufhead is    *)
(* still right, holds whatever the readers do ...                          *)
StaleNullIsRight == wpc # "idle" /\ p_last_node = NULL => rx_bufhead = NULL

WriterLocals ==
  /\ wpc # "idle" => wpbuf \in Pbufs
  /\ wpc \in {"load", "store", "fill", "link"} => p_rxbuf \in Nodes
  /\ wpc = "link" => pbuf[p_rxbuf] = wpbuf

ReaderLocals ==
  \A r \in Readers :
    /\ rpc[r] \in {"pbuf", "unlink", "free"} => p_head[r] \in Nodes
    /\ rpc[r] \in {"idle", "head", "pbuf"} => rpbuf[r] = NULL

LocalInv ==
  /\ TypeOK
  /\ StaleNullIsRight
  /\ WriterLocals
  /\ ReaderLocals

(* ... that what is queued is complete, and what is copied is what was     *)
(* queued, when they take turns.                                           *)
QueuedIsFilled ==
  rx_bufhead # NULL => state[rx_bufhead] = "MPOOL_ACQUIRED" /\ pbuf[rx_bufhead] \in Pbufs

CopyIsRight == \A r \in Readers : rpc[r] = "unlink" => rpbuf[r] = pbuf[p_head[r]]

IInv ==
  /\ LocalInv
  /\ HeldByOne
  /\ QueuedIsFilled
  /\ CopyIsRight

-----------------------------------------------------------------------------
(* When calls do not overlap at all, because the tasks are not preempted   *)
(* or because one lock is held around both functions, the steps of a call  *)
(* amount to the one action that RxQueue has for it.                       *)

AtRest == wpc = "idle" /\ \A r \in Readers : rpc[r] = "idle"

Begin == (\E p \in Pbufs : CallPush(p)) \/ \E r \in Readers : FindNone(r) \/ CheckCount(r)

SerialSpec == Init /\ [][Next /\ (Begin => AtRest)]_vars

(* The queue as it is when the call in progress, if any, is done: a push   *)
(* counts from the moment it has its node, a pop from its test of the      *)
(* counter.                                                                *)
Popping == {r \in Readers : rpc[r] # "idle"}

ToFree(r) ==
  CASE rpc[r] = "head" -> rx_bufhead
    [] rpc[r] \in {"pbuf", "unlink", "free"} -> p_head[r]
    [] OTHER -> NULL

AtomicPool ==
  [n \in Nodes |->
     [next  |-> next[n],
      pbuf  |-> IF WriterHolds(n) THEN wpbuf ELSE pbuf[n],
      state |-> IF \E r \in Popping : ToFree(r) = n THEN "MPOOL_FREE" ELSE state[n]]]

AtomicHead ==
  IF Popping # {} THEN NULL
  ELSE IF wpc \in {"load", "store", "fill", "link"} /\ p_last_node = NULL THEN p_rxbuf
  ELSE rx_bufhead

AtomicCount ==
  IF Popping # {} THEN (rx_buf_cnt + CNT_MOD - 1) % CNT_MOD
  ELSE IF wpc \in {"load", "store"} THEN (rx_buf_cnt + 1) % CNT_MOD
  ELSE rx_buf_cnt

AtomicRet ==
  IF Popping = {} THEN ret
  ELSE LET r == CHOOSE r \in Popping : TRUE
       IN  IF rpc[r] \in {"head", "pbuf"} THEN Waiting ELSE rpbuf[r]

Atomic == INSTANCE RxQueue WITH
            pool <- AtomicPool, rx_bufhead <- AtomicHead,
            rx_buf_cnt <- AtomicCount, ret <- AtomicRet

(* Without overlapping calls the functions are those of RxQueue, as RxPath *)
(* and SocketApi assume of them.                                           *)
AtomicSpec == Atomic!Spec

(* What makes the mapping right: one call at a time, whose copies of the   *)
(* shared variables are fresh, and which has seen no free node so far.     *)
OneCall ==
  /\ \A r \in Readers : rpc[r] # "idle" => wpc = "idle"
  /\ OneReads

CopiesAreFresh ==
  /\ wpc # "idle" => p_last_node = rx_bufhead
  /\ wpc = "store" => wreg = rx_buf_cnt
  /\ \A r \in Readers :
       /\ rpc[r] \in {"head", "store"} => rreg[r] = rx_buf_cnt
       /\ rpc[r] \in {"free", "load", "store"} => rx_bufhead = NULL

ScannedIsTaken == wpc = "scan" => \A n \in Nodes : n < i => state[n] # "MPOOL_FREE"

(* Whoever finds the list empty leaves a free node: a push has not taken   *)
(* it yet, a pop has given it back.                                        *)
EmptyHasNode ==
  /\ rx_bufhead = NULL /\ wpc \in {"idle", "scan"}
  /\ \A r \in Readers : rpc[r] # "free"
  => \E n \in Nodes : state[n] = "MPOOL_FREE"

SerialInv ==
  /\ IInv
  /\ OneCall
  /\ CopiesAreFresh
  /\ ScannedIsTaken
  /\ EmptyHasNode

-----------------------------------------------------------------------------
(* A statement of the code's comments, which preemption refutes.           *)

(* "free the head's memory, alloc'ed in push_to_rx_ctrl_blk"               *)
(* (TcpIp.c:107): with nothing queued and no call in progress the pool has *)
(* a node for the next message.                                            *)
RestingPoolHasNode ==
  AtRest /\ rx_bufhead = NULL => \E n \in Nodes : state[n] = "MPOOL_FREE"
=============================================================================
