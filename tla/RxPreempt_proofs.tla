-------------------------- MODULE RxPreempt_proofs --------------------------
(***************************************************************************)
(* For every pool size, counter width, set of pbufs and set of readers:    *)
(* that no waiting message is overwritten, whatever the interleaving; the  *)
(* ownership of the nodes and the weak one-slot mailbox, when the readers  *)
(* take turns; and RxQueue itself, when calls do not overlap.              *)
(***************************************************************************)
EXTENDS RxPreempt, TLAPS

USE PoolSizeAssumption, CntModAssumption, NullAssumption

(* Initially nothing is queued and nobody is busy. *)
LEMMA InitInv == Init => IInv /\ OneReads
BY DEF Init, IInv, LocalInv, TypeOK, HeldByOne, QueuedIsFilled, StaleNullIsRight,
       WriterLocals, ReaderLocals, CopyIsRight, WriterHolds, ReaderHolds,
       WriterLocations, ReaderLocations, Nodes, OneReads

-----------------------------------------------------------------------------
(* Any number of readers, in any interleaving.                             *)

(* A step of the writer keeps LocalInv. *)
LEMMA WriteLocal == ASSUME LocalInv, Write PROVE LocalInv'
<1> USE DEF LocalInv, shared, reader, TypeOK, StaleNullIsRight, WriterLocals,
            ReaderLocals, WriterLocations
<1>1. ASSUME NEW p \in Pbufs, CallPush(p) PROVE LocalInv'
  BY <1>1 DEF CallPush
<1>2. CASE ScanTaken
  BY <1>2 DEF ScanTaken
<1>3. CASE Acquire
  BY <1>3 DEF Acquire, Nodes
<1>4. CASE DropMessage
  BY <1>4 DEF DropMessage, ReturnPush
<1>5. CASE LoadForIncrement
  BY <1>5 DEF LoadForIncrement
<1>6. CASE StoreIncrement
  BY <1>6 DEF StoreIncrement
<1>7. CASE Fill
  BY <1>7 DEF Fill
<1>8. CASE LinkAsHead
  BY <1>8 DEF LinkAsHead, ReturnPush
<1>9. CASE WalkAndForget
  BY <1>9 DEF WalkAndForget, ReturnPush
<1>10. QED
  BY <1>1, <1>2, <1>3, <1>4, <1>5, <1>6, <1>7, <1>8, <1>9 DEF Write

(* So does a step of a reader, whatever the others are doing. *)
LEMMA ReadLocal == ASSUME LocalInv, NEW r \in Readers, Read(r) PROVE LocalInv'
<1> USE DEF LocalInv, shared, writer, TypeOK, StaleNullIsRight, WriterLocals,
            ReaderLocals, ReaderLocations, Goto
<1>1. CASE FindNone(r)
  BY <1>1 DEF FindNone, ReturnPop
<1>2. CASE CheckCount(r)
  BY <1>2 DEF CheckCount
<1>3. CASE ReadHead(r)
  BY <1>3 DEF ReadHead
<1>4. CASE ReadNullHead(r)
  BY <1>4 DEF ReadNullHead
<1>5. CASE ReadPbuf(r)
  BY <1>5 DEF ReadPbuf
<1>6. CASE Unlink(r)
  BY <1>6 DEF Unlink, next
<1>7. CASE free_tcpip_mpool(r)
  BY <1>7 DEF free_tcpip_mpool
<1>8. CASE LoadForDecrement(r)
  BY <1>8 DEF LoadForDecrement
<1>9. CASE StoreDecrement(r)
  BY <1>9 DEF StoreDecrement, ReturnPop
<1>10. QED
  BY <1>1, <1>2, <1>3, <1>4, <1>5, <1>6, <1>7, <1>8, <1>9 DEF Read

(* LocalInv is an invariant of the functions under any preemption. *)
THEOREM Invariance == Spec => []LocalInv
<1>1. Init => LocalInv
  BY InitInv DEF IInv
<1>2. LocalInv /\ [Next]_vars => LocalInv'
  <2> SUFFICES ASSUME LocalInv, [Next]_vars PROVE LocalInv'
    OBVIOUS
  <2>1. CASE UNCHANGED vars
    BY <2>1 DEF vars, LocalInv, TypeOK, StaleNullIsRight, WriterLocals, ReaderLocals
  <2>2. QED
    BY <2>1, WriteLocal, ReadLocal DEF Next
<1>3. QED
  BY <1>1, <1>2, PTL DEF Spec

(* No task leaves the pool, and TcpIp_recv gets pbufs only, however many   *)
(* tasks are in TcpIp_recv at once.                                        *)
THEOREM TypeCorrect == Spec => []TypeOK
<1>1. LocalInv => TypeOK
  BY DEF LocalInv
<1>2. QED
  BY <1>1, Invariance, PTL

(* A waiting message is never overwritten by a later one, however many    *)
(* tasks are in TcpIp_recv at once.                                        *)
THEOREM NeverOverwrites == Spec => NoOverwrite
<1>1. LocalInv /\ [Next]_vars => [rx_bufhead # NULL => rx_bufhead' \in {rx_bufhead, NULL}]_vars
  <2> SUFFICES ASSUME LocalInv, Next, rx_bufhead # NULL
               PROVE  rx_bufhead' \in {rx_bufhead, NULL}
    BY DEF LocalInv
  <2>1. CASE LinkAsHead
    BY <2>1 DEF LinkAsHead, LocalInv, StaleNullIsRight
  <2>2. CASE Write /\ ~LinkAsHead
    BY <2>2 DEF Write, CallPush, ScanTaken, Acquire, DropMessage, LoadForIncrement,
                StoreIncrement, Fill, WalkAndForget, shared
  <2>3. ASSUME NEW r \in Readers, Unlink(r) PROVE rx_bufhead' = NULL
    BY <2>3 DEF Unlink, next, LocalInv, ReaderLocals
  <2>4. ASSUME NEW r \in Readers, Read(r), ~Unlink(r) PROVE rx_bufhead' = rx_bufhead
    BY <2>4 DEF Read, FindNone, CheckCount, ReadHead, ReadNullHead, ReadPbuf,
                free_tcpip_mpool, LoadForDecrement, StoreDecrement, shared
  <2>5. QED
    BY <2>1, <2>2, <2>3, <2>4 DEF Next
<1>2. QED
  BY <1>1, Invariance, PTL DEF Spec, NoOverwrite

-----------------------------------------------------------------------------
(* Readers that take turns.                                                *)

(* A step of the writer keeps the invariant. *)
LEMMA WriteInv == ASSUME IInv, Write PROVE IInv'
<1>1. LocalInv'
  BY WriteLocal DEF IInv
<1> USE DEF IInv, LocalInv, shared, reader, TypeOK, HeldByOne, QueuedIsFilled, CopyIsRight,
            StaleNullIsRight, WriterLocals, ReaderLocals, WriterHolds,
            ReaderHolds, WriterLocations
<1>2. ASSUME NEW p \in Pbufs, CallPush(p) PROVE IInv'
  BY <1>1, <1>2 DEF CallPush
<1>3. CASE ScanTaken
  BY <1>1, <1>3 DEF ScanTaken
<1>4. CASE Acquire
  BY <1>1, <1>4 DEF Acquire, Nodes
<1>5. CASE DropMessage
  BY <1>1, <1>5 DEF DropMessage, ReturnPush
<1>6. CASE LoadForIncrement
  BY <1>1, <1>6 DEF LoadForIncrement
<1>7. CASE StoreIncrement
  BY <1>1, <1>7 DEF StoreIncrement
<1>8. CASE Fill
  BY <1>1, <1>8 DEF Fill
<1>9. CASE LinkAsHead
  BY <1>1, <1>9 DEF LinkAsHead, ReturnPush
<1>10. CASE WalkAndForget
  BY <1>1, <1>10 DEF WalkAndForget, ReturnPush
<1>11. QED
  BY <1>2, <1>3, <1>4, <1>5, <1>6, <1>7, <1>8, <1>9, <1>10 DEF Write

(* A step of the reader whose turn it is keeps the invariant. *)
LEMMA ReadInv ==
  ASSUME IInv, NEW r \in Readers, Read(r), OneReads' PROVE IInv'
<1>1. LocalInv'
  BY ReadLocal DEF IInv
<1> USE DEF OneReads, IInv, LocalInv, shared, writer, TypeOK, HeldByOne, QueuedIsFilled,
            CopyIsRight, StaleNullIsRight, WriterLocals, ReaderLocals, WriterHolds,
            ReaderHolds, ReaderLocations, Goto
<1>2. CASE FindNone(r)
  BY <1>1, <1>2 DEF FindNone, ReturnPop
<1>3. CASE CheckCount(r)
  BY <1>1, <1>3 DEF CheckCount
<1>4. CASE ReadHead(r)
  BY <1>1, <1>4 DEF ReadHead
<1>5. CASE ReadNullHead(r)
  BY <1>1, <1>5 DEF ReadNullHead
<1>6. CASE ReadPbuf(r)
  BY <1>1, <1>6 DEF ReadPbuf
<1>7. CASE Unlink(r)
  BY <1>1, <1>7 DEF Unlink, next
<1>8. CASE free_tcpip_mpool(r)
  BY <1>1, <1>8 DEF free_tcpip_mpool
<1>9. CASE LoadForDecrement(r)
  BY <1>1, <1>9 DEF LoadForDecrement
<1>10. CASE StoreDecrement(r)
  BY <1>1, <1>10 DEF StoreDecrement, ReturnPop
<1>11. QED
  BY <1>2, <1>3, <1>4, <1>5, <1>6, <1>7, <1>8, <1>9, <1>10 DEF Read

(* A step that changes nothing changes no part of the invariant. *)
LEMMA StutterInv == ASSUME IInv, OneReads, UNCHANGED vars PROVE IInv' /\ OneReads'
BY DEF vars, IInv, LocalInv, TypeOK, HeldByOne, QueuedIsFilled, CopyIsRight,
       StaleNullIsRight, WriterLocals, ReaderLocals, WriterHolds, ReaderHolds, OneReads

(* IInv is an invariant as long as one task at a time reads. *)
THEOREM TurnsInvariance == TurnsSpec => [](IInv /\ OneReads)
<1>1. IInv /\ OneReads /\ [Next /\ OneReads']_vars => (IInv /\ OneReads)'
  BY WriteInv, ReadInv, StutterInv DEF Next
<1>2. QED
  BY InitInv, <1>1, PTL DEF TurnsSpec

(* Without any lock between the writer and the reader whose turn it is, a  *)
(* node is in one pair of hands at a time: nothing is freed twice, filled  *)
(* while it is queued or read after it is freed.                           *)
THEOREM NodesAreExclusive == TurnsSpec => []HeldByOne
<1>1. IInv => HeldByOne
  BY DEF IInv
<1>2. QED
  BY <1>1, TurnsInvariance, PTL

(* While one reader is busy, Returned is about that reader: the message it *)
(* has taken but not yet returned, else what was returned last.            *)
Alone(r) == \A s \in Readers : rpc[s] # "idle" => s = r

TakingNow(r) == rpc[r] \in {"free", "load", "store"} /\ rpbuf[r] # NULL

(* Only the reader that is busy can be Taking. *)
LEMMA ReturnedByOne ==
  ASSUME NEW r \in Readers, Alone(r)
  PROVE  Returned = IF TakingNow(r) THEN rpbuf[r] ELSE ret
<1>1. CASE TakingNow(r)
  <2>1. Taking = {r}
    BY <1>1 DEF Taking, TakingNow, Alone
  <2>2. (CHOOSE s \in Taking : TRUE) = r
    BY <2>1
  <2>3. QED
    BY <1>1, <2>1, <2>2 DEF Returned
<1>2. CASE ~TakingNow(r)
  <2>1. Taking = {}
    BY <1>2 DEF Taking, TakingNow, Alone
  <2>2. QED
    BY <1>2, <2>1 DEF Returned
<1>3. QED
  BY <1>1, <1>2

(* The same after a step. *)
LEMMA ReturnedByOneNext ==
  ASSUME NEW r \in Readers, Alone(r)'
  PROVE  Returned' = IF TakingNow(r)' THEN rpbuf'[r] ELSE ret'
<1>1. CASE TakingNow(r)'
  <2>1. Taking' = {r}
    BY <1>1 DEF Taking, TakingNow, Alone
  <2>2. (CHOOSE s \in Taking' : TRUE) = r
    BY <2>1
  <2>3. QED
    BY <1>1, <2>1, <2>2 DEF Returned
<1>2. CASE ~TakingNow(r)'
  <2>1. Taking' = {}
    BY <1>2 DEF Taking, TakingNow, Alone
  <2>2. QED
    BY <1>2, <2>1 DEF Returned
<1>3. QED
  BY <1>1, <1>2

(* A reader that finds the counter zero disturbs nobody: "no data". *)
LEMMA FindNoneMailbox ==
  ASSUME IInv, NEW r \in Readers, FindNone(r)
  PROVE  Mailbox!MissMessage \/ UNCHANGED <<Waiting, Returned>>
<1>1. Waiting' = Waiting
  BY DEF FindNone, shared, Waiting
<1>2. /\ \A s \in Readers : rpc'[s] = rpc[s] /\ (s # r => rpbuf'[s] = rpbuf[s])
      /\ rpc[r] = "idle" /\ ret' = NULL
  BY DEF FindNone, ReturnPop, Goto, IInv, LocalInv, TypeOK
<1>3. r \notin Taking
  BY <1>2 DEF Taking
<1>4. Taking' = Taking
  BY <1>2 DEF Taking
<1>5. CASE Taking = {}
  BY <1>1, <1>2, <1>4, <1>5 DEF Returned, Mailbox!MissMessage
<1>6. CASE Taking # {}
  <2> DEFINE t == CHOOSE s \in Taking : TRUE
  <2>1. t \in Taking /\ t # r
    BY <1>3, <1>6
  <2>2. rpbuf'[t] = rpbuf[t]
    BY <1>2, <2>1 DEF Taking
  <2>3. QED
    BY <1>1, <1>4, <1>6, <2>2 DEF Returned
<1>7. QED
  BY <1>5, <1>6

(* The writer deposits its message when it becomes the head. *)
LEMMA WriteMailbox ==
  ASSUME IInv, Write
  PROVE  (\E p \in Pbufs : Mailbox!Deposit(p)) \/ UNCHANGED <<Waiting, Returned>>
<1>1. Returned' = Returned
  <2>1. UNCHANGED reader
    BY DEF Write, CallPush, ScanTaken, Acquire, DropMessage, LoadForIncrement,
           StoreIncrement, Fill, LinkAsHead, WalkAndForget, reader
  <2>2. QED
    BY <2>1 DEF reader, Returned, Taking
<1>2. CASE LinkAsHead
  <2>1. rx_bufhead = NULL /\ rx_bufhead' \in Nodes /\ pbuf'[rx_bufhead'] = wpbuf
    BY <1>2 DEF LinkAsHead, IInv, LocalInv, StaleNullIsRight, WriterLocals
  <2>2. wpbuf \in Pbufs
    BY <1>2 DEF LinkAsHead, IInv, LocalInv, WriterLocals
  <2>3. Mailbox!Deposit(wpbuf)
    BY <1>1, <2>1 DEF Mailbox!Deposit, Waiting
  <2>4. QED
    BY <2>2, <2>3
<1>3. CASE Fill
  BY <1>1, <1>3 DEF Fill, Waiting, IInv, LocalInv, HeldByOne, WriterHolds, WriterLocals, TypeOK
<1>4. CASE Write /\ ~LinkAsHead /\ ~Fill
  BY <1>1, <1>4 DEF Write, CallPush, ScanTaken, Acquire, DropMessage, LoadForIncrement,
                    StoreIncrement, WalkAndForget, shared, Waiting
<1>5. QED
  BY <1>2, <1>3, <1>4

(* The reader takes the message when it unlinks the node, and says "no     *)
(* data" when it returns without one.                                      *)
LEMMA ReadMailbox ==
  ASSUME IInv, OneReads, NEW r \in Readers, Read(r), OneReads'
  PROVE  Mailbox!Take \/ Mailbox!MissMessage \/ UNCHANGED <<Waiting, Returned>>
<1>1. CASE FindNone(r)
  BY <1>1, FindNoneMailbox
<1>2. CASE ~FindNone(r)
  <2>1. Alone(r) /\ Alone(r)'
    BY <1>2 DEF Read, CheckCount, ReadHead, ReadNullHead, ReadPbuf, Unlink, free_tcpip_mpool,
                LoadForDecrement, StoreDecrement, ReturnPop, Goto, OneReads, Alone,
                IInv, LocalInv, TypeOK
  <2> USE <2>1, ReturnedByOne, ReturnedByOneNext DEF TakingNow
  <2>2. CASE Unlink(r)
    <3>1. /\ p_head[r] \in Nodes /\ rx_bufhead = p_head[r]
          /\ rpbuf[r] = pbuf[p_head[r]] /\ rpbuf[r] \in Pbufs
      BY <2>2 DEF Unlink, IInv, LocalInv, HeldByOne, ReaderHolds, ReaderLocals,
                  QueuedIsFilled, CopyIsRight
    <3>2. Waiting = rpbuf[r] /\ Waiting # NULL
      BY <3>1 DEF Waiting
    <3>3. Waiting' = NULL
      BY <2>2, <3>1 DEF Unlink, next, Waiting
    <3>4. Returned' = rpbuf[r]
      BY <2>2, <3>1 DEF Unlink, Goto, IInv, LocalInv, TypeOK
    <3>5. QED
      BY <3>2, <3>3, <3>4 DEF Mailbox!Take
  <2>3. CASE StoreDecrement(r)
    BY <2>3 DEF StoreDecrement, ReturnPop, Goto, Waiting, IInv, LocalInv, TypeOK,
                Mailbox!MissMessage
  <2>4. CASE CheckCount(r) \/ ReadHead(r) \/ ReadNullHead(r) \/ ReadPbuf(r)
    BY <2>4 DEF CheckCount, ReadHead, ReadNullHead, ReadPbuf, Goto, shared, Waiting,
                IInv, LocalInv, TypeOK, ReaderLocals
  <2>5. CASE free_tcpip_mpool(r) \/ LoadForDecrement(r)
    BY <2>5 DEF free_tcpip_mpool, LoadForDecrement, Goto, shared, Waiting,
                IInv, LocalInv, TypeOK
  <2>6. QED
    BY <1>2, <2>2, <2>3, <2>4, <2>5 DEF Read
<1>3. QED
  BY <1>1, <1>2

(* Under preemption the queue is still a one-slot mailbox that delivers    *)
(* each kept message once and unchanged; only "no data" is not reliable.   *)
THEOREM ImplementsWeakMailbox == TurnsSpec => WeakMailboxSpec
<1>1. Init => Mailbox!Init
  BY DEF Init, Mailbox!Init, Waiting, Returned, Taking
<1>2. IInv /\ OneReads /\ [Next /\ OneReads']_vars => [Mailbox!WeakNext]_(Mailbox!mailbox)
  <2> SUFFICES ASSUME IInv, OneReads, [Next /\ OneReads']_vars
               PROVE  [Mailbox!WeakNext]_(Mailbox!mailbox)
    OBVIOUS
  <2> USE DEF Mailbox!WeakNext, Mailbox!Next, Mailbox!mailbox
  <2>1. CASE Write
    BY <2>1, WriteMailbox
  <2>2. ASSUME NEW r \in Readers, Read(r), OneReads'
        PROVE  [Mailbox!WeakNext]_(Mailbox!mailbox)
    BY <2>2, ReadMailbox
  <2>3. CASE UNCHANGED vars
    BY <2>3 DEF vars, Waiting, Returned, Taking
  <2>4. QED
    BY <2>1, <2>2, <2>3 DEF Next
<1>3. QED
  BY <1>1, <1>2, TurnsInvariance, PTL DEF TurnsSpec, WeakMailboxSpec, Mailbox!WeakSpec
-----------------------------------------------------------------------------
(* Calls that do not overlap.                                              *)

SerialNext == Next /\ (Begin => AtRest)

(* While the writer steps no reader is busy, and while a reader steps, no  *)
(* other task is.                                                          *)
Resting == \A r \in Readers : rpc[r] = "idle"

(* While the writer steps, no reader is in a call.                         *)
LEMMA WriterIsAlone ==
  ASSUME OneCall, Write, Begin => AtRest
  PROVE  Resting /\ Resting'
<1>1. CASE \E p \in Pbufs : CallPush(p)
  BY <1>1 DEF Begin, AtRest, Resting, CallPush, reader
<1>2. CASE Write /\ ~\E p \in Pbufs : CallPush(p)
  <2>1. wpc # "idle"
    BY <1>2 DEF Write, ScanTaken, Acquire, DropMessage, LoadForIncrement, StoreIncrement,
                Fill, LinkAsHead, WalkAndForget
  <2>2. UNCHANGED rpc
    BY <1>2 DEF Write, ScanTaken, Acquire, DropMessage, LoadForIncrement, StoreIncrement,
                Fill, LinkAsHead, WalkAndForget, reader
  <2>3. QED
    BY <2>1, <2>2 DEF OneCall, Resting
<1>3. QED
  BY <1>1, <1>2

(* While a reader steps, neither the writer nor another reader is.         *)
LEMMA ReaderIsAlone ==
  ASSUME OneCall, TypeOK, NEW r \in Readers, Read(r), Begin => AtRest
  PROVE  /\ wpc = "idle" /\ wpc' = "idle"
         /\ Alone(r) /\ Alone(r)'
<1>1. wpc' = wpc /\ \A s \in Readers : s # r => rpc'[s] = rpc[s]
  BY DEF Read, FindNone, CheckCount, ReadHead, ReadNullHead, ReadPbuf, Unlink,
         free_tcpip_mpool, LoadForDecrement, StoreDecrement, ReturnPop, Goto, writer, TypeOK
<1>2. CASE FindNone(r) \/ CheckCount(r)
  BY <1>1, <1>2 DEF Begin, AtRest, Alone
<1>3. CASE ~(FindNone(r) \/ CheckCount(r))
  <2>1. rpc[r] # "idle"
    BY <1>3 DEF Read, ReadHead, ReadNullHead, ReadPbuf, Unlink, free_tcpip_mpool,
                LoadForDecrement, StoreDecrement
  <2>2. QED
    BY <1>1, <2>1 DEF OneCall, OneReads, Alone
<1>4. QED
  BY <1>2, <1>3

(* A step of the writer keeps the serial invariant. *)
LEMMA SerialWriteInv ==
  ASSUME SerialInv, Write, Begin => AtRest PROVE SerialInv'
<1>1. IInv' /\ Resting /\ Resting'
  BY WriteInv, WriterIsAlone DEF SerialInv
<1>2. OneCall'
  BY <1>1 DEF Resting, OneCall, OneReads
<1>3. (CopiesAreFresh /\ ScannedIsTaken /\ EmptyHasNode)'
  <2> USE DEF SerialInv, CopiesAreFresh, ScannedIsTaken, EmptyHasNode, Resting, shared, reader,
              IInv, LocalInv, TypeOK, Nodes
  <2>1. ASSUME NEW p \in Pbufs, CallPush(p) PROVE (CopiesAreFresh /\ ScannedIsTaken /\ EmptyHasNode)'
    BY <1>1, <2>1 DEF CallPush
  <2>2. CASE ScanTaken
    BY <1>1, <2>2 DEF ScanTaken
  <2>3. CASE Acquire
    BY <1>1, <2>3 DEF Acquire
  <2>4. CASE DropMessage
    BY <1>1, <2>4 DEF DropMessage, ReturnPush
  <2>5. CASE LoadForIncrement
    BY <1>1, <2>5 DEF LoadForIncrement
  <2>6. CASE StoreIncrement
    BY <1>1, <2>6 DEF StoreIncrement
  <2>7. CASE Fill
    BY <1>1, <2>7 DEF Fill
  <2>8. CASE LinkAsHead
    BY <1>1, <2>8 DEF LinkAsHead, ReturnPush, WriterLocals
  <2>9. CASE WalkAndForget
    BY <1>1, <2>9 DEF WalkAndForget, ReturnPush
  <2>10. QED
    BY <2>1, <2>2, <2>3, <2>4, <2>5, <2>6, <2>7, <2>8, <2>9 DEF Write
<1>4. QED
  BY <1>1, <1>2, <1>3 DEF SerialInv

(* So does a step of a reader. *)
LEMMA SerialReadInv ==
  ASSUME SerialInv, NEW r \in Readers, Read(r), Begin => AtRest PROVE SerialInv'
<1>1. wpc = "idle" /\ wpc' = "idle" /\ Alone(r) /\ Alone(r)'
  BY ReaderIsAlone DEF SerialInv, IInv, LocalInv
<1>2. OneCall'
  BY <1>1 DEF Alone, OneCall, OneReads
<1>3. IInv'
  BY <1>2, ReadInv DEF SerialInv, OneCall
<1>4. (CopiesAreFresh /\ ScannedIsTaken /\ EmptyHasNode)'
  <2> USE DEF SerialInv, CopiesAreFresh, ScannedIsTaken, EmptyHasNode, Alone, shared, writer,
              IInv, LocalInv, TypeOK, Goto
  <2>1. CASE FindNone(r)
    BY <1>1, <2>1 DEF FindNone, ReturnPop
  <2>2. CASE CheckCount(r)
    BY <1>1, <2>2 DEF CheckCount
  <2>3. CASE ReadHead(r)
    BY <1>1, <2>3 DEF ReadHead
  <2>4. CASE ReadNullHead(r)
    BY <1>1, <2>4 DEF ReadNullHead
  <2>5. CASE ReadPbuf(r)
    BY <1>1, <2>5 DEF ReadPbuf
  <2>6. CASE Unlink(r)
    BY <1>1, <2>6 DEF Unlink, next, ReaderLocals
  <2>7. CASE free_tcpip_mpool(r)
    BY <1>1, <2>7 DEF free_tcpip_mpool, ReaderLocals
  <2>8. CASE LoadForDecrement(r)
    BY <1>1, <2>8 DEF LoadForDecrement
  <2>9. CASE StoreDecrement(r)
    BY <1>1, <2>9 DEF StoreDecrement, ReturnPop
  <2>10. QED
    BY <2>1, <2>2, <2>3, <2>4, <2>5, <2>6, <2>7, <2>8, <2>9 DEF Read
<1>5. QED
  BY <1>1, <1>2, <1>3, <1>4 DEF SerialInv

(* The serial invariant is inductive. *)
THEOREM SerialInvariance == SerialSpec => []SerialInv
<1>1. Init => SerialInv
  <2> SUFFICES ASSUME Init PROVE SerialInv
    OBVIOUS
  <2>1. 0 \in Nodes /\ state[0] = "MPOOL_FREE"
    BY DEF Init, Nodes
  <2>2. QED
    BY <2>1, InitInv DEF Init, SerialInv, OneCall, CopiesAreFresh, ScannedIsTaken, EmptyHasNode
<1>2. SerialInv /\ [SerialNext]_vars => SerialInv'
  <2> SUFFICES ASSUME SerialInv, [SerialNext]_vars PROVE SerialInv'
    OBVIOUS
  <2>1. CASE UNCHANGED vars
    BY <2>1, StutterInv DEF vars, SerialInv, OneCall, OneReads, CopiesAreFresh,
                            ScannedIsTaken, EmptyHasNode
  <2>2. QED
    BY <2>1, SerialWriteInv, SerialReadInv DEF SerialNext, Next
<1>3. QED
  BY <1>1, <1>2, PTL DEF SerialSpec, SerialNext

(* Unlike under preemption, a pool at rest with nothing queued always has  *)
(* a node for the next message, which the comment of TcpIp.c:107 implies.  *)
THEOREM SerialPoolHasNode == SerialSpec => []RestingPoolHasNode
<1>1. SerialInv => RestingPoolHasNode
  BY DEF SerialInv, EmptyHasNode, RestingPoolHasNode, AtRest
<1>2. QED
  BY <1>1, SerialInvariance, PTL
-----------------------------------------------------------------------------
(* The mapping to RxQueue, while one reader is busy and while none is.     *)
Busy(r) == rpc[r] # "idle" /\ Alone(r) /\ wpc = "idle"

PopPool(r) ==
  [n \in Nodes |-> [next  |-> NULL, pbuf  |-> pbuf[n],
                    state |-> IF ToFree(r) = n THEN "MPOOL_FREE" ELSE state[n]]]

PopRet(r) == IF rpc[r] \in {"head", "pbuf"} THEN Waiting ELSE rpbuf[r]

PushPool ==
  [n \in Nodes |-> [next  |-> NULL, pbuf |-> IF WriterHolds(n) THEN wpbuf ELSE pbuf[n],
                    state |-> state[n]]]

PushHead ==
  IF wpc \in {"load", "store", "fill", "link"} /\ p_last_node = NULL THEN p_rxbuf ELSE rx_bufhead

PushCount == IF wpc \in {"load", "store"} THEN (rx_buf_cnt + 1) % CNT_MOD ELSE rx_buf_cnt

(* The mapped queue while r is in a call ...                               *)
LEMMA WhilePopping ==
  ASSUME NEW r \in Readers, Busy(r)
  PROVE  /\ AtomicPool = PopPool(r) /\ AtomicHead = NULL
         /\ AtomicCount = (rx_buf_cnt + CNT_MOD - 1) % CNT_MOD
         /\ AtomicRet = PopRet(r)
<1>1. Popping = {r}
  BY DEF Popping, Busy, Alone
<1>2. (CHOOSE s \in Popping : TRUE) = r
  BY <1>1
<1>3. AtomicPool = PopPool(r)
  BY <1>1 DEF AtomicPool, PopPool, WriterHolds, Busy, next
<1>4. AtomicRet = PopRet(r)
  BY <1>1, <1>2 DEF AtomicRet, PopRet
<1>5. QED
  BY <1>1, <1>3, <1>4 DEF AtomicHead, AtomicCount

(* ... after a step ...                                                    *)
LEMMA WhilePoppingNext ==
  ASSUME NEW r \in Readers, Busy(r)'
  PROVE  /\ AtomicPool' = PopPool(r)' /\ AtomicHead' = NULL
         /\ AtomicCount' = (rx_buf_cnt' + CNT_MOD - 1) % CNT_MOD
         /\ AtomicRet' = PopRet(r)'
<1>1. Popping' = {r}
  BY DEF Popping, Busy, Alone
<1>2. (CHOOSE s \in Popping' : TRUE) = r
  BY <1>1
<1>3. AtomicPool' = PopPool(r)'
  BY <1>1 DEF AtomicPool, PopPool, WriterHolds, Busy, next
<1>4. AtomicRet' = PopRet(r)'
  BY <1>1, <1>2 DEF AtomicRet, PopRet
<1>5. QED
  BY <1>1, <1>3, <1>4 DEF AtomicHead, AtomicCount

(* ... while no reader is in a call ...                                    *)
LEMMA WhileResting ==
  ASSUME Resting
  PROVE  /\ AtomicPool = PushPool /\ AtomicHead = PushHead
         /\ AtomicCount = PushCount /\ AtomicRet = ret
<1>1. Popping = {}
  BY DEF Popping, Resting
<1>2. QED
  BY <1>1 DEF AtomicPool, PushPool, AtomicHead, PushHead, AtomicCount, PushCount, AtomicRet, next

(* ... and after a step.                                                   *)
LEMMA WhileRestingNext ==
  ASSUME Resting'
  PROVE  /\ AtomicPool' = PushPool' /\ AtomicHead' = PushHead'
         /\ AtomicCount' = PushCount' /\ AtomicRet' = ret'
<1>1. Popping' = {}
  BY DEF Popping, Resting
<1>2. QED
  BY <1>1 DEF AtomicPool, PushPool, AtomicHead, PushHead, AtomicCount, PushCount, AtomicRet, next

-----------------------------------------------------------------------------
(* The writer's steps: taking the node is the push, the rest is invisible. *)

PushVars == <<PushPool, PushHead, PushCount, ret>>

(* With its node marked the message counts as pushed.                      *)
LEMMA AcquireIsPush ==
  ASSUME SerialInv, Resting, Resting', Acquire
  PROVE  Atomic!push_to_rx_ctrl_blk(wpbuf)
<1> USE DEF SerialInv, IInv, LocalInv, TypeOK, Nodes
<1>1. /\ i \in Nodes /\ state[i] = "MPOOL_FREE" /\ wpc = "scan" /\ wpc' = "load"
      /\ p_rxbuf' = i /\ wpbuf' = wpbuf /\ p_last_node' = p_last_node
      /\ pbuf' = pbuf /\ rx_bufhead' = rx_bufhead /\ rx_buf_cnt' = rx_buf_cnt
      /\ state' = [state EXCEPT ![i] = "MPOOL_ACQUIRED"] /\ ret' = ret
  BY DEF Acquire, reader
<1>2. AtomicPool = [n \in Nodes |-> [next |-> NULL, pbuf |-> pbuf[n], state |-> state[n]]]
  BY <1>1, WhileResting DEF PushPool, WriterHolds
<1>3. AtomicPool' = [n \in Nodes |-> [next  |-> NULL,
                                      pbuf  |-> IF n = i THEN wpbuf ELSE pbuf[n],
                                      state |-> IF n = i THEN "MPOOL_ACQUIRED" ELSE state[n]]]
  BY <1>1, WhileRestingNext DEF PushPool, WriterHolds
<1>4. Atomic!get_new_tcpip_mpool(i)
  BY <1>1, <1>2 DEF Atomic!get_new_tcpip_mpool, Atomic!FreeNodes, Atomic!Nodes, ScannedIsTaken
<1>5. AtomicPool' = [AtomicPool EXCEPT ![i].state = "MPOOL_ACQUIRED", ![i].pbuf = wpbuf]
  BY <1>1, <1>2, <1>3
<1>6. AtomicCount' = (AtomicCount + 1) % CNT_MOD
  BY <1>1, WhileResting, WhileRestingNext DEF PushCount
<1>7. AtomicHead' = IF AtomicHead = NULL THEN i ELSE AtomicHead
  BY <1>1, WhileResting, WhileRestingNext DEF PushHead, CopiesAreFresh
<1>8. AtomicRet' = AtomicRet
  BY <1>1, WhileResting, WhileRestingNext
<1>9. QED
  BY <1>1, <1>4, <1>5, <1>6, <1>7, <1>8
     DEF Atomic!push_to_rx_ctrl_blk, Atomic!Enqueue, Atomic!Nodes

(* Every other step of the writer leaves the mapped queue as it is.        *)
LEMMA WriterElseStutters ==
  ASSUME SerialInv, Write, ~Acquire
  PROVE  UNCHANGED PushVars
<1> USE DEF SerialInv, IInv, LocalInv, TypeOK, Nodes, PushVars, PushPool, PushHead, PushCount,
            WriterHolds, CopiesAreFresh, WriterLocals, shared, reader, ReturnPush
<1>1. ASSUME NEW p \in Pbufs, CallPush(p) PROVE UNCHANGED PushVars
  BY <1>1 DEF CallPush
<1>2. CASE ScanTaken \/ DropMessage
  BY <1>2 DEF ScanTaken, DropMessage
<1>3. CASE LoadForIncrement
  BY <1>3 DEF LoadForIncrement
<1>4. CASE StoreIncrement
  BY <1>4 DEF StoreIncrement
<1>5. CASE Fill
  BY <1>5 DEF Fill
<1>6. CASE LinkAsHead
  BY <1>6 DEF LinkAsHead
<1>7. CASE WalkAndForget
  BY <1>7 DEF WalkAndForget
<1>8. QED
  BY <1>1, <1>2, <1>3, <1>4, <1>5, <1>6, <1>7 DEF Write

(* So a step of the writer is a push or nothing.                           *)
LEMMA SerialWriteStep ==
  ASSUME SerialInv, Write, Begin => AtRest
  PROVE  [Atomic!Next]_(Atomic!vars)
<1>1. Resting /\ Resting'
  BY WriterIsAlone DEF SerialInv
<1>2. CASE Acquire
  BY <1>1, <1>2, AcquireIsPush
     DEF Atomic!Next, Atomic!Push, Acquire, SerialInv, IInv, LocalInv, WriterLocals
<1>3. CASE ~Acquire
  BY <1>1, <1>3, WriterElseStutters, WhileResting, WhileRestingNext DEF PushVars, Atomic!vars
<1>4. QED
  BY <1>2, <1>3
-----------------------------------------------------------------------------
(* A reader's steps: the test of the counter is the pop.                   *)

(* A zero counter is a pop of nothing ...                                  *)
LEMMA FindNoneIsPop ==
  ASSUME Resting, Resting', NEW r \in Readers, FindNone(r), wpc = "idle"
  PROVE  Atomic!Pop
<1>1. UNCHANGED <<PushPool, PushHead, PushCount>> /\ PushCount = 0 /\ ret' = NULL
  BY DEF FindNone, ReturnPop, shared, writer, PushPool, PushHead, PushCount, WriterHolds
<1>2. QED
  BY <1>1, WhileResting, WhileRestingNext DEF Atomic!Pop, Atomic!pop_pbuf_from_rx_ctrl_blk

(* ... and another one the pop of what the list holds.                     *)
LEMMA CheckCountIsPop ==
  ASSUME SerialInv, Resting, NEW r \in Readers, CheckCount(r), Busy(r)'
  PROVE  Atomic!Pop
<1> USE DEF SerialInv, IInv, LocalInv, TypeOK
<1>1. /\ rpc'[r] = "head" /\ rx_buf_cnt # 0 /\ wpc = "idle"
      /\ UNCHANGED <<state, pbuf, rx_bufhead, rx_buf_cnt>>
  BY DEF CheckCount, Goto, shared, writer, Busy
<1>2. /\ AtomicPool = [n \in Nodes |-> [next |-> NULL, pbuf |-> pbuf[n], state |-> state[n]]]
      /\ AtomicHead = rx_bufhead /\ AtomicCount = rx_buf_cnt
  BY <1>1, WhileResting DEF PushPool, PushHead, PushCount, WriterHolds
<1>3. AtomicPool' = [n \in Nodes |->
                      [next  |-> NULL, pbuf |-> pbuf[n],
                       state |-> IF rx_bufhead = n THEN "MPOOL_FREE" ELSE state[n]]]
  BY <1>1, WhilePoppingNext DEF PopPool, ToFree
<1>4. /\ AtomicHead' = NULL /\ AtomicRet' = Waiting
      /\ AtomicCount' = (AtomicCount + CNT_MOD - 1) % CNT_MOD
  BY <1>1, <1>2, WhilePoppingNext DEF PopRet, Waiting
<1>5. CASE rx_bufhead # NULL
  <2>1. rx_bufhead \in Nodes
    BY <1>5
  <2>2. Atomic!free_tcpip_mpool(AtomicHead)
    BY <1>2, <1>3, <2>1 DEF Atomic!free_tcpip_mpool
  <2>3. Atomic!PopHead
    BY <1>2, <1>4, <1>5, <2>1, <2>2 DEF Atomic!PopHead, Waiting
  <2>4. QED
    BY <1>1, <1>2, <1>4, <2>3 DEF Atomic!Pop, Atomic!pop_pbuf_from_rx_ctrl_blk
<1>6. CASE rx_bufhead = NULL
  <2>1. AtomicPool' = AtomicPool
    BY <1>2, <1>3, <1>6
  <2>2. Atomic!PopNothing
    BY <1>2, <1>4, <1>6, <2>1 DEF Atomic!PopNothing, Waiting
  <2>3. QED
    BY <1>1, <1>2, <1>4, <2>2 DEF Atomic!Pop, Atomic!pop_pbuf_from_rx_ctrl_blk
<1>7. QED
  BY <1>5, <1>6

(* Between its first step and its last, a pop changes nothing of RxQueue.  *)
LEMMA PoppingStutters ==
  ASSUME SerialInv, NEW r \in Readers, Busy(r), Busy(r)', Read(r)
  PROVE  UNCHANGED <<PopPool(r), PopRet(r), rx_buf_cnt>>
<1> USE DEF SerialInv, IInv, LocalInv, TypeOK, HeldByOne, ReaderLocals, ReaderHolds, Busy,
            CopiesAreFresh, PopPool, PopRet, ToFree, Waiting, shared, writer, Goto
<1>1. CASE ReadHead(r)
  BY <1>1 DEF ReadHead
<1>2. CASE ReadNullHead(r)
  BY <1>2 DEF ReadNullHead
<1>3. CASE ReadPbuf(r)
  BY <1>3 DEF ReadPbuf
<1>4. CASE Unlink(r)
  BY <1>4 DEF Unlink
<1>5. CASE free_tcpip_mpool(r)
  BY <1>5 DEF free_tcpip_mpool
<1>6. CASE LoadForDecrement(r)
  BY <1>6 DEF LoadForDecrement
<1>7. ~FindNone(r) /\ ~CheckCount(r) /\ ~StoreDecrement(r)
  BY DEF FindNone, CheckCount, StoreDecrement, ReturnPop
<1>8. QED
  BY <1>1, <1>2, <1>3, <1>4, <1>5, <1>6, <1>7 DEF Read

(* When the call returns, the queue is what it was mapped to.              *)
LEMMA ReturnStutters ==
  ASSUME SerialInv, NEW r \in Readers, Busy(r), Resting', StoreDecrement(r)
  PROVE  UNCHANGED (Atomic!vars)
<1> USE DEF SerialInv, IInv, LocalInv, TypeOK, Busy, CopiesAreFresh, StoreDecrement, ReturnPop
<1>1. AtomicPool' = AtomicPool
  BY WhilePopping, WhileRestingNext DEF PopPool, PushPool, ToFree, WriterHolds, writer
<1>2. AtomicHead' = AtomicHead
  BY WhilePopping, WhileRestingNext DEF PushHead, writer
<1>3. AtomicCount' = AtomicCount
  BY WhilePopping, WhileRestingNext DEF PushCount, writer
<1>4. AtomicRet' = AtomicRet
  BY WhilePopping, WhileRestingNext DEF PopRet
<1>5. QED
  BY <1>1, <1>2, <1>3, <1>4 DEF Atomic!vars

(* So a step of a reader is a pop or nothing.                              *)
LEMMA SerialReadStep ==
  ASSUME SerialInv, NEW r \in Readers, Read(r), Begin => AtRest
  PROVE  [Atomic!Next]_(Atomic!vars)
<1> USE DEF SerialInv, IInv, LocalInv, TypeOK
<1>1. wpc = "idle" /\ wpc' = "idle" /\ Alone(r) /\ Alone(r)'
  BY ReaderIsAlone
<1>2. CASE FindNone(r)
  <2>1. Resting /\ Resting'
    BY <1>1, <1>2 DEF FindNone, ReturnPop, Goto, Resting, Alone
  <2>2. QED
    BY <1>1, <1>2, <2>1, FindNoneIsPop DEF Atomic!Next
<1>3. CASE CheckCount(r)
  <2>1. Resting /\ Busy(r)'
    BY <1>1, <1>3 DEF CheckCount, Goto, Resting, Alone, Busy
  <2>2. QED
    BY <1>3, <2>1, CheckCountIsPop DEF Atomic!Next
<1>4. CASE StoreDecrement(r)
  <2>1. Busy(r) /\ Resting'
    BY <1>1, <1>4 DEF StoreDecrement, ReturnPop, Goto, Resting, Alone, Busy
  <2>2. QED
    BY <1>4, <2>1, ReturnStutters
<1>5. CASE ~(FindNone(r) \/ CheckCount(r) \/ StoreDecrement(r))
  <2>1. Busy(r) /\ Busy(r)'
    BY <1>1, <1>5 DEF Read, ReadHead, ReadNullHead, ReadPbuf, Unlink, free_tcpip_mpool,
                      LoadForDecrement, Goto, Busy
  <2>2. UNCHANGED <<PopPool(r), PopRet(r), rx_buf_cnt>>
    BY <2>1, PoppingStutters
  <2>3. QED
    BY <2>1, <2>2, WhilePopping, WhilePoppingNext DEF Atomic!vars
<1>6. QED
  BY <1>2, <1>3, <1>4, <1>5

(* Without overlapping calls, the functions as the processor executes them *)
(* implement the functions as RxQueue has them: a push takes effect when   *)
(* it marks its node, a pop when it tests the counter.                     *)
THEOREM SerialIsAtomic == SerialSpec => AtomicSpec
<1>1. Init => Atomic!Init
  <2> SUFFICES ASSUME Init PROVE Atomic!Init
    OBVIOUS
  <2>1. Resting
    BY DEF Init, Resting
  <2>2. QED
    BY <2>1, WhileResting
       DEF Init, Atomic!Init, Atomic!Nodes, Nodes, PushPool, PushHead, PushCount, WriterHolds
<1>2. SerialInv /\ [SerialNext]_vars => [Atomic!Next]_(Atomic!vars)
  <2> SUFFICES ASSUME SerialInv, [SerialNext]_vars PROVE [Atomic!Next]_(Atomic!vars)
    OBVIOUS
  <2>1. CASE UNCHANGED vars
    BY <2>1 DEF vars, Atomic!vars, AtomicPool, AtomicHead, AtomicCount, AtomicRet, Popping,
                ToFree, WriterHolds, Waiting
  <2>2. QED
    BY <2>1, SerialWriteStep, SerialReadStep DEF SerialNext, Next
<1>3. QED
  BY <1>1, <1>2, SerialInvariance, PTL DEF SerialSpec, SerialNext, AtomicSpec, Atomic!Spec
=============================================================================
